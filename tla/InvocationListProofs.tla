------------------------ MODULE InvocationListProofs ------------------------
(***************************************************************************)
(* The list of invocations for any table, any filters, any page size and   *)
(* any number of requests under way.                                       *)
(***************************************************************************)
EXTENDS InvocationList, FiniteSetTheorems, TLAPS

Rows == [id: Ids, at: Times]

TableInv(cr) ==
    IsFiniteSet(DOMAIN cr) /\ DOMAIN cr \subseteq Ids /\ \A i \in DOMAIN cr : cr[i] \in Times

(* The rows are rows of the table.                                         *)
InTable(cr, rows) ==
    \A k \in DOMAIN rows : rows[k].id \in DOMAIN cr /\ cr[rows[k].id] = rows[k].at

Sorted(rows) ==
    \A i, j \in DOMAIN rows : i < j => rows[i].id # rows[j].id /\ rows[i].at >= rows[j].at

Has(rows, id) == \E k \in DOMAIN rows : rows[k].id = id

(* Where a row of the first page's table that the filter selects is.       *)
Complete(cr, l, f) ==
    \A id \in l.base :
        \/ ~Selects(f, 0, cr[id]) \/ Has(l.rows, id) \/ cr[id] \in l.cursors
        \/ ~l.short /\ cr[id] <= Last(l.rows).at

ListInv(cr, l) ==
    /\ l \in Lists /\ InTable(cr, l.rows) /\ Sorted(l.rows) /\ l.filters # {} /\ l.base \subseteq DOMAIN cr
    /\ \A f \in Filters : l.filters = {f} => l.base \subseteq f.match /\ Complete(cr, l, f)

(* A page has the newest of the rows it is asked for.                      *)
PageOf(cr, page, f, before, ids) ==
    /\ page \in Seq(Rows) /\ Len(page) <= PageSize /\ InTable(cr, page) /\ Sorted(page)
    /\ before # 0 => \A k \in DOMAIN page : page[k].at < before
    /\ \A id \in ids : \/ ~Selects(f, before, cr[id]) \/ Has(page, id)
                       \/ Len(page) = PageSize /\ cr[id] <= page[PageSize].at

CallInv(cr, q) ==
    /\ q \in CallState
    /\ q.onto = None => q.before = 0
    /\ q.onto # None => ListInv(cr, q.onto) /\ q.onto.rows # <<>> /\ q.before = Last(q.onto.rows).at
    /\ q.st = "served" =>
          IF q.onto = None
          THEN q.base \subseteq DOMAIN cr \cap q.filter.match /\ PageOf(cr, q.page, q.filter, 0, q.base)
          ELSE PageOf(cr, q.page, q.filter, q.before, q.onto.base \cap q.filter.match)

FilterInv ==
    ~ui.overlap => /\ ui.list # None => ui.list.filters = {ui.filter}
                   /\ \A c \in DOMAIN calls : calls[c].st # "over" => FiltersOf(calls[c]) = {ui.filter}

IndInv ==
    /\ TableInv(created) /\ ui \in UIState /\ calls \in Seq(CallState)
    /\ ui.list # None => ListInv(created, ui.list)
    /\ \A c \in DOMAIN calls : CallInv(created, calls[c])
    /\ FilterInv

-----------------------------------------------------------------------------
(* Rows that are added leave what is known of the others.                  *)

Extends(cr, new) == \A i \in DOMAIN cr : i \in DOMAIN new /\ new[i] = cr[i]

(* A list stays right when the table grows,                                *)
LEMMA ListExtended ==
    ASSUME NEW cr, NEW new, Extends(cr, new), NEW l, ListInv(cr, l)
    PROVE  ListInv(new, l)
  <1>1. InTable(new, l.rows)
    BY DEF Extends, ListInv, InTable
  <1>2. l.base \subseteq DOMAIN new /\ \A id \in l.base : new[id] = cr[id]
    BY DEF Extends, ListInv
  <1>3. ASSUME NEW f \in Filters, l.filters = {f} PROVE Complete(new, l, f)
    <2>1. Complete(cr, l, f)
      BY <1>3 DEF ListInv
    <2> QED BY <2>1, <1>2 DEF Complete
  <1> QED BY <1>1, <1>2, <1>3 DEF ListInv

(* so does a page served,                                                  *)
LEMMA PageExtended ==
    ASSUME NEW cr, NEW new, Extends(cr, new), NEW page, NEW f, NEW before, NEW ids, ids \subseteq DOMAIN cr,
           PageOf(cr, page, f, before, ids)
    PROVE  PageOf(new, page, f, before, ids)
  <1>1. InTable(new, page)
    BY DEF Extends, PageOf, InTable
  <1>2. \A id \in ids : new[id] = cr[id]
    BY DEF Extends
  <1>3. \A id \in ids : \/ ~Selects(f, before, new[id]) \/ Has(page, id)
                        \/ Len(page) = PageSize /\ new[id] <= page[PageSize].at
    BY <1>2 DEF PageOf
  <1> QED BY <1>1, <1>3 DEF PageOf

(* and so does a request under way.                                        *)
LEMMA CallExtended ==
    ASSUME NEW cr, NEW new, Extends(cr, new), NEW q, CallInv(cr, q)
    PROVE  CallInv(new, q)
  <1>1. q.onto # None => ListInv(cr, q.onto) /\ ListInv(new, q.onto) /\ q.onto.base \subseteq DOMAIN cr
    <2>1. q.onto # None => ListInv(cr, q.onto)
      BY DEF CallInv
    <2>2. ASSUME q.onto # None PROVE ListInv(new, q.onto)
      BY <2>1, <2>2, ListExtended
    <2> QED BY <2>1, <2>2 DEF ListInv
  <1>2. CASE q.st = "served" /\ q.onto = None
    <2>1. q.base \subseteq DOMAIN cr \cap q.filter.match /\ PageOf(cr, q.page, q.filter, 0, q.base)
      BY <1>2 DEF CallInv
    <2>2. PageOf(new, q.page, q.filter, 0, q.base)
      BY <2>1, PageExtended
    <2>3. q.base \subseteq DOMAIN new \cap q.filter.match
      BY <2>1 DEF Extends
    <2> QED BY <1>2, <2>2, <2>3 DEF CallInv
  <1>3. CASE q.st = "served" /\ q.onto # None
    <2>1. PageOf(cr, q.page, q.filter, q.before, q.onto.base \cap q.filter.match)
      BY <1>3 DEF CallInv
    <2>2. q.onto.base \cap q.filter.match \subseteq DOMAIN cr
      BY <1>1, <1>3
    <2>3. PageOf(new, q.page, q.filter, q.before, q.onto.base \cap q.filter.match)
      BY <2>1, <2>2, PageExtended
    <2> QED BY <1>1, <1>3, <2>3 DEF CallInv
  <1>4. CASE q.st # "served"
    BY <1>1, <1>4 DEF CallInv
  <1> QED BY <1>2, <1>3, <1>4

LEMMA UpsertStep ==
    ASSUME IndInv, NEW id \in Ids, NEW at \in Times, Upsert(id, at)
    PROVE  IndInv'
  <1>1. /\ TableInv(created) /\ ui' = ui /\ calls' = calls
        /\ created' = [i \in DOMAIN created \cup {id} |-> IF i = id THEN CreatedAt(id, at) ELSE created[i]]
    BY DEF IndInv, Upsert
  <1>2. DOMAIN created' = DOMAIN created \cup {id}
    BY <1>1
  <1>3. Extends(created, created')
    BY <1>1, <1>2 DEF Extends, CreatedAt
  <1>4. IsFiniteSet(DOMAIN created')
    BY <1>1, <1>2, FS_AddElement DEF TableInv
  <1>5. \A i \in DOMAIN created' : created'[i] \in Times
    BY <1>1, <1>2 DEF TableInv, CreatedAt
  <1>6. TableInv(created')
    BY <1>1, <1>2, <1>4, <1>5 DEF TableInv
  <1>7. ui'.list # None => ListInv(created', ui'.list)
    BY <1>1, <1>3, ListExtended DEF IndInv
  <1>8. \A c \in DOMAIN calls' : CallInv(created', calls'[c])
    BY <1>1, <1>3, CallExtended DEF IndInv
  <1>9. FilterInv'
    BY <1>1 DEF IndInv, FilterInv, FiltersOf
  <1> QED BY <1>1, <1>6, <1>7, <1>8, <1>9 DEF IndInv

-----------------------------------------------------------------------------
(* The answers of List.                                                    *)

Hits(f, before) == {j \in DOMAIN created : j \in f.match /\ Selects(f, before, created[j])}

RowOf(i) == [id |-> i, at |-> created[i]]

(* A page is all of the rows selected, or the newest PageSize of them.     *)
LEMMA PageIs ==
    ASSUME TableInv(created), NEW f, NEW before, NEW page \in Pages(f, before)
    PROVE  PageOf(created, page, f, before, DOMAIN created \cap f.match)
  <1> DEFINE H == Hits(f, before)
             hits == {RowOf(i) : i \in H}
             n == Cardinality(hits)
  <1>1. PICK s \in SetToSeqs(hits) :
           /\ \A i, j \in DOMAIN s : i < j => s[i].at >= s[j].at
           /\ page = SubSeq(s, 1, IF Len(s) < PageSize THEN Len(s) ELSE PageSize)
    BY DEF Pages, Hits, RowOf
  <1>2. H \subseteq DOMAIN created /\ IsFiniteSet(H)
    BY FS_Subset DEF TableInv, Hits
  <1>3. IsFiniteSet(hits) /\ n \in Nat
    <2>1. PICK g : g = [i \in H |-> RowOf(i)]
      OBVIOUS
    <2>2. g \in Surjection(H, hits)
      BY <2>1 DEF Surjection
    <2>3. IsFiniteSet(hits)
      BY <2>2, <1>2, FS_Surjection
    <2> QED BY <2>3, FS_CardinalityType
  <1>4. s \in [1..n -> hits] /\ \A i, j \in 1..n : i # j => s[i] # s[j]
    BY DEF SetToSeqs
  <1>5. \A h \in hits : \E k \in 1..n : s[k] = h
    <2>1. s \in Injection(1..n, hits)
      BY <1>4 DEF Injection, IsInjective
    <2>2. IsFiniteSet(1..n) /\ Cardinality(1..n) = n
      BY <1>3, FS_Interval
    <2>3. s \in Surjection(1..n, hits)
      BY <2>1, <2>2, <1>3, FS_Injection
    <2> QED BY <2>3 DEF Surjection
  <1>6. \A k \in 1..n : /\ s[k].id \in DOMAIN created /\ s[k].id \in H /\ s[k].at = created[s[k].id]
                        /\ s[k] = RowOf(s[k].id)
    <2> TAKE k \in 1..n
    <2>1. s[k] \in hits
      BY <1>4
    <2>2. PICK i \in H : s[k] = RowOf(i)
      BY <2>1
    <2>3. s[k].id = i /\ s[k].at = created[i]
      BY <2>2 DEF RowOf
    <2> QED BY <2>2, <2>3, <1>2
  <1>7. \A k \in 1..n : s[k] \in Rows
    <2> TAKE k \in 1..n
    <2>1. PICK i \in DOMAIN created : s[k] = RowOf(i)
      BY <1>6
    <2>2. i \in Ids /\ created[i] \in Times
      BY DEF TableInv
    <2> QED BY <2>1, <2>2 DEF RowOf, Rows
  <1> HIDE DEF n, hits, H
  <1>8. s \in Seq(Rows) /\ Len(s) = n /\ DOMAIN s = 1..n
    BY <1>3, <1>4, <1>7
  <1>9. PICK m \in Nat : m = IF n < PageSize THEN n ELSE PageSize
    BY <1>3, ListAssumption
  <1>10. PageSize \in Nat /\ PageSize >= 1 /\ m <= n /\ m <= PageSize
    BY <1>3, <1>9, ListAssumption
  <1>11. page \in Seq(Rows) /\ Len(page) = m /\ DOMAIN page = 1..m /\ \A k \in 1..m : k \in 1..n /\ page[k] = s[k]
    BY <1>1, <1>3, <1>8, <1>9, <1>10
  <1>12. InTable(created, page)
    BY <1>6, <1>11 DEF InTable
  <1>13. Sorted(page)
    <2> SUFFICES ASSUME NEW i \in 1..m, NEW j \in 1..m, i < j
                 PROVE  page[i].id # page[j].id /\ page[i].at >= page[j].at
      BY <1>11 DEF Sorted
    <2>1. s[i] # s[j] /\ s[i].at >= s[j].at
      BY <1>1, <1>4, <1>8, <1>11
    <2> QED BY <2>1, <1>6, <1>11
  <1>14. before # 0 => \A k \in DOMAIN page : page[k].at < before
    BY <1>6, <1>11 DEF H, Hits, Selects
  <1>15. ASSUME NEW id \in DOMAIN created \cap f.match, Selects(f, before, created[id]), ~Has(page, id)
         PROVE  Len(page) = PageSize /\ created[id] <= page[PageSize].at
    <2>1. RowOf(id) \in hits
      BY <1>15 DEF hits, H, Hits
    <2>2. PICK k \in 1..n : s[k] = RowOf(id)
      BY <2>1, <1>5
    <2>3. s[k].id = id /\ s[k].at = created[id]
      BY <2>2 DEF RowOf
    <2>4. ~(k \in 1..m)
      BY <2>3, <1>11, <1>15 DEF Has
    <2>5. m = PageSize /\ PageSize < k /\ PageSize \in 1..n
      BY <2>4, <1>3, <1>9, <1>10
    <2>6. s[PageSize].at >= s[k].at
      BY <2>5, <1>1, <1>8
    <2>7. page[PageSize] = s[PageSize] /\ s[PageSize].at \in Nat /\ created[id] \in Nat
      BY <2>3, <2>5, <1>7, <1>10, <1>11, ListAssumption DEF Rows, Times
    <2> QED BY <2>3, <2>5, <2>6, <2>7, <1>11
  <1> QED BY <1>10, <1>11, <1>12, <1>13, <1>14, <1>15 DEF PageOf

-----------------------------------------------------------------------------
(* Types of the records the actions build, one field at a time.            *)

PageSeqs  == Seq(Rows)
IdSets    == SUBSET Ids
Flags     == BOOLEAN
States    == {"sent", "served", "failed", "over"}
MaybeList == Lists \cup {None}

LEMMA StField ==
    ASSUME NEW q \in CallState, NEW v \in States PROVE [q EXCEPT !.st = v] \in CallState
  BY DEF CallState, States

LEMMA PageField ==
    ASSUME NEW q \in CallState, NEW v \in PageSeqs PROVE [q EXCEPT !.page = v] \in CallState
  BY DEF CallState, PageSeqs, Rows

LEMMA BaseField ==
    ASSUME NEW q \in CallState, NEW v \in IdSets PROVE [q EXCEPT !.base = v] \in CallState
  BY DEF CallState, IdSets

LEMMA FilterField ==
    ASSUME NEW u \in UIState, NEW v \in Filters PROVE [u EXCEPT !.filter = v] \in UIState
  BY DEF UIState

LEMMA ListField ==
    ASSUME NEW u \in UIState, NEW v \in MaybeList PROVE [u EXCEPT !.list = v] \in UIState
  BY DEF UIState, MaybeList

LEMMA HasMoreField ==
    ASSUME NEW u \in UIState, NEW v \in Flags PROVE [u EXCEPT !.hasMore = v] \in UIState
  BY DEF UIState, Flags

LEMMA LoadingField ==
    ASSUME NEW u \in UIState, NEW v \in Flags PROVE [u EXCEPT !.loadingMore = v] \in UIState
  BY DEF UIState, Flags

LEMMA ErrorField ==
    ASSUME NEW u \in UIState, NEW v \in Flags PROVE [u EXCEPT !.error = v] \in UIState
  BY DEF UIState, Flags

LEMMA OverlapField ==
    ASSUME NEW u \in UIState, NEW v \in Flags PROVE [u EXCEPT !.overlap = v] \in UIState
  BY DEF UIState, Flags

LEMMA Constants == "served" \in States /\ "failed" \in States /\ TRUE \in Flags /\ None \in MaybeList
  BY DEF States, Flags, MaybeList

WithPage(q, page, base)      == [q EXCEPT !.st = "served", !.page = page, !.base = base]
WithFilter(u, f, overlap)    == [u EXCEPT !.filter = f, !.list = None, !.overlap = overlap]
WithList(u, l, more, load)   == [u EXCEPT !.list = l, !.hasMore = more, !.loadingMore = load]
WithError(u, load)           == [u EXCEPT !.error = TRUE, !.loadingMore = load]

LEMMA PageTyped ==
    ASSUME NEW q \in CallState, NEW page \in PageSeqs, NEW base \in IdSets
    PROVE  WithPage(q, page, base) \in CallState
  <1>1. [q EXCEPT !.st = "served"] \in CallState
    BY StField, Constants, Zenon
  <1>2. [q EXCEPT !.st = "served", !.page = page] \in CallState
    BY <1>1, PageField, Zenon
  <1>3. [q EXCEPT !.st = "served", !.page = page, !.base = base] \in CallState
    BY <1>2, BaseField, Zenon
  <1> QED BY <1>3, Zenon DEF WithPage

LEMMA UITyped ==
    ASSUME NEW u \in UIState, NEW f \in Filters, NEW l \in MaybeList, NEW a \in Flags, NEW b \in Flags
    PROVE  /\ WithFilter(u, f, a) \in UIState /\ WithList(u, l, a, b) \in UIState /\ WithError(u, a) \in UIState
           /\ [u EXCEPT !.loadingMore = TRUE] \in UIState
  <1>1. [u EXCEPT !.filter = f] \in UIState
    BY FilterField, Zenon
  <1>2. [u EXCEPT !.filter = f, !.list = None] \in UIState
    BY <1>1, ListField, Constants, Zenon
  <1>3. [u EXCEPT !.filter = f, !.list = None, !.overlap = a] \in UIState
    BY <1>2, OverlapField, Zenon
  <1>4. [u EXCEPT !.list = l] \in UIState
    BY ListField, Zenon
  <1>5. [u EXCEPT !.list = l, !.hasMore = a] \in UIState
    BY <1>4, HasMoreField, Zenon
  <1>6. [u EXCEPT !.list = l, !.hasMore = a, !.loadingMore = b] \in UIState
    BY <1>5, LoadingField, Zenon
  <1>7. [u EXCEPT !.error = TRUE] \in UIState
    BY ErrorField, Constants, Zenon
  <1>8. [u EXCEPT !.error = TRUE, !.loadingMore = a] \in UIState
    BY <1>7, LoadingField, Zenon
  <1>9. [u EXCEPT !.loadingMore = TRUE] \in UIState
    BY LoadingField, Constants, Zenon
  <1> QED BY <1>3, <1>6, <1>8, <1>9, Zenon DEF WithFilter, WithList, WithError

LEMMA NewCallIs ==
    ASSUME NEW f \in Filters, NEW before \in Times \cup {0}, NEW onto \in MaybeList
    PROVE  /\ NewCall(f, before, onto) \in CallState
           /\ LET q == NewCall(f, before, onto) IN
                q.filter = f /\ q.before = before /\ q.onto = onto /\ q.st = "sent"
  BY DEF NewCall, CallState, MaybeList

LEMMA OverIs ==
    Over \in CallState /\ Over.onto = None /\ Over.before = 0 /\ Over.st = "over"
  <1>1. NoFilter \in Filters
    BY ListAssumption
  <1>2. NewCall(NoFilter, 0, None) \in CallState
    BY <1>1, Constants, NewCallIs
  <1> QED BY <1>2 DEF Over, NewCall, CallState

LEMMA Here ==
    ASSUME IndInv, NEW c \in DOMAIN calls
    PROVE  /\ calls[c] \in CallState /\ CallInv(created, calls[c])
           /\ \A q \in CallState : /\ [calls EXCEPT ![c] = q] \in Seq(CallState)
                                   /\ DOMAIN [calls EXCEPT ![c] = q] = DOMAIN calls
  BY DEF IndInv

(* A step that changes the call c alone, and the page perhaps.             *)
LEMMA CallStep ==
    ASSUME IndInv, NEW c \in DOMAIN calls, NEW q \in CallState, CallInv(created, q), created' = created,
           calls' = [calls EXCEPT ![c] = q], ui' \in UIState, ui'.overlap = ui.overlap, ui'.filter = ui.filter,
           ui'.list # None => ListInv(created, ui'.list),
           ~ui.overlap => /\ ui'.list # None => ui'.list.filters = {ui.filter}
                          /\ q.st # "over" => FiltersOf(q) = {ui.filter}
    PROVE  IndInv'
  <1>1. calls' \in Seq(CallState) /\ DOMAIN calls' = DOMAIN calls
    BY Here
  <1>2. \A d \in DOMAIN calls : calls'[d] = IF d = c THEN q ELSE calls[d]
    BY DEF IndInv
  <1>3. \A d \in DOMAIN calls' : CallInv(created', calls'[d])
    BY <1>1, <1>2 DEF IndInv
  <1>4. FilterInv'
    BY <1>1, <1>2 DEF IndInv, FilterInv, FiltersOf
  <1> QED BY <1>1, <1>3, <1>4 DEF IndInv

(* A step that makes a request.                                            *)
LEMMA RequestStep ==
    ASSUME IndInv, NEW q \in CallState, CallInv(created, q), created' = created, calls' = Append(calls, q),
           ui' \in UIState, ui'.list # None => ListInv(created, ui'.list),
           ~ui'.overlap => /\ ui'.list # None => ui'.list.filters = {ui'.filter}
                           /\ FiltersOf(q) = {ui'.filter}
                           /\ \A d \in DOMAIN calls : calls[d].st # "over" => FiltersOf(calls[d]) = {ui'.filter}
    PROVE  IndInv'
  <1>1. calls \in Seq(CallState)
    BY DEF IndInv
  <1>2. /\ calls' \in Seq(CallState) /\ DOMAIN calls' = DOMAIN calls \cup {Len(calls) + 1}
        /\ calls'[Len(calls) + 1] = q /\ \A d \in DOMAIN calls : calls'[d] = calls[d]
    BY <1>1
  <1>3. \A d \in DOMAIN calls' : CallInv(created', calls'[d])
    BY <1>2 DEF IndInv
  <1>4. FilterInv'
    BY <1>2 DEF FilterInv, FiltersOf
  <1> QED BY <1>2, <1>3, <1>4 DEF IndInv

LEMMA ServeStep ==
    ASSUME IndInv, NEW c \in DOMAIN calls, Serve(c)
    PROVE  IndInv'
  <1>1. calls[c] \in CallState /\ CallInv(created, calls[c]) /\ calls[c].st = "sent" /\ ui' = ui /\ created' = created
    BY Here DEF Serve
  <1>2. ui \in UIState /\ (ui.list # None => ListInv(created, ui.list)) /\ TableInv(created)
    BY DEF IndInv
  <1>3. ~ui.overlap => (ui.list # None => ui.list.filters = {ui.filter}) /\ FiltersOf(calls[c]) = {ui.filter}
    BY <1>1 DEF IndInv, FilterInv
  <1>4. ASSUME NEW page \in Pages(calls[c].filter, calls[c].before),
               calls' = [calls EXCEPT ![c] = [@ EXCEPT !.st = "served", !.page = page,
                           !.base = IF calls[c].onto = None THEN (DOMAIN created) \cap calls[c].filter.match ELSE {}]]
        PROVE  IndInv'
    <2> DEFINE base == IF calls[c].onto = None THEN (DOMAIN created) \cap calls[c].filter.match ELSE {}
    <2>1. PICK q : q = WithPage(calls[c], page, base)
      OBVIOUS
    <2>2. calls' = [calls EXCEPT ![c] = q]
      BY <1>4, <2>1 DEF WithPage
    <2>3. PageOf(created, page, calls[c].filter, calls[c].before, DOMAIN created \cap calls[c].filter.match)
      BY <1>2, PageIs
    <2>4. page \in PageSeqs /\ base \in IdSets
      BY <2>3, <1>2 DEF PageOf, PageSeqs, IdSets, TableInv
    <2>5. q \in CallState
      BY <2>1, <2>4, <1>1, PageTyped
    <2>6. /\ q.filter = calls[c].filter /\ q.before = calls[c].before /\ q.onto = calls[c].onto /\ q.st = "served"
          /\ q.page = page /\ q.base = base
      BY <2>1, <1>1 DEF CallState, WithPage
    <2>7. CallInv(created, q)
      <3>1. CASE q.onto = None
        <4>1. q.before = 0 /\ q.base = DOMAIN created \cap q.filter.match
          BY <3>1, <2>6, <1>1 DEF CallInv
        <4> QED BY <3>1, <4>1, <2>3, <2>5, <2>6 DEF CallInv
      <3>2. CASE q.onto # None
        <4>1. ListInv(created, q.onto) /\ q.onto.rows # <<>> /\ q.before = Last(q.onto.rows).at
          BY <3>2, <2>6, <1>1 DEF CallInv
        <4>2. q.onto.base \subseteq DOMAIN created
          BY <4>1 DEF ListInv
        <4>3. PageOf(created, q.page, q.filter, q.before, q.onto.base \cap q.filter.match)
          BY <4>2, <2>3, <2>6 DEF PageOf
        <4> QED BY <3>2, <4>1, <4>3, <2>5, <2>6 DEF CallInv
      <3> QED BY <3>1, <3>2
    <2>8. FiltersOf(q) = FiltersOf(calls[c])
      BY <2>6 DEF FiltersOf
    <2> QED BY <1>1, <1>2, <1>3, <2>2, <2>5, <2>7, <2>8, CallStep
  <1>5. ASSUME calls' = [calls EXCEPT ![c].st = "failed"] PROVE IndInv'
    <2>1. PICK q : q = [calls[c] EXCEPT !.st = "failed"]
      OBVIOUS
    <2>2. calls' = [calls EXCEPT ![c] = q]
      BY <1>5, <2>1
    <2>3. q \in CallState
      BY <2>1, <1>1, StField, Constants
    <2>4. q.filter = calls[c].filter /\ q.before = calls[c].before /\ q.onto = calls[c].onto /\ q.st = "failed"
      BY <2>1, <1>1 DEF CallState
    <2>5. CallInv(created, q)
      BY <2>3, <2>4, <1>1 DEF CallInv
    <2>6. FiltersOf(q) = FiltersOf(calls[c])
      BY <2>4 DEF FiltersOf
    <2> QED BY <1>1, <1>2, <1>3, <2>2, <2>3, <2>5, <2>6, CallStep
  <1> QED BY <1>4, <1>5 DEF Serve

-----------------------------------------------------------------------------
(* The component.                                                          *)

LEMMA SetFilterStep ==
    ASSUME IndInv, NEW f \in Filters, SetFilter(f)
    PROVE  IndInv'
  <1>1. PICK a \in BOOLEAN : a = \E c \in Pending : FiltersOf(calls[c]) # {f}
    OBVIOUS
  <1>2. ui' = WithFilter(ui, f, a) /\ calls' = Append(calls, NewCall(f, 0, None)) /\ created' = created
    BY <1>1 DEF SetFilter, WithFilter
  <1>3. ui \in UIState
    BY DEF IndInv
  <1>4. ui' \in UIState
    BY <1>2, <1>3, UITyped, Constants DEF Flags
  <1>5. ui'.filter = f /\ ui'.list = None /\ ui'.overlap = a
    BY <1>2, <1>3 DEF UIState, WithFilter
  <1>6. PICK q : q = NewCall(f, 0, None)
    OBVIOUS
  <1>7. q \in CallState /\ q.filter = f /\ q.before = 0 /\ q.onto = None /\ q.st = "sent"
    BY <1>6, NewCallIs, Constants
  <1>8. CallInv(created, q) /\ FiltersOf(q) = {f}
    BY <1>7 DEF CallInv, FiltersOf
  <1>9. ~a => \A d \in DOMAIN calls : calls[d].st # "over" => FiltersOf(calls[d]) = {f}
    BY <1>1 DEF Pending
  <1> QED BY <1>2, <1>4, <1>5, <1>6, <1>7, <1>8, <1>9, RequestStep

LEMMA LoadMoreStep ==
    ASSUME IndInv, LoadMore
    PROVE  IndInv'
  <1>1. PICK q : q = NewCall(ui.filter, Last(ui.list.rows).at, ui.list)
    OBVIOUS
  <1>2. /\ ui.list # None /\ ui.list.rows # <<>> /\ created' = created
        /\ ui' = [ui EXCEPT !.loadingMore = TRUE] /\ calls' = Append(calls, q)
    BY <1>1 DEF LoadMore, Cursor
  <1>3. ui \in UIState /\ ListInv(created, ui.list)
    BY <1>2 DEF IndInv
  <1>4. ui' \in UIState
    BY <1>2, <1>3, LoadingField, Constants
  <1>5. ui'.filter = ui.filter /\ ui'.list = ui.list /\ ui'.overlap = ui.overlap
    BY <1>2, <1>3 DEF UIState
  <1>6. ui.filter \in Filters /\ ui.list \in MaybeList
    BY <1>3 DEF UIState, MaybeList
  <1>7. Last(ui.list.rows).at \in Times \cup {0}
    <2>1. ui.list.rows \in Seq(Rows)
      BY <1>3 DEF ListInv, Lists, Rows
    <2>2. Last(ui.list.rows) \in Rows
      BY <2>1, <1>2 DEF Last
    <2> QED BY <2>2 DEF Rows
  <1>8. /\ q \in CallState /\ q.filter = ui.filter /\ q.before = Last(ui.list.rows).at /\ q.onto = ui.list
        /\ q.st = "sent"
    BY <1>1, <1>6, <1>7, NewCallIs
  <1>9. CallInv(created, q)
    BY <1>2, <1>3, <1>8 DEF CallInv
  <1>10. ~ui.overlap => /\ ui.list.filters = {ui.filter} /\ FiltersOf(q) = {ui.filter}
                        /\ \A d \in DOMAIN calls : calls[d].st # "over" => FiltersOf(calls[d]) = {ui.filter}
    BY <1>2, <1>8 DEF IndInv, FilterInv, FiltersOf
  <1> QED BY <1>2, <1>3, <1>4, <1>5, <1>8, <1>9, <1>10, RequestStep

(* The list a served page makes.                                           *)
LEMMA FirstList ==
    ASSUME NEW q, CallInv(created, q), q.st = "served", q.onto = None
    PROVE  ListInv(created, ListOf(q))
  <1>1. /\ q \in CallState /\ q.base \subseteq DOMAIN created \cap q.filter.match
        /\ PageOf(created, q.page, q.filter, 0, q.base)
    BY DEF CallInv
  <1>2. PICK l : l = ListOf(q)
    OBVIOUS
  <1>3. l = [rows |-> q.page, filters |-> {q.filter}, base |-> q.base, cursors |-> {}, short |-> Len(q.page) < PageSize]
    BY <1>2 DEF ListOf
  <1>4. l.rows = q.page /\ l.filters = {q.filter} /\ l.base = q.base /\ (l.short <=> Len(q.page) < PageSize)
    BY <1>3
  <1>5. l \in Lists
    <2>1. q.page \in Seq([id: Ids, at: Times]) /\ q.filter \in Filters /\ q.base \in SUBSET Ids
      BY <1>1 DEF CallState
    <2> QED BY <2>1, <1>3 DEF Lists
  <1>6. ASSUME NEW f \in Filters, l.filters = {f} PROVE l.base \subseteq f.match /\ Complete(created, l, f)
    <2>1. f = q.filter
      BY <1>4, <1>6
    <2>2. Len(q.page) \in Nat /\ PageSize \in Nat /\ Len(q.page) <= PageSize
      BY <1>1, ListAssumption DEF PageOf
    <2>3. ASSUME NEW id \in q.base, Selects(f, 0, created[id]), ~Has(q.page, id)
          PROVE  ~l.short /\ created[id] <= Last(l.rows).at
      <3>1. Len(q.page) = PageSize /\ created[id] <= q.page[PageSize].at
        BY <2>1, <2>3, <1>1 DEF PageOf
      <3> QED BY <3>1, <2>2, <1>4 DEF Last
    <2> QED BY <2>1, <2>3, <1>1, <1>4 DEF Complete
  <1> QED BY <1>1, <1>2, <1>4, <1>5, <1>6 DEF ListInv, PageOf

(* The elements of two sequences joined.                                   *)
LEMMA Joined ==
    ASSUME NEW S, NEW a \in Seq(S), NEW b \in Seq(S), NEW m \in Nat, m = Len(a), NEW k \in Nat, k = Len(b)
    PROVE  /\ a \o b \in Seq(S) /\ DOMAIN (a \o b) = 1..(m + k) /\ Len(a \o b) = m + k
           /\ \A i \in 1..m : (a \o b)[i] = a[i]
           /\ \A x \in 1..k : (a \o b)[m + x] = b[x]
  OBVIOUS

(* A list and a further page, which begins strictly below it, make a list. *)
LEMMA FurtherList ==
    ASSUME TableInv(created), NEW q, CallInv(created, q), q.st = "served", q.onto # None
    PROVE  ListInv(created, ListOf(q))
  <1>1. PICK o : o = q.onto
    OBVIOUS
  <1>2. /\ q \in CallState /\ ListInv(created, o) /\ o.rows # <<>> /\ q.before = Last(o.rows).at
        /\ PageOf(created, q.page, q.filter, q.before, o.base \cap q.filter.match)
    BY <1>1 DEF CallInv
  <1>3. PICK l : l = ListOf(q)
    OBVIOUS
  <1>4. l = [rows |-> o.rows \o q.page, filters |-> {q.filter} \cup o.filters, base |-> o.base,
             cursors |-> o.cursors \cup {q.before}, short |-> Len(q.page) < PageSize]
    BY <1>1, <1>3 DEF ListOf, FiltersOf
  <1>5. /\ l.rows = o.rows \o q.page /\ l.filters = {q.filter} \cup o.filters /\ l.base = o.base
        /\ l.cursors = o.cursors \cup {q.before} /\ (l.short <=> Len(q.page) < PageSize)
    BY <1>4
  <1>6. /\ o.rows \in Seq(Rows) /\ o.filters \in SUBSET Filters /\ o.base \in SUBSET Ids /\ o.cursors \in SUBSET Times
        /\ InTable(created, o.rows) /\ Sorted(o.rows)
    BY <1>2 DEF ListInv, Lists, Rows
  <1>7. /\ q.page \in Seq(Rows) /\ q.filter \in Filters /\ InTable(created, q.page) /\ Sorted(q.page)
        /\ Len(q.page) <= PageSize
    BY <1>2 DEF CallState, PageOf
  <1>8. PICK m \in Nat : m = Len(o.rows) /\ DOMAIN o.rows = 1..m /\ m >= 1
    BY <1>2, <1>6
  <1>9. PICK k \in Nat : k = Len(q.page) /\ DOMAIN q.page = 1..k
    BY <1>7
  <1>10. /\ l.rows \in Seq(Rows) /\ DOMAIN l.rows = 1..(m + k) /\ Len(l.rows) = m + k
         /\ \A i \in 1..m : l.rows[i] = o.rows[i]
         /\ \A x \in 1..k : m + x \in 1..(m + k) /\ l.rows[m + x] = q.page[x]
         /\ \A i \in 1..(m + k) : i \in 1..m \/ \E x \in 1..k : i = m + x
    <2>1. /\ l.rows \in Seq(Rows) /\ DOMAIN l.rows = 1..(m + k) /\ Len(l.rows) = m + k
          /\ \A i \in 1..m : l.rows[i] = o.rows[i]
          /\ \A x \in 1..k : l.rows[m + x] = q.page[x]
      <3>1. PICK a \in Seq(Rows), b \in Seq(Rows) : a = o.rows /\ b = q.page
        BY <1>6, <1>7
      <3>2. m = Len(a) /\ k = Len(b) /\ l.rows = a \o b
        BY <3>1, <1>5, <1>8, <1>9
      <3>3. /\ a \o b \in Seq(Rows) /\ DOMAIN (a \o b) = 1..(m + k) /\ Len(a \o b) = m + k
            /\ \A i \in 1..m : (a \o b)[i] = a[i]
            /\ \A x \in 1..k : (a \o b)[m + x] = b[x]
        BY <3>2, Joined
      <3> QED BY <3>1, <3>2, <3>3
    <2>2. \A x \in 1..k : m + x \in 1..(m + k)
      OBVIOUS
    <2>3. ASSUME NEW i \in 1..(m + k), i \notin 1..m PROVE \E x \in 1..k : i = m + x
      <3>1. i - m \in 1..k /\ i = m + (i - m)
        BY <2>3
      <3> QED BY <3>1
    <2> QED BY <2>1, <2>2, <2>3
  <1>11. q.before \in Times /\ q.before = o.rows[m].at /\ q.before \in Nat /\ q.before # 0 /\ m \in 1..m
    <2>1. o.rows[m] \in Rows
      BY <1>6, <1>8
    <2> QED BY <2>1, <1>2, <1>8, ListAssumption DEF Rows, Last, Times
  <1>12. l \in Lists
    <2>1. l.rows \in Seq([id: Ids, at: Times])
      BY <1>10 DEF Rows
    <2>2. {q.filter} \cup o.filters \in SUBSET Filters /\ o.cursors \cup {q.before} \in SUBSET Times
      BY <1>6, <1>7, <1>11
    <2> QED BY <2>1, <2>2, <1>4, <1>5, <1>6 DEF Lists
  <1>13. InTable(created, l.rows)
    <2> SUFFICES ASSUME NEW i \in 1..(m + k)
                 PROVE  l.rows[i].id \in DOMAIN created /\ created[l.rows[i].id] = l.rows[i].at
      BY <1>10 DEF InTable
    <2>1. CASE i \in 1..m
      BY <2>1, <1>6, <1>8, <1>10 DEF InTable
    <2>2. ASSUME NEW x \in 1..k, i = m + x
          PROVE  l.rows[i].id \in DOMAIN created /\ created[l.rows[i].id] = l.rows[i].at
      <3>1. l.rows[i] = q.page[x] /\ x \in DOMAIN q.page
        BY <2>2, <1>9, <1>10
      <3> QED BY <3>1, <1>7 DEF InTable
    <2> QED BY <2>1, <2>2, <1>10
  <1>14. \A i \in 1..(m + k) : l.rows[i].at \in Nat
    <2> TAKE i \in 1..(m + k)
    <2>1. l.rows[i] \in Rows
      BY <1>10
    <2> QED BY <2>1, ListAssumption DEF Rows, Times
  <1>15. Sorted(l.rows)
    <2> SUFFICES ASSUME NEW i \in 1..(m + k), NEW j \in 1..(m + k), i < j
                 PROVE  l.rows[i].id # l.rows[j].id /\ l.rows[i].at >= l.rows[j].at
      BY <1>10 DEF Sorted
    <2>1. CASE j \in 1..m
      <3>1. i \in 1..m
        BY <2>1
      <3>2. l.rows[i] = o.rows[i] /\ l.rows[j] = o.rows[j] /\ i \in DOMAIN o.rows /\ j \in DOMAIN o.rows
        BY <2>1, <3>1, <1>8, <1>10
      <3> QED BY <3>2, <1>6 DEF Sorted
    <2>2. ASSUME NEW x \in 1..k, i = m + x, NEW y \in 1..k, j = m + y
          PROVE  l.rows[i].id # l.rows[j].id /\ l.rows[i].at >= l.rows[j].at
      <3>1. x < y /\ l.rows[i] = q.page[x] /\ l.rows[j] = q.page[y]
        BY <2>2, <1>10
      <3> QED BY <3>1, <1>7, <1>9 DEF Sorted
    <2>3. ASSUME i \in 1..m, NEW y \in 1..k, j = m + y
          PROVE  l.rows[i].id # l.rows[j].id /\ l.rows[i].at >= l.rows[j].at
      <3>1. l.rows[i].at >= q.before
        <4>1. CASE i = m
          BY <4>1, <2>3, <1>10, <1>11
        <4>2. CASE i # m
          <5>1. i < m /\ o.rows[i].at >= o.rows[m].at
            BY <4>2, <2>3, <1>6, <1>8 DEF Sorted
          <5> QED BY <5>1, <2>3, <1>10, <1>11
        <4> QED BY <4>1, <4>2
      <3>2. l.rows[j].at < q.before
        BY <2>3, <1>2, <1>9, <1>10, <1>11 DEF PageOf
      <3>3. l.rows[i].at >= l.rows[j].at /\ l.rows[i].at # l.rows[j].at
        BY <3>1, <3>2, <1>11, <1>14
      <3>4. created[l.rows[i].id] = l.rows[i].at /\ created[l.rows[j].id] = l.rows[j].at
        BY <1>10, <1>13 DEF InTable
      <3> QED BY <3>3, <3>4
    <2>4. i \notin 1..m => j \notin 1..m
      OBVIOUS
    <2> QED BY <2>1, <2>2, <2>3, <2>4, <1>10
  <1>16. ASSUME NEW f \in Filters, l.filters = {f} PROVE l.base \subseteq f.match /\ Complete(created, l, f)
    <2>1. f = q.filter /\ o.filters = {f}
      BY <1>2, <1>5, <1>16 DEF ListInv
    <2>2. o.base \subseteq f.match /\ Complete(created, o, f) /\ o.base \subseteq DOMAIN created
      BY <1>2, <2>1 DEF ListInv
    <2>3. ASSUME NEW id \in o.base, Selects(f, 0, created[id]), ~Has(l.rows, id), created[id] \notin l.cursors
          PROVE  ~l.short /\ created[id] <= Last(l.rows).at
      <3>1. ~Has(o.rows, id)
        <4>1. \A i \in 1..m : i \in DOMAIN l.rows /\ l.rows[i] = o.rows[i]
          BY <1>10
        <4> QED BY <4>1, <2>3, <1>8 DEF Has
      <3>2. ~Has(q.page, id)
        <4>1. \A x \in 1..k : m + x \in DOMAIN l.rows /\ l.rows[m + x] = q.page[x]
          BY <1>10
        <4> QED BY <4>1, <2>3, <1>9 DEF Has
      <3>3. created[id] \notin o.cursors /\ created[id] # q.before
        BY <2>3, <1>5
      <3>4. created[id] <= q.before
        BY <2>2, <2>3, <3>1, <3>3, <1>2 DEF Complete
      <3>5. created[id] \in Nat
        BY <2>2, ListAssumption DEF TableInv, Times
      <3>6. created[id] < q.before
        BY <3>3, <3>4, <3>5, <1>11
      <3>7. Selects(f, q.before, created[id])
        BY <2>3, <3>6 DEF Selects
      <3>8. Len(q.page) = PageSize /\ created[id] <= q.page[PageSize].at
        BY <2>1, <2>2, <3>2, <3>7, <1>2 DEF PageOf
      <3>9. k = PageSize /\ k >= 1
        BY <3>8, <1>9, ListAssumption
      <3>10. Last(l.rows) = q.page[k]
        <4>1. k \in 1..k
          BY <3>9
        <4> QED BY <4>1, <1>10 DEF Last
      <3> QED BY <3>8, <3>9, <3>10, <1>5, <1>9
    <2> QED BY <2>2, <2>3, <1>5 DEF Complete
  <1>17. l.filters # {} /\ l.base \subseteq DOMAIN created
    BY <1>2, <1>5 DEF ListInv
  <1> QED BY <1>3, <1>12, <1>13, <1>15, <1>16, <1>17 DEF ListInv

LEMMA ArriveStep ==
    ASSUME IndInv, NEW c \in DOMAIN calls, Arrive(c)
    PROVE  IndInv'
  <1>1. PICK q : q = calls[c]
    OBVIOUS
  <1>2. q \in CallState /\ CallInv(created, q) /\ q.st = "served" /\ ui \in UIState /\ TableInv(created)
    BY <1>1, Here DEF IndInv, Arrive
  <1>3. PICK a \in BOOLEAN, b \in BOOLEAN : a = (Len(q.page) = PageSize) /\ b = (ui.loadingMore /\ q.onto = None)
    OBVIOUS
  <1>4. ui' = WithList(ui, ListOf(q), a, b) /\ calls' = [calls EXCEPT ![c] = Over] /\ created' = created
    BY <1>1, <1>3 DEF Arrive, WithList
  <1>5. ListInv(created, ListOf(q))
    BY <1>2, FirstList, FurtherList
  <1>6. ui' \in UIState
    <2>1. ListOf(q) \in MaybeList
      BY <1>5 DEF ListInv, MaybeList
    <2> QED BY <1>2, <1>4, <2>1, UITyped, ListAssumption DEF Flags
  <1>7. ui'.filter = ui.filter /\ ui'.list = ListOf(q) /\ ui'.overlap = ui.overlap
    BY <1>2, <1>4 DEF UIState, WithList
  <1>8. ListOf(q).filters = FiltersOf(q)
    BY DEF ListOf, FiltersOf
  <1>9. ~ui.overlap => FiltersOf(q) = {ui.filter}
    BY <1>1, <1>2 DEF IndInv, FilterInv
  <1>10. CallInv(created, Over)
    BY OverIs DEF CallInv
  <1> QED BY <1>4, <1>5, <1>6, <1>7, <1>8, <1>9, <1>10, OverIs, CallStep

LEMMA ArriveErrorStep ==
    ASSUME IndInv, NEW c \in DOMAIN calls, ArriveError(c)
    PROVE  IndInv'
  <1>1. ui \in UIState
    BY DEF IndInv
  <1>2. PICK b \in BOOLEAN : b = (ui.loadingMore /\ calls[c].onto = None)
    OBVIOUS
  <1>3. ui' = WithError(ui, b) /\ calls' = [calls EXCEPT ![c] = Over] /\ created' = created
    BY <1>2 DEF ArriveError, WithError
  <1>4. ui' \in UIState
    BY <1>1, <1>3, UITyped, Constants, ListAssumption DEF Flags
  <1>5. ui'.filter = ui.filter /\ ui'.list = ui.list /\ ui'.overlap = ui.overlap
    BY <1>1, <1>3 DEF UIState, WithError
  <1>6. CallInv(created, Over)
    BY OverIs DEF CallInv
  <1>7. /\ ui.list # None => ListInv(created, ui.list)
        /\ ~ui.overlap /\ ui.list # None => ui.list.filters = {ui.filter}
    BY DEF IndInv, FilterInv
  <1> QED BY <1>3, <1>4, <1>5, <1>6, <1>7, OverIs, CallStep

LEMMA NewUIIs ==
    /\ NewUI \in UIState /\ NewUI.list = None /\ NewUI.overlap = FALSE /\ NewUI.filter = NoFilter
    /\ \A u : u = [NewUI EXCEPT !.left = TRUE] => u \in UIState /\ u.list = None
  <1>1. NoFilter \in Filters
    BY ListAssumption
  <1>2. NewUI \in UIState /\ NewUI.list = None /\ NewUI.overlap = FALSE /\ NewUI.filter = NoFilter
    BY <1>1 DEF NewUI, UIState
  <1>3. ASSUME NEW u, u = [NewUI EXCEPT !.left = TRUE] PROVE u \in UIState /\ u.list = None
    <2>1. u = [filter |-> NoFilter, list |-> None, hasMore |-> FALSE, loadingMore |-> FALSE, error |-> FALSE,
               left |-> TRUE, overlap |-> FALSE]
      BY <1>3 DEF NewUI
    <2> QED BY <1>1, <2>1 DEF UIState
  <1> QED BY <1>2, <1>3

LEMMA UnauthorizedStep ==
    ASSUME IndInv, NEW c \in DOMAIN calls, Unauthorized(c)
    PROVE  IndInv'
  <1>1. ui' = [NewUI EXCEPT !.left = TRUE] /\ calls' = <<>> /\ created' = created
    BY DEF Unauthorized
  <1>2. ui' \in UIState /\ ui'.list = None
    BY <1>1, NewUIIs
  <1> QED BY <1>1, <1>2 DEF IndInv, FilterInv

-----------------------------------------------------------------------------
(* Nothing is shown before the first answer.                               *)
LEMMA InitInv == Init => IndInv
  <1> SUFFICES ASSUME Init PROVE IndInv
    OBVIOUS
  <1>1. PICK q : q = NewCall(NoFilter, 0, None)
    OBVIOUS
  <1>2. created = <<>> /\ ui = NewUI /\ calls = <<q>>
    BY <1>1 DEF Init
  <1>3. q \in CallState /\ q.filter = NoFilter /\ q.before = 0 /\ q.onto = None /\ q.st = "sent"
    BY <1>1, NewCallIs, Constants, ListAssumption
  <1>4. CallInv(created, q) /\ FiltersOf(q) = {NoFilter}
    BY <1>3 DEF CallInv, FiltersOf
  <1>5. TableInv(created)
    <2>1. DOMAIN created = {}
      BY <1>2
    <2> QED BY <2>1, FS_EmptySet DEF TableInv
  <1>6. calls \in Seq(CallState) /\ DOMAIN calls = {1} /\ calls[1] = q
    BY <1>2, <1>3
  <1>7. FilterInv
    BY <1>2, <1>4, <1>6, NewUIIs DEF FilterInv
  <1> QED BY <1>2, <1>4, <1>5, <1>6, <1>7, NewUIIs DEF IndInv

(* Every step keeps the invariant.                                         *)
LEMMA NextInv ==
    ASSUME IndInv, [Next]_vars
    PROVE  IndInv'
  <1>1. ASSUME UNCHANGED vars PROVE IndInv'
    BY <1>1 DEF vars, IndInv, FilterInv
  <1> QED BY <1>1, UpsertStep, SetFilterStep, LoadMoreStep, ServeStep, ArriveStep, ArriveErrorStep,
             UnauthorizedStep DEF Next

(* IndInv holds throughout, for every table, filter and page size.         *)
THEOREM Invariance == Spec => []IndInv
  <1>1. Init => IndInv
    BY InitInv
  <1>2. IndInv /\ [Next]_vars => IndInv'
    BY NextInv
  <1> QED BY <1>1, <1>2, PTL DEF Spec

(* No row is listed twice and the newest come first, however pages,        *)
(* filters and new rows interleave (postgres.go, List).                    *)
THEOREM RowsDistinct == Spec => []NoRowTwice
  <1>1. IndInv => NoRowTwice
    BY DEF IndInv, ListInv, Sorted, NoRowTwice
  <1> QED BY <1>1, Invariance, PTL

(* Load more skips nothing but a row created at the very time of a page's  *)
(* last row (the keyset cursor of List).                                   *)
THEOREM NothingElseSkipped == Spec => []SkipsOnlyTies
  <1>1. IndInv => SkipsOnlyTies
    BY DEF IndInv, ListInv, Complete, Has, SkipsOnlyTies
  <1> QED BY <1>1, Invariance, PTL

(* The list shown belongs to the filter set, unless a request for another  *)
(* filter was under way when it was set.                                   *)
THEOREM ListOfFilter == Spec => []ListIsForFilter
  <1>1. IndInv => ListIsForFilter
    BY DEF IndInv, FilterInv, ListIsForFilter
  <1> QED BY <1>1, Invariance, PTL
=============================================================================
