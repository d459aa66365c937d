------------------------- MODULE EventParserProofs -------------------------
(***************************************************************************)
(* The Record's fields for every set of events, every length of stream and *)
(* every order: nothing depends on which event offers what to a field.     *)
(***************************************************************************)
EXTENDS EventParser, TLAPS, WellFoundedInduction, FiniteSetTheorems

(* The value event e leaves in field f when the setters take it.           *)
ValueOf(e, f) == Stored(f, Last(Offers(e, f)))

(* No event offered a value to f yet.                                      *)
Unset(f) == Setters(f) = {} /\ record[f] = Empty /\ priority[f] = 0

(* The field and its priority are those of the deciding event.             *)
SetBy(i, f) ==
    Decides(i, f) /\ record[f] = ValueOf(seen[i], f) /\ priority[f] = Priority(seen[i])

FieldInv(f) == Unset(f) \/ \E i \in Setters(f) : SetBy(i, f)

(* The start and finish events so far, and the time of an event.           *)
Of(k) == {i \in DOMAIN seen : seen[i].kind = k}

TimeOf(e) == timeWithFallback(e.time, e.millis)

(* s is the last start before position i.                                  *)
LastStart(s, i) == s < i /\ \A k \in Of("Started") : k < i => k <= s

(* startTime is the time of the last start; nil until there is one.        *)
StartInv ==
    \/ Of("Started") = {} /\ summary.start = NoTime
    \/ \E s \in Of("Started") : (\A k \in Of("Started") : k <= s) /\ summary.start = TimeOf(seen[s])

(* The finish events that had a start before them.                         *)
Timed == {i \in Of("Finished") : \E s \in Of("Started") : s < i}

DurationInv ==
    \/ Timed = {} /\ summary.DurationUsec = 0
    \/ \E i \in Timed, s \in Of("Started") :
          /\ \A k \in Timed : k <= i
          /\ LastStart(s, i)
          /\ summary.DurationUsec = TimeOf(seen[i]) - TimeOf(seen[s])

TimeInv == {"start", "DurationUsec"} \subseteq DOMAIN summary /\ StartInv /\ DurationInv

(* The tags of a list that are only of the higher source stand behind      *)
(* those that are only of the lower.                                       *)
Sorted(list, low, high) ==
    \A i, j \in DOMAIN list : list[i] \in high \ low /\ list[j] \in low \ high => j < i

(* After the calls c, of priorities 3 and 4, that brought the tags F: the  *)
(* list holds the tags and the priority is that of the last call.          *)
TagsAre(c, t, F) ==
    /\ c \in Seq({3, 4}) /\ F = [q \in {3, 4} |-> F[q]]
    /\ t.priority = IF c = <<>> THEN 0 ELSE c[Len(c)]
    /\ t.list \in Seq(F[3] \cup F[4]) /\ ToSet(t.list) = F[3] \cup F[4]
    /\ (\A i \in DOMAIN c : c[i] # 4) => F[4] = {}
    /\ LateRepeat(c) \/ Sorted(t.list, F[3], F[4])

(* The tags so far are those of the events so far.                         *)
TagsInv == TagsAre(called, tags, [q \in {3, 4} |-> TagsFrom(q)])

IndInv == seen \in Seq(Events) /\ (\A f \in Fields : FieldInv(f)) /\ TimeInv /\ TagsInv

-----------------------------------------------------------------------------
(* A priority is a natural number, 0 for a kind without one.               *)
LEMMA PriorityNat == ASSUME NEW e PROVE Priority(e) \in Nat
  BY DEF Priority, PriorityOf

(* Parsing e adds its position to the setters of f when it offers a value. *)
LEMMA SettersStep ==
    ASSUME NEW e \in Events, NEW f, seen \in Seq(Events), seen' = Append(seen, e)
    PROVE  /\ seen' \in Seq(Events)
           /\ \A i \in DOMAIN seen : i \in DOMAIN seen' /\ seen'[i] = seen[i]
           /\ DOMAIN seen' = DOMAIN seen \cup {Len(seen) + 1} /\ Len(seen) + 1 \notin DOMAIN seen
           /\ seen'[Len(seen) + 1] = e
           /\ Setters(f)' = Setters(f) \cup (IF Offers(e, f) # <<>> THEN {Len(seen) + 1} ELSE {})
  <1>1. /\ seen' \in Seq(Events)
        /\ \A i \in DOMAIN seen : i \in DOMAIN seen' /\ seen'[i] = seen[i]
        /\ DOMAIN seen' = DOMAIN seen \cup {Len(seen) + 1} /\ Len(seen) + 1 \notin DOMAIN seen
        /\ seen'[Len(seen) + 1] = e
    OBVIOUS
  <1>2. Setters(f)' = {i \in DOMAIN seen' : Offers(seen'[i], f) # <<>>}
    BY DEF Setters
  <1>3. \A i \in DOMAIN seen : Offers(seen'[i], f) = Offers(seen[i], f)
    BY <1>1, Zenon
  <1>4. Offers(seen'[Len(seen) + 1], f) = Offers(e, f)
    BY <1>1, Zenon
  <1> DEFINE n == Len(seen) + 1
             O(i) == Offers(seen[i], f)
             P(i) == Offers(seen'[i], f)
  <1>5. \A i \in DOMAIN seen : P(i) = O(i)
    BY <1>3
  <1>6. Setters(f) = {i \in DOMAIN seen : O(i) # <<>>} /\ Setters(f)' = {i \in DOMAIN seen' : P(i) # <<>>}
    BY <1>2 DEF Setters
  <1>7. DOMAIN seen' = DOMAIN seen \cup {n} /\ n \notin DOMAIN seen /\ P(n) = Offers(e, f)
    BY <1>1, <1>4
  <1> HIDE DEF n, O, P
  <1>8. Setters(f)' = Setters(f) \cup (IF Offers(e, f) # <<>> THEN {n} ELSE {})
    BY <1>5, <1>6, <1>7
  <1> QED BY <1>1, <1>8 DEF n

(* A field is set by e, or keeps what it has.                              *)
LEMMA FieldStep ==
    ASSUME IndInv, NEW e \in Events, ParseEvent(e), NEW f \in Fields
    PROVE  FieldInv(f)'
  <1>1. /\ record'[f] = (IF Sets(e, f) THEN ValueOf(e, f) ELSE record[f])
        /\ priority'[f] = (IF Sets(e, f) THEN Priority(e) ELSE priority[f])
    BY DEF ParseEvent, ValueOf
  <1>2. seen \in Seq(Events) /\ seen' = Append(seen, e)
    BY DEF IndInv, ParseEvent
  <1>n. PICK n \in Nat : n = Len(seen) + 1
    BY <1>2
  <1>3. /\ \A i \in DOMAIN seen : i \in DOMAIN seen' /\ seen'[i] = seen[i]
        /\ n \notin DOMAIN seen /\ seen'[n] = e
        /\ Setters(f)' = Setters(f) \cup (IF Offers(e, f) # <<>> THEN {n} ELSE {})
    BY <1>2, <1>n, SettersStep
  <1>4. \A i \in Setters(f) : i \in DOMAIN seen /\ i \in Nat /\ i < n
    BY <1>2, <1>n DEF Setters
  <1>5. FieldInv(f)
    BY DEF IndInv
  <1>6. \A i \in Setters(f) : Priority(seen'[i]) = Priority(seen[i]) /\ ValueOf(seen'[i], f) = ValueOf(seen[i], f)
    BY <1>3, <1>4, Zenon
  <1>7. Priority(seen'[n]) = Priority(e) /\ ValueOf(seen'[n], f) = ValueOf(e, f)
    BY <1>3, Zenon
  <1>8. \A i : Priority(seen[i]) \in Nat
    BY PriorityNat
  <1>9. Priority(e) \in Nat
    BY PriorityNat
  <1>10. \A i : SetBy(i, f)' <=> Decides(i, f)' /\ record'[f] = ValueOf(seen'[i], f) /\ priority'[f] = Priority(seen'[i])
    BY DEF SetBy, ValueOf
  <1>11. \A i : Decides(i, f)' <=> /\ i \in Setters(f)'
                                   /\ \A j \in Setters(f)' : \/ Priority(seen'[j]) < Priority(seen'[i])
                                                             \/ Priority(seen'[j]) = Priority(seen'[i]) /\ j <= i
    BY DEF Decides
  <1>12. FieldInv(f)' <=> (Setters(f)' = {} /\ record'[f] = Empty /\ priority'[f] = 0) \/ \E i \in Setters(f)' : SetBy(i, f)'
    BY DEF FieldInv, Unset
  <1>13. CASE Sets(e, f)
    <2>1. Offers(e, f) # <<>> /\ priority[f] <= Priority(e)
      BY <1>13 DEF Sets
    <2>2. n \in Setters(f)' /\ \A j \in Setters(f)' : j = n \/ j \in Setters(f)
      BY <1>3, <2>1
    <2>3. \A j \in Setters(f) : Priority(seen[j]) <= Priority(e)
      <3>1. CASE Unset(f)
        BY <3>1 DEF Unset
      <3>2. CASE \E i \in Setters(f) : SetBy(i, f)
        BY <2>1, <3>2, <1>8, <1>9 DEF SetBy, Decides
      <3> QED BY <1>5, <3>1, <3>2 DEF FieldInv
    <2>4. \A j \in Setters(f)' : \/ Priority(seen'[j]) < Priority(seen'[n])
                                 \/ Priority(seen'[j]) = Priority(seen'[n]) /\ j <= n
      <3> TAKE j \in Setters(f)'
      <3>1. CASE j = n
        BY <3>1, <1>5
      <3>2. CASE j \in Setters(f)
        BY <3>2, <2>3, <1>4, <1>5, <1>6, <1>7, <1>8, <1>9
      <3> QED BY <2>2, <3>1, <3>2
    <2>5. SetBy(n, f)'
      BY <1>1, <1>7, <1>10, <1>11, <1>13, <2>2, <2>4
    <2> QED BY <1>12, <2>2, <2>5
  <1>14. CASE ~Sets(e, f)
    <2>1. record'[f] = record[f] /\ priority'[f] = priority[f]
      BY <1>1, <1>14
    <2>2. CASE Unset(f)
      <3>1. Offers(e, f) = <<>>
        BY <1>14, <1>9, <2>2 DEF Sets, Unset
      <3> QED BY <1>3, <1>12, <2>1, <2>2, <3>1 DEF Unset
    <2>3. CASE \E i \in Setters(f) : SetBy(i, f)
      <3>1. PICK i \in Setters(f) : SetBy(i, f)
        BY <2>3
      <3>2. Offers(e, f) # <<>> => Priority(e) < Priority(seen[i])
        BY <1>8, <1>9, <1>14, <3>1 DEF Sets, SetBy
      <3>3. i \in Setters(f)' /\ \A j \in Setters(f)' : j \in Setters(f) \/ (j = n /\ Offers(e, f) # <<>>)
        BY <1>3
      <3>4. \A j \in Setters(f)' : \/ Priority(seen'[j]) < Priority(seen'[i])
                                   \/ Priority(seen'[j]) = Priority(seen'[i]) /\ j <= i
        <4> TAKE j \in Setters(f)'
        <4>1. CASE j \in Setters(f)
          BY <4>1, <1>6, <3>1 DEF SetBy, Decides
        <4>2. CASE j = n /\ Offers(e, f) # <<>>
          BY <4>2, <1>6, <1>7, <3>1, <3>2
        <4> QED BY <3>3, <4>1, <4>2
      <3>5. record'[f] = ValueOf(seen'[i], f) /\ priority'[f] = Priority(seen'[i])
        BY <1>6, <2>1, <3>1 DEF SetBy
      <3>6. SetBy(i, f)'
        BY <1>10, <1>11, <3>3, <3>4, <3>5
      <3> QED BY <1>12, <3>3, <3>6
    <2> QED BY <1>5, <2>2, <2>3 DEF FieldInv
  <1> QED BY <1>13, <1>14

-----------------------------------------------------------------------------
(* A start has a time, given or fallen back to.                            *)
LEMMA StartHasTime ==
    ASSUME NEW e \in Events, e.kind = "Started" PROVE TimeOf(e) # NoTime
  <1>1. e.millis \in Int /\ NoTime \notin Int
    BY TimesAssumption
  <1> QED BY <1>1 DEF TimeOf, timeWithFallback

(* What an event does to startTime and the duration.                       *)
LEMMA SummaryStep ==
    ASSUME NEW e, {"start", "DurationUsec"} \subseteq DOMAIN summary, summary' = Summary(e)
    PROVE  /\ {"start", "DurationUsec"} \subseteq DOMAIN summary'
           /\ summary'.start = IF e.kind = "Started" THEN TimeOf(e) ELSE summary.start
           /\ summary'.DurationUsec = IF e.kind = "Finished" /\ summary.start # NoTime
                                      THEN TimeOf(e) - summary.start ELSE summary.DurationUsec
  <1>1. CASE e.kind = "Started"
    BY <1>1 DEF Summary, TimeOf
  <1>2. CASE e.kind = "Finished"
    BY <1>2 DEF Summary, TimeOf
  <1>3. CASE e.kind = "BuildMetrics"
    BY <1>3 DEF Summary
  <1>4. CASE e.kind \notin {"Started", "Finished", "BuildMetrics"}
    BY <1>4 DEF Summary
  <1> QED BY <1>1, <1>2, <1>3, <1>4

(* Parsing e, at position n, adds n to the events of its kind.             *)
LEMMA OfStep ==
    ASSUME NEW e \in Events, NEW n, seen \in Seq(Events), seen' = Append(seen, e), n = Len(seen) + 1
    PROVE  /\ n \in Nat /\ seen'[n] = e
           /\ Of("Started")' = Of("Started") \cup (IF e.kind = "Started" THEN {n} ELSE {})
           /\ Of("Finished")' = Of("Finished") \cup (IF e.kind = "Finished" THEN {n} ELSE {})
           /\ \A i \in Of("Started") \cup Of("Finished") : i \in Nat /\ i < n /\ seen'[i] = seen[i]
  <1>1. /\ DOMAIN seen = 1..(n - 1) /\ DOMAIN seen' = 1..n /\ n \in Nat /\ n >= 1
        /\ seen'[n] = e /\ \A i \in DOMAIN seen : seen'[i] = seen[i]
    OBVIOUS
  <1>2. /\ Of("Started")' = {i \in DOMAIN seen' : seen'[i].kind = "Started"}
        /\ Of("Finished")' = {i \in DOMAIN seen' : seen'[i].kind = "Finished"}
    BY DEF Of
  <1>3. /\ Of("Started") = {i \in DOMAIN seen : seen[i].kind = "Started"}
        /\ Of("Finished") = {i \in DOMAIN seen : seen[i].kind = "Finished"}
    BY DEF Of
  <1>4. Of("Started")' = Of("Started") \cup (IF e.kind = "Started" THEN {n} ELSE {})
    BY <1>1, <1>2, <1>3
  <1>5. Of("Finished")' = Of("Finished") \cup (IF e.kind = "Finished" THEN {n} ELSE {})
    BY <1>1, <1>2, <1>3
  <1> QED BY <1>1, <1>3, <1>4, <1>5

(* startTime follows the last start.                                       *)
LEMMA StartStep ==
    ASSUME NEW e \in Events, NEW n, seen \in Seq(Events), seen' = Append(seen, e), n = Len(seen) + 1,
           summary'.start = IF e.kind = "Started" THEN TimeOf(e) ELSE summary.start, StartInv
    PROVE  StartInv'
  <1>1. /\ Of("Started")' = Of("Started") \cup (IF e.kind = "Started" THEN {n} ELSE {})
        /\ n \in Nat /\ seen'[n] = e
        /\ \A i \in Of("Started") : i \in Nat /\ i < n /\ seen'[i] = seen[i]
    BY OfStep
  <1>2. StartInv' <=> \/ Of("Started")' = {} /\ summary'.start = NoTime
                      \/ \E s \in Of("Started")' : /\ \A k \in Of("Started")' : k <= s
                                                   /\ summary'.start = TimeOf(seen'[s])
    BY DEF StartInv, TimeOf, timeWithFallback
  <1>3. CASE e.kind = "Started"
    <2>1. n \in Of("Started")' /\ \A k \in Of("Started")' : k <= n
      BY <1>1, <1>3
    <2>2. summary'.start = TimeOf(seen'[n])
      BY <1>1, <1>3
    <2> QED BY <1>2, <2>1, <2>2
  <1>4. CASE e.kind # "Started"
    <2>1. Of("Started")' = Of("Started") /\ summary'.start = summary.start
      BY <1>1, <1>4
    <2>2. \A s \in Of("Started") : TimeOf(seen'[s]) = TimeOf(seen[s])
      BY <1>1
    <2> QED BY <1>2, <2>1, <2>2 DEF StartInv
  <1> QED BY <1>3, <1>4

(* A finish is measured from the last start before it, and only a finish   *)
(* that has one.                                                           *)
LEMMA DurationStep ==
    ASSUME NEW e \in Events, NEW n, seen \in Seq(Events), seen' = Append(seen, e), n = Len(seen) + 1,
           StartInv, DurationInv,
           summary'.DurationUsec = IF e.kind = "Finished" /\ summary.start # NoTime
                                   THEN TimeOf(e) - summary.start ELSE summary.DurationUsec
    PROVE  DurationInv'
  <1>1. /\ Of("Started")' = Of("Started") \cup (IF e.kind = "Started" THEN {n} ELSE {})
        /\ n \in Nat /\ seen'[n] = e
        /\ \A i \in Of("Started") : i \in Nat /\ i < n /\ seen'[i] = seen[i]
    BY OfStep
  <1>2. /\ Of("Finished")' = Of("Finished") \cup (IF e.kind = "Finished" THEN {n} ELSE {})
        /\ \A i \in Of("Finished") : i \in Nat /\ i < n /\ seen'[i] = seen[i]
    BY OfStep
  <1>3. DurationInv' <=> \/ Timed' = {} /\ summary'.DurationUsec = 0
                         \/ \E i \in Timed', s \in Of("Started")' :
                               /\ \A k \in Timed' : k <= i
                               /\ s < i /\ \A k \in Of("Started")' : k < i => k <= s
                               /\ summary'.DurationUsec = TimeOf(seen'[i]) - TimeOf(seen'[s])
    BY DEF DurationInv, LastStart, TimeOf, timeWithFallback
  <1>4. Timed' = {i \in Of("Finished")' : \E s \in Of("Started")' : s < i}
    BY DEF Timed
  <1>5. Timed = {i \in Of("Finished") : \E s \in Of("Started") : s < i}
    BY DEF Timed
  <1>6. \A i \in Of("Started") \cup Of("Finished") : TimeOf(seen'[i]) = TimeOf(seen[i])
    BY <1>1, <1>2, Zenon
  <1>7. CASE e.kind = "Finished" /\ Of("Started") # {}
    <2>1. PICK s \in Of("Started") : (\A k \in Of("Started") : k <= s) /\ summary.start = TimeOf(seen[s])
      BY <1>7 DEF StartInv
    <2>2. summary.start # NoTime
      <3>1. seen[s] \in Events /\ seen[s].kind = "Started"
        BY DEF Of
      <3> QED BY <2>1, <3>1, StartHasTime
    <2>3. Of("Started")' = Of("Started")
      BY <1>1, <1>7
    <2>4. n \in Timed' /\ \A k \in Timed' : k <= n
      BY <1>1, <1>2, <1>4, <1>7, <2>3
    <2>5. s < n /\ \A k \in Of("Started")' : k < n => k <= s
      BY <1>1, <2>1, <2>3
    <2>6. summary'.DurationUsec = TimeOf(seen'[n]) - TimeOf(seen'[s])
      <3>1. TimeOf(seen'[n]) = TimeOf(e) /\ TimeOf(seen'[s]) = TimeOf(seen[s])
        BY <1>1, <1>6
      <3> QED BY <1>7, <2>1, <2>2, <3>1
    <2> QED BY <1>3, <2>3, <2>4, <2>5, <2>6
  <1>8. CASE ~(e.kind = "Finished" /\ Of("Started") # {})
    <2>1. summary'.DurationUsec = summary.DurationUsec
      BY <1>8 DEF StartInv
    <2>2. Timed' = Timed
      BY <1>1, <1>2, <1>4, <1>5, <1>8
    <2>3. CASE Timed = {} /\ summary.DurationUsec = 0
      BY <1>3, <2>1, <2>2, <2>3
    <2>4. CASE ~(Timed = {} /\ summary.DurationUsec = 0)
      <3>1. PICK i \in Timed, s \in Of("Started") :
                /\ \A k \in Timed : k <= i
                /\ LastStart(s, i)
                /\ summary.DurationUsec = TimeOf(seen[i]) - TimeOf(seen[s])
        BY <2>4 DEF DurationInv
      <3>2. i \in Of("Finished") /\ i < n /\ s < i /\ \A k \in Of("Started") : k < i => k <= s
        BY <1>2, <1>5, <3>1 DEF LastStart
      <3>3. s \in Of("Started")' /\ \A k \in Of("Started")' : k < i => k <= s
        BY <1>1, <1>2, <3>2
      <3>4. TimeOf(seen'[i]) = TimeOf(seen[i]) /\ TimeOf(seen'[s]) = TimeOf(seen[s])
        BY <1>6, <3>2
      <3>5. summary'.DurationUsec = TimeOf(seen'[i]) - TimeOf(seen'[s])
        BY <2>1, <3>1, <3>4
      <3> QED BY <1>3, <2>2, <3>1, <3>2, <3>3, <3>5
    <2> QED BY <2>3, <2>4
  <1> QED BY <1>7, <1>8

(* An event keeps startTime and the duration right.                        *)
LEMMA TimeStep ==
    ASSUME IndInv, NEW e \in Events, ParseEvent(e)
    PROVE  TimeInv'
  <1>1. seen \in Seq(Events) /\ seen' = Append(seen, e) /\ summary' = Summary(e)
    BY Zenon DEF IndInv, ParseEvent
  <1>2. {"start", "DurationUsec"} \subseteq DOMAIN summary /\ StartInv /\ DurationInv
    BY DEF IndInv, TimeInv
  <1>3. /\ {"start", "DurationUsec"} \subseteq DOMAIN summary'
        /\ summary'.start = IF e.kind = "Started" THEN TimeOf(e) ELSE summary.start
        /\ summary'.DurationUsec = IF e.kind = "Finished" /\ summary.start # NoTime
                                   THEN TimeOf(e) - summary.start ELSE summary.DurationUsec
    BY <1>1, <1>2, SummaryStep
  <1>4. StartInv'
    BY <1>1, <1>2, <1>3, StartStep
  <1>5. DurationInv'
    BY <1>1, <1>2, <1>3, DurationStep
  <1> QED BY <1>3, <1>4, <1>5 DEF TimeInv

-----------------------------------------------------------------------------
(* Loops.  A loop of the code is a recursive function on 0..n, and what it *)
(* computes is shown by induction: over the set of the numbers a fact holds*)
(* of, with a smallest number outside it refuted.                          *)

(* A set that has 0 and with n also n + 1 has every natural number.        *)
LEMMA SetInduction ==
    ASSUME NEW P, 0 \in P, \A n \in Nat : n \in P => n + 1 \in P
    PROVE  Nat \subseteq P
  <1> SUFFICES ASSUME Nat \ P # {} PROVE FALSE
    OBVIOUS
  <1>1. PICK R : R = OpToRel(<, Nat)
    OBVIOUS
  <1>2. IsWellFoundedOn(R, Nat)
    BY <1>1, NatLessThanWellFounded
  <1>3. PICK x \in Nat \ P : \A y \in Nat \ P : ~(<<y, x>> \in R)
    BY <1>2, WFMin
  <1>4. \A y \in Nat : y < x => <<y, x>> \in R
    BY <1>1 DEF OpToRel
  <1>5. x # 0
    BY <1>3
  <1>6. x - 1 \in Nat /\ x - 1 < x /\ x - 1 + 1 = x
    BY <1>5
  <1>7. x - 1 \in P
    BY <1>3, <1>4, <1>6
  <1> QED BY <1>3, <1>6, <1>7

(* The same for the steps of a loop that ends after N of them.             *)
LEMMA LoopInduction ==
    ASSUME NEW N \in Nat, NEW P, 0 \in P, \A n \in Nat : n < N /\ n \in P => n + 1 \in P
    PROVE  0..N \subseteq P
  <1>1. PICK Q : Q = {n \in Nat : n <= N => n \in P}
    OBVIOUS
  <1>2. 0 \in Q /\ \A n \in Nat : n \in Q => n + 1 \in Q
    BY <1>1
  <1>3. Nat \subseteq Q
    BY <1>2, SetInduction
  <1> QED BY <1>1, <1>3

(* Append and concatenation, as the sets of their elements.                *)
LEMMA ToSetAppend ==
    ASSUME NEW S, NEW s \in Seq(S), NEW x \in S
    PROVE  Append(s, x) \in Seq(S) /\ ToSet(Append(s, x)) = ToSet(s) \cup {x}
  <1>1. /\ DOMAIN s = 1..Len(s) /\ Len(s) \in Nat /\ DOMAIN Append(s, x) = 1..(Len(s) + 1)
        /\ Append(s, x)[Len(s) + 1] = x /\ \A i \in 1..Len(s) : Append(s, x)[i] = s[i]
    OBVIOUS
  <1> QED BY <1>1 DEF ToSet

LEMMA ToSetConcat ==
    ASSUME NEW S, NEW s \in Seq(S), NEW t \in Seq(S)
    PROVE  s \o t \in Seq(S) /\ ToSet(s \o t) = ToSet(s) \cup ToSet(t)
  <1>1. /\ DOMAIN s = 1..Len(s) /\ DOMAIN t = 1..Len(t) /\ Len(s) \in Nat /\ Len(t) \in Nat
        /\ DOMAIN (s \o t) = 1..(Len(s) + Len(t))
        /\ \A i \in 1..Len(s) : (s \o t)[i] = s[i]
        /\ \A i \in 1..Len(t) : (s \o t)[Len(s) + i] = t[i]
    OBVIOUS
  <1>2. \A i \in 1..(Len(s) + Len(t)) : i \in 1..Len(s) \/ (i - Len(s) \in 1..Len(t) /\ i = Len(s) + (i - Len(s)))
    BY <1>1
  <1>3. ToSet(s \o t) \subseteq ToSet(s) \cup ToSet(t)
    BY <1>1, <1>2 DEF ToSet
  <1>4. ToSet(s) \subseteq ToSet(s \o t)
    BY <1>1 DEF ToSet
  <1>5. ToSet(t) \subseteq ToSet(s \o t)
    <2>1. \A i \in 1..Len(t) : Len(s) + i \in 1..(Len(s) + Len(t))
      BY <1>1
    <2> QED BY <1>1, <2>1 DEF ToSet
  <1> QED BY <1>3, <1>4, <1>5

(* The first occurrences of a sequence's elements: the same set of them.   *)
LEMMA DedupeKeeps ==
    ASSUME NEW S, NEW s \in Seq(S)
    PROVE  dedupe(s) \in Seq(S) /\ ToSet(dedupe(s)) = ToSet(s)
  <1> DEFINE D(g, n) == IF n = 0 THEN <<>> ELSE WithTag(g[n-1], s[n])
             P == {n \in Nat : \E g : g = [k \in 0..n |-> D(g, k)]}
             a == CHOOSE g : g = [k \in 0..Len(s) |-> D(g, k)]
  <1>1. 0 \in P
    <2>1. [k \in 0..0 |-> <<>>] = [k \in 0..0 |-> D([j \in 0..0 |-> <<>>], k)]
      OBVIOUS
    <2> QED BY <2>1
  <1>2. ASSUME NEW n \in Nat, n \in P PROVE n + 1 \in P
    <2>1. PICK g : g = [k \in 0..n |-> D(g, k)]
      BY <1>2
    <2>2. PICK h : h = [k \in 0..(n+1) |-> IF k = n + 1 THEN D(g, k) ELSE g[k]]
      OBVIOUS
    <2>3. \A k \in 0..(n+1) : h[k] = D(h, k)
      <3> TAKE k \in 0..(n+1)
      <3>1. CASE k = n + 1
        BY <2>2, <3>1
      <3>2. CASE k \in 0..n
        BY <2>1, <2>2, <3>2
      <3> QED BY <3>1, <3>2
    <2>4. h = [k \in 0..(n+1) |-> D(h, k)]
      BY <2>2, <2>3
    <2> QED BY <2>4
  <1>3. Nat \subseteq P
    <2> HIDE DEF P
    <2> QED BY <1>1, <1>2, SetInduction
  <1>4. a = [k \in 0..Len(s) |-> D(a, k)]
    <2>1. Len(s) \in P
      BY <1>3
    <2> QED BY <2>1, Zenon
  <1>5. dedupe(s) = a[Len(s)]
    BY DEF dedupe
  <1> HIDE DEF a
  <1>6. a[0] = <<>>
    BY <1>4
  <1>7. \A n \in 1..Len(s) : a[n] = WithTag(a[n-1], s[n])
    BY <1>4
  <1> DEFINE Q == {n \in Nat : a[n] \in Seq(S) /\ ToSet(a[n]) = {s[i] : i \in 1..n}}
  <1>8. 0 \in Q
    <2>1. <<>> \in Seq(S) /\ ToSet(<<>>) = {}
      BY DEF ToSet
    <2>2. {s[i] : i \in 1..0} = {}
      OBVIOUS
    <2> QED BY <1>6, <2>1, <2>2
  <1>9. ASSUME NEW n \in Nat, n < Len(s), n \in Q PROVE n + 1 \in Q
    <2>1. a[n] \in Seq(S) /\ ToSet(a[n]) = {s[i] : i \in 1..n}
      BY <1>9
    <2>2. s[n+1] \in S /\ {s[i] : i \in 1..(n+1)} = {s[i] : i \in 1..n} \cup {s[n+1]}
      BY <1>9
    <2>3. a[n+1] = IF s[n+1] \in ToSet(a[n]) THEN a[n] ELSE Append(a[n], s[n+1])
      BY <1>7, <1>9 DEF WithTag
    <2>4. Append(a[n], s[n+1]) \in Seq(S) /\ ToSet(Append(a[n], s[n+1])) = ToSet(a[n]) \cup {s[n+1]}
      BY <2>1, <2>2, ToSetAppend
    <2>5. a[n+1] \in Seq(S) /\ ToSet(a[n+1]) = ToSet(a[n]) \cup {s[n+1]}
      BY <2>1, <2>3, <2>4
    <2> QED BY <2>1, <2>2, <2>5
  <1>10. Len(s) \in Q
    <2> HIDE DEF Q
    <2>1. Len(s) \in Nat
      OBVIOUS
    <2>2. \A n \in Nat : n < Len(s) /\ n \in Q => n + 1 \in Q
      BY <1>9
    <2>3. 0..Len(s) \subseteq Q
      BY <1>8, <2>1, <2>2, LoopInduction, Zenon
    <2> QED BY <2>1, <2>3
  <1>11. ToSet(s) = {s[i] : i \in 1..Len(s)}
    BY DEF ToSet
  <1> QED BY <1>5, <1>10, <1>11

(* The values of the items with certain keys, as a set.                    *)
ItemValues(items, keys, n) ==
    {items[m].value : m \in {i \in 1..n : items[i].value # Empty /\ items[i].key \in keys}}

LEMMA StatusItemsKeep ==
    ASSUME NEW items, IsSequence(items), NEW keys
    PROVE  /\ StatusItems(items, keys) \in Seq(ItemValues(items, keys, Len(items)))
           /\ ToSet(StatusItems(items, keys)) = ItemValues(items, keys, Len(items))
  <1> DEFINE D(g, n) == IF n = 0 THEN <<>> ELSE WithItem(g[n-1], items[n], keys)
             P == {n \in Nat : \E g : g = [k \in 0..n |-> D(g, k)]}
             a == CHOOSE g : g = [k \in 0..Len(items) |-> D(g, k)]
  <1>0. Len(items) \in Nat
    BY DEF IsSequence
  <1>1. 0 \in P
    <2>1. [k \in 0..0 |-> <<>>] = [k \in 0..0 |-> D([j \in 0..0 |-> <<>>], k)]
      OBVIOUS
    <2> QED BY <2>1
  <1>2. ASSUME NEW n \in Nat, n \in P PROVE n + 1 \in P
    <2>1. PICK g : g = [k \in 0..n |-> D(g, k)]
      BY <1>2
    <2>2. PICK h : h = [k \in 0..(n+1) |-> IF k = n + 1 THEN D(g, k) ELSE g[k]]
      OBVIOUS
    <2>3. \A k \in 0..(n+1) : h[k] = D(h, k)
      <3> TAKE k \in 0..(n+1)
      <3>1. CASE k = n + 1
        BY <2>2, <3>1
      <3>2. CASE k \in 0..n
        BY <2>1, <2>2, <3>2
      <3> QED BY <3>1, <3>2
    <2>4. h = [k \in 0..(n+1) |-> D(h, k)]
      BY <2>2, <2>3
    <2> QED BY <2>4
  <1>3. Nat \subseteq P
    <2> HIDE DEF P
    <2> QED BY <1>1, <1>2, SetInduction
  <1>4. a = [k \in 0..Len(items) |-> D(a, k)]
    <2>1. Len(items) \in P
      BY <1>0, <1>3
    <2> QED BY <2>1, Zenon
  <1>5. StatusItems(items, keys) = a[Len(items)]
    BY DEF StatusItems
  <1> HIDE DEF a
  <1>6. a[0] = <<>>
    BY <1>0, <1>4
  <1>7. \A n \in 1..Len(items) : a[n] = WithItem(a[n-1], items[n], keys)
    BY <1>0, <1>4
  <1>S. PICK S : S = ItemValues(items, keys, Len(items))
    OBVIOUS
  <1> DEFINE Q == {n \in Nat : a[n] \in Seq(S) /\ ToSet(a[n]) = ItemValues(items, keys, n)}
  <1>8. 0 \in Q
    <2>1. <<>> \in Seq(S) /\ ToSet(<<>>) = {}
      BY DEF ToSet
    <2>2. ItemValues(items, keys, 0) = {}
      BY DEF ItemValues
    <2> QED BY <1>6, <2>1, <2>2
  <1>9. ASSUME NEW n \in Nat, n < Len(items), n \in Q PROVE n + 1 \in Q
    <2>1. a[n] \in Seq(S) /\ ToSet(a[n]) = ItemValues(items, keys, n)
      BY <1>9
    <2>2. a[n+1] = WithItem(a[n], items[n+1], keys)
      BY <1>0, <1>7, <1>9
    <2>3. CASE items[n+1].value # Empty /\ items[n+1].key \in keys
      <3>1. PICK v : v = items[n+1].value
        OBVIOUS
      <3>2. v \in S
        BY <1>0, <1>9, <1>S, <2>3, <3>1 DEF ItemValues
      <3>3. ItemValues(items, keys, n + 1) = ItemValues(items, keys, n) \cup {v}
        BY <2>3, <3>1 DEF ItemValues
      <3>4. a[n+1] = Append(a[n], v)
        BY <2>2, <2>3, <3>1 DEF WithItem
      <3>5. Append(a[n], v) \in Seq(S) /\ ToSet(Append(a[n], v)) = ToSet(a[n]) \cup {v}
        BY <2>1, <3>2, ToSetAppend
      <3>6. a[n+1] \in Seq(S) /\ ToSet(a[n+1]) = ItemValues(items, keys, n + 1)
        BY <2>1, <3>3, <3>4, <3>5
      <3> QED BY <3>6
    <2>4. CASE ~(items[n+1].value # Empty /\ items[n+1].key \in keys)
      <3>1. ItemValues(items, keys, n + 1) = ItemValues(items, keys, n)
        BY <2>4 DEF ItemValues
      <3>2. a[n+1] = a[n]
        BY <2>2, <2>4 DEF WithItem
      <3> QED BY <2>1, <3>1, <3>2
    <2> QED BY <2>3, <2>4
  <1>10. Len(items) \in Q
    <2> HIDE DEF Q
    <2>1. 0..Len(items) \subseteq Q
      BY <1>0, <1>8, <1>9, LoopInduction
    <2> QED BY <1>0, <2>1
  <1> QED BY <1>5, <1>10, <1>S

(* The states after each of an event's setTags calls.                      *)
LEMMA SetAllTagsUnfolds ==
    ASSUME NEW t, NEW values, Len(values) \in Nat, NEW p
    PROVE  \E a : /\ a[0] = t /\ \A k \in 1..Len(values) : a[k] = setTags(a[k-1], values[k], p)
                  /\ setAllTags(t, values, p) = a[Len(values)]
  <1> DEFINE D(g, k) == IF k = 0 THEN t ELSE setTags(g[k-1], values[k], p)
             P == {n \in Nat : \E g : g = [k \in 0..n |-> D(g, k)]}
             a == CHOOSE g : g = [k \in 0..Len(values) |-> D(g, k)]
  <1>1. 0 \in P
    <2>1. [k \in 0..0 |-> t] = [k \in 0..0 |-> D([j \in 0..0 |-> t], k)]
      OBVIOUS
    <2> QED BY <2>1
  <1>2. ASSUME NEW n \in Nat, n \in P PROVE n + 1 \in P
    <2>1. PICK g : g = [k \in 0..n |-> D(g, k)]
      BY <1>2
    <2>2. PICK h : h = [k \in 0..(n+1) |-> IF k = n + 1 THEN D(g, k) ELSE g[k]]
      OBVIOUS
    <2>3. \A k \in 0..(n+1) : h[k] = D(h, k)
      <3> TAKE k \in 0..(n+1)
      <3>1. CASE k = n + 1
        BY <2>2, <3>1
      <3>2. CASE k \in 0..n
        BY <2>1, <2>2, <3>2
      <3> QED BY <3>1, <3>2
    <2>4. h = [k \in 0..(n+1) |-> D(h, k)]
      BY <2>2, <2>3
    <2> QED BY <2>4
  <1>3. Nat \subseteq P
    <2> HIDE DEF P
    <2> QED BY <1>1, <1>2, SetInduction
  <1>4. a = [k \in 0..Len(values) |-> D(a, k)]
    <2>1. Len(values) \in P
      BY <1>3
    <2> QED BY <2>1, Zenon
  <1>5. setAllTags(t, values, p) = a[Len(values)]
    BY DEF setAllTags
  <1> HIDE DEF a
  <1>6. a[0] = t /\ \A k \in 1..Len(values) : a[k] = setTags(a[k-1], values[k], p)
    BY <1>4
  <1> QED BY <1>5, <1>6

-----------------------------------------------------------------------------
(* The tags.                                                               *)

(* A late repeat is never undone.                                          *)
LEMMA LateRepeatStays ==
    ASSUME NEW c \in Seq({3, 4}), NEW p \in {3, 4}, LateRepeat(c) PROVE LateRepeat(Append(c, p))
  <1>1. PICK d \in Seq({3, 4}) : d = Append(c, p)
    <2>1. Append(c, p) \in Seq({3, 4})
      OBVIOUS
    <2> QED BY <2>1, Zenon
  <1>2. Len(d) = Len(c) + 1 /\ (\A i \in 1..Len(c) : d[i] = c[i]) /\ Len(c) \in Nat
    BY <1>1
  <1>3. PICK k \in 2..(Len(c) - 1) : c[k] = c[k+1] /\ \E j \in 1..(k-1) : c[j] > c[k]
    BY DEF LateRepeat
  <1>4. PICK j \in 1..(k-1) : c[j] > c[k]
    BY <1>3
  <1>5. k \in 1..Len(c) /\ k + 1 \in 1..Len(c) /\ j \in 1..Len(c) /\ k \in 2..(Len(d) - 1)
    BY <1>2
  <1>6. d[k] = d[k+1] /\ d[j] > d[k]
    BY <1>2, <1>3, <1>4, <1>5
  <1>7. LateRepeat(d)
    BY <1>5, <1>6 DEF LateRepeat
  <1> QED BY <1>1, <1>7

(* Tags of the higher source go behind.                                    *)
LEMMA SortedBehind ==
    ASSUME NEW low, NEW high, NEW new, NEW s \in Seq(low \cup high), NEW v \in Seq(new), Sorted(s, low, high)
    PROVE  Sorted(s \o v, low, high \cup new)
  <1>1. PICK w : w = s \o v
    OBVIOUS
  <1>2. /\ DOMAIN s = 1..Len(s) /\ Len(s) \in Nat /\ Len(v) \in Nat /\ DOMAIN w = 1..(Len(s) + Len(v))
        /\ \A i \in 1..Len(s) : w[i] = s[i] /\ s[i] \in low \cup high
        /\ \A i \in DOMAIN w : i > Len(s) => w[i] \in new
    BY <1>1
  <1>3. ASSUME NEW i \in DOMAIN w, NEW j \in DOMAIN w, w[i] \in (high \cup new) \ low, w[j] \in low \ (high \cup new)
        PROVE  j < i
    <2>1. j \in 1..Len(s)
      BY <1>2, <1>3
    <2>2. CASE i > Len(s)
      BY <1>2, <2>1, <2>2
    <2>3. CASE i \in 1..Len(s)
      BY <1>2, <1>3, <2>1, <2>3 DEF Sorted
    <2> QED BY <1>2, <2>2, <2>3
  <1> QED BY <1>1, <1>3 DEF Sorted

(* Tags of the lower source go in front.                                   *)
LEMMA SortedInFront ==
    ASSUME NEW low, NEW high, NEW new, NEW s \in Seq(low \cup high), NEW v \in Seq(new), Sorted(s, low, high)
    PROVE  Sorted(v \o s, low \cup new, high)
  <1>1. PICK w : w = v \o s
    OBVIOUS
  <1>2. /\ DOMAIN s = 1..Len(s) /\ Len(s) \in Nat /\ Len(v) \in Nat /\ DOMAIN w = 1..(Len(v) + Len(s))
        /\ \A i \in DOMAIN w : i <= Len(v) => w[i] \in new
    BY <1>1
  <1>3. \A i \in DOMAIN w : i > Len(v) => i - Len(v) \in DOMAIN s /\ w[i] = s[i - Len(v)] /\ w[i] \in low \cup high
    BY <1>1, <1>2
  <1>4. ASSUME NEW i \in DOMAIN w, NEW j \in DOMAIN w, w[i] \in high \ (low \cup new), w[j] \in (low \cup new) \ high
        PROVE  j < i
    <2>1. i > Len(v)
      BY <1>2, <1>4
    <2>2. CASE j <= Len(v)
      BY <1>2, <2>1, <2>2
    <2>3. CASE j > Len(v)
      <3>1. /\ i - Len(v) \in DOMAIN s /\ j - Len(v) \in DOMAIN s
            /\ s[i - Len(v)] \in high \ low /\ s[j - Len(v)] \in low \ high
        BY <1>3, <1>4, <2>1, <2>3
      <3>2. j - Len(v) < i - Len(v)
        BY <3>1 DEF Sorted
      <3> QED BY <1>2, <3>2
    <2> QED BY <1>2, <2>2, <2>3
  <1> QED BY <1>1, <1>4 DEF Sorted

(* One call of setTags.                                                    *)
LEMMA CallStep ==
    ASSUME NEW c, NEW t, NEW F, TagsAre(c, t, F), NEW p \in {3, 4}, NEW S, NEW value \in Seq(S)
    PROVE  TagsAre(Append(c, p), setTags(t, value, p), [F EXCEPT ![p] = @ \cup ToSet(value)])
  <1>1. PICK v, V : v = dedupe(value) /\ V = ToSet(value) /\ v \in Seq(V) /\ ToSet(v) = V
    <2>1. value \in Seq(ToSet(value))
      BY DEF ToSet
    <2> QED BY <2>1, DedupeKeeps
  <1>2. PICK d \in Seq({3, 4}) : d = Append(c, p)
    <2>1. Append(c, p) \in Seq({3, 4})
      BY DEF TagsAre
    <2> QED BY <2>1, Zenon
  <1>3. /\ c \in Seq({3, 4}) /\ Len(d) = Len(c) + 1 /\ Len(c) \in Nat /\ d[Len(d)] = p /\ d # <<>>
        /\ \A i \in 1..Len(c) : d[i] = c[i]
    <2>1. c \in Seq({3, 4})
      BY DEF TagsAre
    <2>2. Len(c) \in Nat /\ Len(d) = Len(c) + 1 /\ d # <<>>
      BY <1>2, <2>1
    <2>3. d[Len(d)] = p
      BY <1>2, <2>1, <2>2
    <2>4. \A i \in 1..Len(c) : d[i] = c[i]
      BY <1>2, <2>1
    <2> QED BY <2>1, <2>2, <2>3, <2>4
  <1>4. PICK G : G = [F EXCEPT ![p] = @ \cup V]
    OBVIOUS
  <1>5. /\ G = [q \in {3, 4} |-> G[q]] /\ G[p] = F[p] \cup V /\ \A q \in {3, 4} : q # p => G[q] = F[q]
    BY <1>4 DEF TagsAre
  <1>6. PICK low, high : low = F[3] /\ high = F[4]
    OBVIOUS
  <1>7. PICK s : s = t.list
    OBVIOUS
  <1>8. s \in Seq(low \cup high) /\ ToSet(s) = low \cup high
    BY <1>6, <1>7 DEF TagsAre
  <1>9. PICK u : u = setTags(t, value, p)
    OBVIOUS
  <1>10. u.priority = p /\ u.list = IF t.priority <= p THEN s \o v ELSE v \o s
    BY <1>1, <1>7, <1>9 DEF setTags
  <1>11. G[3] \cup G[4] = low \cup high \cup V
    BY <1>5, <1>6
  <1>12. u.list \in Seq(G[3] \cup G[4]) /\ ToSet(u.list) = G[3] \cup G[4]
    <2>1. s \in Seq(low \cup high \cup V) /\ v \in Seq(low \cup high \cup V)
      BY <1>1, <1>8
    <2>2. /\ s \o v \in Seq(low \cup high \cup V) /\ ToSet(s \o v) = ToSet(s) \cup ToSet(v)
          /\ v \o s \in Seq(low \cup high \cup V) /\ ToSet(v \o s) = ToSet(v) \cup ToSet(s)
      BY <2>1, ToSetConcat
    <2> QED BY <1>1, <1>8, <1>10, <1>11, <2>2
  <1>13. (\A i \in DOMAIN d : d[i] # 4) => G[4] = {}
    <2> SUFFICES ASSUME \A i \in DOMAIN d : d[i] # 4 PROVE G[4] = {}
      OBVIOUS
    <2>1. DOMAIN c = 1..Len(c) /\ DOMAIN d = 1..(Len(c) + 1)
      BY <1>3
    <2>2. p = 3
      BY <1>3, <2>1
    <2>3. \A i \in DOMAIN c : c[i] # 4
      BY <1>3, <2>1
    <2> QED BY <1>5, <2>2, <2>3 DEF TagsAre
  <1>14. LateRepeat(d) \/ Sorted(u.list, G[3], G[4])
    <2>1. CASE LateRepeat(c)
      BY <1>2, <1>3, <2>1, LateRepeatStays
    <2>2. CASE Sorted(s, low, high)
      <3>1. t.priority \in {0, 3, 4}
        BY DEF TagsAre
      <3>2. CASE p = 4
        <4>1. u.list = s \o v /\ G[3] = low /\ G[4] = high \cup V
          BY <1>5, <1>6, <1>10, <3>1, <3>2
        <4>2. Sorted(s \o v, low, high \cup V)
          BY <1>1, <1>8, <2>2, SortedBehind
        <4> QED BY <4>1, <4>2
      <3>3. CASE p = 3 /\ t.priority = 4
        <4>1. u.list = v \o s /\ G[3] = low \cup V /\ G[4] = high
          BY <1>5, <1>6, <1>10, <3>3
        <4>2. Sorted(v \o s, low \cup V, high)
          BY <1>1, <1>8, <2>2, SortedInFront
        <4> QED BY <4>1, <4>2
      <3>4. CASE p = 3 /\ t.priority # 4 /\ \A i \in DOMAIN c : c[i] # 4
        <4>1. G[4] = {}
          BY <1>5, <3>4 DEF TagsAre
        <4> QED BY <4>1 DEF Sorted
      <3>5. CASE p = 3 /\ t.priority # 4 /\ \E i \in DOMAIN c : c[i] = 4
        <4>1. PICK i \in 1..Len(c) : c[i] = 4
          BY <1>3, <3>5
        <4>2. c[Len(c)] = 3
          BY <1>3, <3>5, <4>1 DEF TagsAre
        <4>3. i < Len(c)
          BY <1>3, <4>1, <4>2
        <4>4. Len(c) \in 2..(Len(d) - 1) /\ i \in 1..(Len(c) - 1)
          BY <1>3, <4>1, <4>3
        <4>5. d[Len(c)] = 3 /\ d[Len(c) + 1] = 3 /\ d[i] = 4
          <5>1. Len(c) \in 1..Len(c)
            BY <1>3, <4>3
          <5>2. d[Len(c)] = c[Len(c)]
            BY <1>3, <5>1
          <5>3. d[i] = c[i]
            BY <1>3
          <5>4. d[Len(c) + 1] = p
            BY <1>3
          <5> QED BY <3>5, <4>1, <4>2, <5>2, <5>3, <5>4
        <4> QED BY <4>4, <4>5 DEF LateRepeat
      <3> QED BY <3>2, <3>3, <3>4, <3>5
    <2> QED BY <1>6, <1>7, <2>1, <2>2 DEF TagsAre
  <1>15. TagsAre(d, u, G)
    BY <1>3, <1>5, <1>10, <1>12, <1>13, <1>14 DEF TagsAre
  <1> QED BY <1>1, <1>2, <1>4, <1>9, <1>15

(* An event without tags.                                                  *)
LEMMA NoCalls == ASSUME NEW t, NEW p PROVE setAllTags(t, <<>>, p) = t
  <1>1. PICK n \in Seq({}) : n = <<>> /\ Len(n) = 0
    <2>1. <<>> \in Seq({}) /\ Len(<<>>) = 0
      OBVIOUS
    <2> QED BY <2>1, Zenon
  <1>2. PICK a : /\ a[0] = t /\ \A k \in 1..Len(n) : a[k] = setTags(a[k-1], n[k], p)
                 /\ setAllTags(t, n, p) = a[Len(n)]
    BY SetAllTagsUnfolds
  <1> QED BY <1>1, <1>2

(* The calls of one event.                                                 *)
LEMMA CallsStep ==
    ASSUME NEW c, NEW t, NEW F, TagsAre(c, t, F), NEW p \in {3, 4}, NEW T, NEW values \in Seq(T),
           \A k \in DOMAIN values : IsSequence(values[k])
    PROVE  TagsAre(c \o [k \in DOMAIN values |-> p], setAllTags(t, values, p),
                   [F EXCEPT ![p] = @ \cup UNION {ToSet(values[k]) : k \in DOMAIN values}])
  <1>1. PICK a : /\ a[0] = t /\ \A k \in 1..Len(values) : a[k] = setTags(a[k-1], values[k], p)
                 /\ setAllTags(t, values, p) = a[Len(values)]
    BY SetAllTagsUnfolds
  <1> DEFINE Ps(k) == [j \in 1..k |-> p]
             U(k) == UNION {ToSet(values[j]) : j \in 1..k}
             Q == {k \in Nat : TagsAre(c \o Ps(k), a[k], [F EXCEPT ![p] = @ \cup U(k)])}
  <1>2. c \in Seq({3, 4}) /\ F = [q \in {3, 4} |-> F[q]]
    BY DEF TagsAre
  <1>3. 0 \in Q
    <2>1. Ps(0) = <<>> /\ U(0) = {}
      OBVIOUS
    <2>2. c \o <<>> = c
      BY <1>2
    <2>3. [F EXCEPT ![p] = @ \cup {}] = F
      BY <1>2
    <2> QED BY <1>1, <2>1, <2>2, <2>3
  <1>4. ASSUME NEW n \in Nat, n < Len(values), n \in Q PROVE n + 1 \in Q
    <2>1. PICK d, G : d = c \o Ps(n) /\ G = [F EXCEPT ![p] = @ \cup U(n)] /\ TagsAre(d, a[n], G)
      BY <1>4
    <2>2. n + 1 \in DOMAIN values /\ a[n+1] = setTags(a[n], values[n+1], p)
      BY <1>1, <1>4
    <2>3. values[n+1] \in Seq(ToSet(values[n+1]))
      <3>1. IsSequence(values[n+1])
        BY <2>2
      <3> QED BY <3>1 DEF IsSequence, ToSet
    <2>4. TagsAre(Append(d, p), a[n+1], [G EXCEPT ![p] = @ \cup ToSet(values[n+1])])
      <3>1. PICK u, v, S : u = a[n] /\ v = values[n+1] /\ S = ToSet(v) /\ v \in Seq(S)
        BY <2>3
      <3>2. TagsAre(d, u, G)
        BY <2>1, <3>1
      <3>3. TagsAre(Append(d, p), setTags(u, v, p), [G EXCEPT ![p] = @ \cup ToSet(v)])
        BY <3>1, <3>2, CallStep
      <3> QED BY <2>2, <3>1, <3>3
    <2>5. Append(d, p) = c \o Ps(n + 1)
      <3>1. Ps(n) \in Seq({3, 4}) /\ Ps(n + 1) \in Seq({3, 4}) /\ Len(Ps(n)) = n /\ Len(Ps(n + 1)) = n + 1
        OBVIOUS
      <3>2. Ps(n + 1) = Append(Ps(n), p)
        OBVIOUS
      <3>3. PICK x \in Seq({3, 4}) : x = Ps(n)
        BY <3>1
      <3>4. Append(c \o x, p) = c \o Append(x, p)
        BY <1>2
      <3> QED BY <2>1, <3>2, <3>3, <3>4
    <2>6. U(n + 1) = U(n) \cup ToSet(values[n+1])
      <3>1. 1..(n+1) = 1..n \cup {n + 1}
        OBVIOUS
      <3> QED BY <3>1
    <2>7. [G EXCEPT ![p] = @ \cup ToSet(values[n+1])] = [F EXCEPT ![p] = @ \cup U(n + 1)]
      <3>1. PICK x, y, z : x = U(n) /\ y = ToSet(values[n+1]) /\ z = U(n + 1) /\ z = x \cup y
        BY <2>6
      <3>2. [[F EXCEPT ![p] = @ \cup x] EXCEPT ![p] = @ \cup y] = [F EXCEPT ![p] = @ \cup z]
        BY <1>2, <3>1
      <3> QED BY <2>1, <3>1, <3>2
    <2> QED BY <2>4, <2>5, <2>7
  <1>5. Len(values) \in Q
    <2> HIDE DEF Q
    <2>1. Len(values) \in Nat
      OBVIOUS
    <2>2. \A n \in Nat : n < Len(values) /\ n \in Q => n + 1 \in Q
      BY <1>4
    <2>3. 0..Len(values) \subseteq Q
      BY <1>3, <2>1, <2>2, LoopInduction, Zenon
    <2> QED BY <2>1, <2>3
  <1>6. DOMAIN values = 1..Len(values)
    OBVIOUS
  <1> QED BY <1>1, <1>5, <1>6

(* A map's iteration visits every entry.                                   *)
LEMMA MapOrderComplete ==
    ASSUME NEW S, IsFiniteSet(S), NEW o \in SetToSeqs(S)
    PROVE  IsSequence(o) /\ o \in Seq(S) /\ ToSet(o) = S
  <1>1. PICK n : n = Cardinality(S) /\ n \in Nat
    BY FS_CardinalityType
  <1>2. o \in [1..n -> S] /\ \A i, j \in 1..n : i # j => o[i] # o[j]
    BY <1>1 DEF SetToSeqs
  <1>3. Len(o) = n /\ o \in Seq(S)
    BY <1>1, <1>2
  <1>4. S \subseteq ToSet(o)
    <2> SUFFICES ASSUME NEW x \in S, x \notin ToSet(o) PROVE FALSE
      OBVIOUS
    <2>1. IsFiniteSet(S \ {x}) /\ Cardinality(S \ {x}) = n - 1
      BY <1>1, FS_RemoveElement
    <2>2. o \in [1..n -> S \ {x}]
      BY <1>2 DEF ToSet
    <2>3. IsFiniteSet(1..n) /\ Cardinality(1..n) = n
      BY <1>1, FS_Interval
    <2>4. Cardinality(S \ {x}) < Cardinality(1..n)
      BY <1>1, <2>1, <2>3
    <2>5. \E i, j \in 1..n : i # j /\ o[i] = o[j]
      BY <2>1, <2>2, <2>3, <2>4, FS_PigeonHole
    <2> QED BY <1>2, <2>5
  <1>5. ToSet(o) \subseteq S
    BY <1>2 DEF ToSet
  <1>6. IsSequence(o)
    BY <1>1, <1>2, <1>3 DEF IsSequence
  <1> QED BY <1>3, <1>4, <1>5, <1>6

(* The calls of an event bring the tags it carries, at its priority.       *)
LEMMA TagCallsBring ==
    ASSUME NEW e \in Events, NEW o \in MapOrders(e)
    PROVE  /\ \E T : TagCalls(e, o) \in Seq(T)
           /\ \A k \in DOMAIN TagCalls(e, o) : IsSequence(TagCalls(e, o)[k])
           /\ TagsOf(e) = UNION {ToSet(TagCalls(e, o)[k]) : k \in DOMAIN TagCalls(e, o)}
           /\ Priority(e) \notin {3, 4} => TagCalls(e, o) = <<>> /\ TagsOf(e) = {}
  <1>1. CASE e.kind = "WorkspaceStatus"
    <2>1. PICK items : items = e.items
      OBVIOUS
    <2>2. /\ IsSequence(items)
          /\ \A n \in DOMAIN items : items[n].key = "TAGS" /\ items[n].value # Empty => IsSequence(items[n].value)
      BY <1>1, <2>1, TagsAssumption
    <2>3. PICK calls : calls = TagCalls(e, o) /\ calls = StatusItems(items, {"TAGS"})
      BY <1>1, <2>1 DEF TagCalls
    <2>4. DOMAIN items = 1..Len(items)
      BY <2>2 DEF IsSequence
    <2>5. PICK S : S = ItemValues(items, {"TAGS"}, Len(items))
      OBVIOUS
    <2>6. calls \in Seq(S) /\ ToSet(calls) = S
      BY <2>2, <2>3, <2>5, StatusItemsKeep
    <2>7. S = {items[n].value : n \in {m \in DOMAIN items : items[m].key = "TAGS" /\ items[m].value # Empty}}
      BY <2>4, <2>5 DEF ItemValues
    <2>8. \A v \in S : IsSequence(v)
      BY <2>2, <2>7
    <2>9. TagsOf(e) = UNION {ToSet(v) : v \in S}
      <3>1. TagsOf(e) = UNION {ToSet(items[n].value) :
                            n \in {m \in DOMAIN items : items[m].key = "TAGS" /\ items[m].value # Empty}}
        BY <1>1, <2>1 DEF TagsOf
      <3> QED BY <2>7, <3>1
    <2>10. {ToSet(v) : v \in S} = {ToSet(calls[k]) : k \in DOMAIN calls}
      <3>1. S = {calls[k] : k \in DOMAIN calls}
        BY <2>6 DEF ToSet
      <3> QED BY <3>1
    <2>11. \A k \in DOMAIN calls : IsSequence(calls[k])
      BY <2>6, <2>8
    <2>12. Priority(e) = 3
      BY <1>1 DEF Priority, PriorityOf
    <2> QED BY <2>3, <2>6, <2>9, <2>10, <2>11, <2>12
  <1>2. CASE e.kind = "BuildMetadata"
    <2>1. PICK E : E = e.tagEntries
      OBVIOUS
    <2>2. IsSequence(o) /\ o \in Seq(E) /\ ToSet(o) = E
      <3>1. o \in SetToSeqs(E)
        BY <1>2, <2>1 DEF MapOrders
      <3>2. IsFiniteSet(E)
        BY <1>2, <2>1, TagsAssumption
      <3> QED BY <3>1, <3>2, MapOrderComplete
    <2>3. PICK v : v = Lookup(e.metadata, "TAGS")
      OBVIOUS
    <2>4. v # Empty => IsSequence(v) /\ v = e.metadata["TAGS"]
      BY <1>2, <2>3, TagsAssumption DEF Lookup
    <2>5. PICK w : w = IF v # Empty THEN v ELSE <<>>
      OBVIOUS
    <2>6. IsSequence(w) /\ w \in Seq(ToSet(w))
      <3>1. IsSequence(<<>>)
        BY DEF IsSequence
      <3>2. IsSequence(w)
        BY <2>4, <2>5, <3>1
      <3> QED BY <3>2 DEF IsSequence, ToSet
    <2>7. TagsOf(e) = E \cup ToSet(w)
      <3>1. TagsOf(e) = E \cup (IF v # Empty THEN ToSet(v) ELSE {})
        BY <1>2, <2>1, <2>3, <2>4 DEF TagsOf
      <3>2. ToSet(<<>>) = {}
        BY DEF ToSet
      <3> QED BY <2>5, <3>1, <3>2
    <2>8. PICK x : x = w \o o
      OBVIOUS
    <2>9. x \in Seq(E \cup ToSet(w)) /\ ToSet(x) = E \cup ToSet(w)
      <3>1. w \in Seq(E \cup ToSet(w)) /\ o \in Seq(E \cup ToSet(w))
        BY <2>2, <2>6
      <3>2. w \o o \in Seq(E \cup ToSet(w)) /\ ToSet(w \o o) = ToSet(w) \cup ToSet(o)
        BY <3>1, ToSetConcat
      <3> QED BY <2>2, <2>8, <3>2
    <2>10. IsSequence(x)
      BY <2>9 DEF IsSequence
    <2>11. TagCalls(e, o) = IF v # Empty \/ E # {} THEN <<x>> ELSE <<>>
      BY <1>2, <2>1, <2>3, <2>4, <2>5, <2>8 DEF TagCalls
    <2>12. Priority(e) = 4
      BY <1>2 DEF Priority, PriorityOf
    <2>13. CASE v # Empty \/ E # {}
      <3>1. <<x>> \in Seq({x}) /\ DOMAIN <<x>> = {1} /\ <<x>>[1] = x
        OBVIOUS
      <3>2. UNION {ToSet(<<x>>[k]) : k \in DOMAIN <<x>>} = ToSet(x)
        BY <3>1
      <3>3. TagCalls(e, o) = <<x>>
        BY <2>11, <2>13
      <3> QED BY <2>7, <2>9, <2>10, <2>12, <3>1, <3>2, <3>3
    <2>14. CASE ~(v # Empty \/ E # {})
      <3>1. TagCalls(e, o) = <<>>
        BY <2>11, <2>14
      <3>2. TagsOf(e) = {}
        BY <2>5, <2>7, <2>14 DEF ToSet
      <3> QED BY <3>1, <3>2
    <2> QED BY <2>13, <2>14
  <1>3. CASE e.kind \notin {"WorkspaceStatus", "BuildMetadata"}
    <2>1. TagCalls(e, o) = <<>> /\ TagsOf(e) = {}
      BY <1>3 DEF TagCalls, TagsOf
    <2> QED BY <2>1
  <1> QED BY <1>1, <1>2, <1>3

(* Parsing e adds its tags to those of its priority.                       *)
LEMMA TagsFromStep ==
    ASSUME NEW e \in Events, seen \in Seq(Events), seen' = Append(seen, e)
    PROVE  /\ TagsFrom(3)' = TagsFrom(3) \cup (IF Priority(e) = 3 THEN TagsOf(e) ELSE {})
           /\ TagsFrom(4)' = TagsFrom(4) \cup (IF Priority(e) = 4 THEN TagsOf(e) ELSE {})
  <1>1. /\ DOMAIN seen' = DOMAIN seen \cup {Len(seen) + 1} /\ Len(seen) + 1 \notin DOMAIN seen
        /\ seen'[Len(seen) + 1] = e /\ \A i \in DOMAIN seen : seen'[i] = seen[i]
    OBVIOUS
  <1>2. /\ TagsFrom(3)' = UNION {TagsOf(seen'[i]) : i \in {n \in DOMAIN seen' : Priority(seen'[n]) = 3}}
        /\ TagsFrom(4)' = UNION {TagsOf(seen'[i]) : i \in {n \in DOMAIN seen' : Priority(seen'[n]) = 4}}
    BY DEF TagsFrom
  <1>3. /\ TagsFrom(3) = UNION {TagsOf(seen[i]) : i \in {n \in DOMAIN seen : Priority(seen[n]) = 3}}
        /\ TagsFrom(4) = UNION {TagsOf(seen[i]) : i \in {n \in DOMAIN seen : Priority(seen[n]) = 4}}
    BY DEF TagsFrom
  <1>4. TagsFrom(3)' = TagsFrom(3) \cup (IF Priority(e) = 3 THEN TagsOf(e) ELSE {})
    BY <1>1, <1>2, <1>3
  <1>5. TagsFrom(4)' = TagsFrom(4) \cup (IF Priority(e) = 4 THEN TagsOf(e) ELSE {})
    BY <1>1, <1>2, <1>3
  <1> QED BY <1>4, <1>5

(* Parsing an event keeps the tags right.                                  *)
LEMMA TagsStep ==
    ASSUME seen \in Seq(Events), TagsInv, NEW e \in Events, ParseEvent(e)
    PROVE  TagsInv'
  <1>1. seen' = Append(seen, e)
    BY Zenon DEF ParseEvent
  <1>2. PICK o \in MapOrders(e) : LET calls == TagCalls(e, o)
                                  IN  /\ tags' = setAllTags(tags, calls, Priority(e))
                                      /\ called' = called \o [k \in DOMAIN calls |-> Priority(e)]
    BY Zenon DEF ParseEvent
  <1>3. PICK calls : calls = TagCalls(e, o)
    OBVIOUS
  <1>4. tags' = setAllTags(tags, calls, Priority(e)) /\ called' = called \o [k \in DOMAIN calls |-> Priority(e)]
    BY <1>2, <1>3
  <1>5. /\ \E T : calls \in Seq(T)
        /\ \A k \in DOMAIN calls : IsSequence(calls[k])
        /\ TagsOf(e) = UNION {ToSet(calls[k]) : k \in DOMAIN calls}
        /\ Priority(e) \notin {3, 4} => calls = <<>> /\ TagsOf(e) = {}
    BY <1>3, TagCallsBring
  <1>6. PICK F : F = [q \in {3, 4} |-> TagsFrom(q)]
    OBVIOUS
  <1>7. TagsAre(called, tags, F)
    BY <1>6 DEF TagsInv
  <1>8. PICK G : G = [q \in {3, 4} |-> IF q = 3 THEN TagsFrom(3)' ELSE TagsFrom(4)']
    OBVIOUS
  <1>9. /\ TagsFrom(3)' = TagsFrom(3) \cup (IF Priority(e) = 3 THEN TagsOf(e) ELSE {})
        /\ TagsFrom(4)' = TagsFrom(4) \cup (IF Priority(e) = 4 THEN TagsOf(e) ELSE {})
    BY <1>1, TagsFromStep
  <1>10. TagsInv' <=> TagsAre(called', tags', G)
    <2>1. G[3] = TagsFrom(3)' /\ G[4] = TagsFrom(4)' /\ G = [q \in {3, 4} |-> G[q]]
      BY <1>8
    <2>2. PICK H : H = [q \in {3, 4} |-> TagsFrom(q)']
      OBVIOUS
    <2>3. H = G
      BY <2>1, <2>2
    <2>4. TagsInv' <=> TagsAre(called', tags', H)
      BY <2>2 DEF TagsInv, TagsAre
    <2> QED BY <2>3, <2>4
  <1>11. CASE Priority(e) \in {3, 4}
    <2>1. PICK T : calls \in Seq(T)
      BY <1>5
    <2>2. PICK p \in {3, 4} : p = Priority(e)
      BY <1>11
    <2>3. TagsAre(called \o [k \in DOMAIN calls |-> p], setAllTags(tags, calls, p),
                  [F EXCEPT ![p] = @ \cup UNION {ToSet(calls[k]) : k \in DOMAIN calls}])
      BY <1>5, <1>7, <2>1, CallsStep
    <2>4. PICK V : V = TagsOf(e) /\ V = UNION {ToSet(calls[k]) : k \in DOMAIN calls}
      BY <1>5
    <2>5. [F EXCEPT ![p] = @ \cup V] = G
      BY <1>6, <1>8, <1>9, <2>2, <2>4
    <2> QED BY <1>4, <1>10, <2>2, <2>3, <2>4, <2>5
  <1>12. CASE Priority(e) \notin {3, 4}
    <2>1. calls = <<>> /\ TagsOf(e) = {}
      BY <1>5, <1>12
    <2>2. G = F
      BY <1>6, <1>8, <1>9, <1>12
    <2>3. setAllTags(tags, <<>>, Priority(e)) = tags
      BY NoCalls
    <2>4. called \o [k \in DOMAIN calls |-> Priority(e)] = called
      <3>1. [k \in DOMAIN calls |-> Priority(e)] = <<>>
        BY <2>1
      <3>2. called \in Seq({3, 4})
        BY <1>7 DEF TagsAre
      <3> QED BY <3>1, <3>2
    <2> QED BY <1>4, <1>7, <1>10, <2>1, <2>2, <2>3, <2>4
  <1> QED BY <1>11, <1>12

-----------------------------------------------------------------------------
(* Every field and its priority are those of the event that must decide,   *)
(* and the tags are those of the events so far, in their order.            *)
THEOREM Invariance == ParserSpec => []IndInv
  <1>1. ParserInit => IndInv
    <2>1. ASSUME ParserInit PROVE seen \in Seq(Events) /\ \A f \in Fields : FieldInv(f)
      BY <2>1 DEF ParserInit, FieldInv, Unset, Setters
    <2>2. ASSUME ParserInit PROVE TimeInv
      BY <2>2 DEF ParserInit, TimeInv, StartInv, DurationInv, Timed, Of
    <2>3. ASSUME ParserInit PROVE TagsInv
      <3>1. tags = [list |-> <<>>, priority |-> 0] /\ seen = <<>> /\ called = <<>>
        BY <2>3 DEF ParserInit
      <3>2. TagsFrom(3) = {} /\ TagsFrom(4) = {}
        BY <3>1 DEF TagsFrom
      <3>3. PICK F : F = [q \in {3, 4} |-> TagsFrom(q)]
        OBVIOUS
      <3>4. F[3] = {} /\ F[4] = {} /\ F = [q \in {3, 4} |-> F[q]]
        BY <3>2, <3>3
      <3>5. tags.list = <<>> /\ tags.priority = 0 /\ Sorted(<<>>, {}, {})
        BY <3>1 DEF Sorted
      <3>6. TagsAre(called, tags, F)
        BY <3>1, <3>4, <3>5 DEF TagsAre, ToSet
      <3> QED BY <3>3, <3>6 DEF TagsInv
    <2> QED BY <2>1, <2>2, <2>3 DEF IndInv
  <1>2. IndInv /\ [ParserNext]_parserVars => IndInv'
    <2> SUFFICES ASSUME IndInv, [ParserNext]_parserVars PROVE IndInv'
      OBVIOUS
    <2>1. CASE UNCHANGED parserVars
      <3>1. seen' = seen /\ record' = record /\ priority' = priority /\ summary' = summary
        BY <2>1 DEF parserVars
      <3>2. (seen \in Seq(Events) /\ \A f \in Fields : FieldInv(f))'
        BY <3>1 DEF IndInv, FieldInv, Unset, SetBy, Decides, Setters, ValueOf
      <3>3. TimeInv'
        BY <3>1 DEF IndInv, TimeInv, StartInv, DurationInv, LastStart, Timed, Of, TimeOf, timeWithFallback
      <3>4. TagsInv'
        <4>1. tags' = tags /\ called' = called
          BY <2>1 DEF parserVars
        <4> QED BY <3>1, <4>1, Zenon DEF IndInv, TagsInv, TagsFrom
      <3> QED BY <3>2, <3>3, <3>4 DEF IndInv
    <2>2. CASE ParserNext
      <3>1. PICK e \in Events : ParseEvent(e)
        BY <2>2 DEF ParserNext
      <3>2. (seen \in Seq(Events))'
        <4>1. seen \in Seq(Events) /\ seen' = Append(seen, e)
          BY <3>1, Zenon DEF ParseEvent, IndInv
        <4> QED BY <4>1
      <3>3. ASSUME NEW f \in Fields PROVE FieldInv(f)'
        BY <3>1, FieldStep
      <3>4. TimeInv'
        BY <3>1, TimeStep
      <3>5. TagsInv'
        BY <3>1, TagsStep DEF IndInv
      <3> QED BY <3>2, <3>3, <3>4, <3>5 DEF IndInv
    <2> QED BY <2>1, <2>2
  <1> QED BY <1>1, <1>2, PTL DEF ParserSpec

(* Build metadata beats workspace status, that the command line, and that  *)
(* the start, in whatever order they come (setters at parser.go:256-337).  *)
THEOREM PriorityDecides == ParserSpec => []HighestPriorityWins
  <1>1. IndInv => HighestPriorityWins
    BY DEF IndInv, FieldInv, Unset, SetBy, ValueOf, HighestPriorityWins
  <1> QED BY <1>1, Invariance, PTL

(* A build's duration is measured from the latest start before its last    *)
(* finish, and stays 0 when no finish followed a start, whatever the order *)
(* and the repetition of the events (parser.go:70-90).                     *)
THEOREM DurationMeasured == ParserSpec => []DurationFromLatestStart
  <1>1. IndInv => DurationFromLatestStart
    BY DEF IndInv, TimeInv, DurationInv, LastStart, Timed, Of, TimeOf, DurationFromLatestStart
  <1> QED BY <1>1, Invariance, PTL

(* No tag of an event is lost and none is made up, in whatever order the   *)
(* events come, however many values of TAGS they have and in whatever      *)
(* order a map is visited (setTags, parser.go:315-323), so also where the  *)
(* comment at parser.go:253-254 has a setter ignore the lower source.      *)
THEOREM TagsNeverLost == ParserSpec => []TagsKept
  <1>1. ASSUME IndInv PROVE TagsKept
    <2>1. ToSet(tags.list) = TagsFrom(3) \cup TagsFrom(4)
      <3>1. PICK F : F = [q \in {3, 4} |-> TagsFrom(q)]
        OBVIOUS
      <3>2. TagsAre(called, tags, F)
        BY <1>1, <3>1 DEF IndInv, TagsInv
      <3> QED BY <3>1, <3>2 DEF TagsAre
    <2>2. \A i \in DOMAIN seen : seen[i] \in Events
      BY <1>1 DEF IndInv
    <2>3. \A i \in DOMAIN seen : Priority(seen[i]) \in {3, 4} \/ TagsOf(seen[i]) = {}
      <3> TAKE i \in DOMAIN seen
      <3>1. seen[i].kind \in {"WorkspaceStatus", "BuildMetadata"} => Priority(seen[i]) \in {3, 4}
        BY DEF Priority, PriorityOf
      <3>2. seen[i].kind \notin {"WorkspaceStatus", "BuildMetadata"} => TagsOf(seen[i]) = {}
        BY DEF TagsOf
      <3> QED BY <3>1, <3>2
    <2>4. UNION {TagsOf(seen[i]) : i \in DOMAIN seen} = TagsFrom(3) \cup TagsFrom(4)
      BY <2>3 DEF TagsFrom
    <2> QED BY <2>1, <2>4 DEF TagsKept
  <1> QED BY <1>1, Invariance, PTL

(* Tags of workspace status stand before those of build metadata whichever *)
(* of the two comes first, unless two values of workspace status follow    *)
(* one another after one of build metadata (setTags, parser.go:315-323).   *)
THEOREM LowerSourceFirst == ParserSpec => []LowerTagsFirst
  <1>1. ASSUME IndInv PROVE LowerTagsFirst
    <2>1. PICK F : F = [q \in {3, 4} |-> TagsFrom(q)]
      OBVIOUS
    <2>2. TagsAre(called, tags, F)
      BY <1>1, <2>1 DEF IndInv, TagsInv
    <2>3. LateRepeat(called) \/ Sorted(tags.list, TagsFrom(3), TagsFrom(4))
      BY <2>1, <2>2 DEF TagsAre
    <2> QED BY <2>3 DEF LowerTagsFirst, Sorted
  <1> QED BY <1>1, Invariance, PTL
=============================================================================
