-------------------------- MODULE EventViewsProofs --------------------------
(***************************************************************************)
(* What the details page shows, for every sequence of events: the loops of *)
(* targets.go and detail.go by induction on the events they have visited.  *)
(***************************************************************************)
EXTENDS EventViews, EventParserProofs

(* A target has its fields, and the targets so far are a list of labels    *)
(* and a target for each.                                                  *)
IsTarget(u) ==
    u = [Kind |-> u.Kind, IsTest |-> u.IsTest, Success |-> u.Success, TestStatus |-> u.TestStatus,
         FailureMessage |-> u.FailureMessage, LogFiles |-> u.LogFiles, Attempts |-> u.Attempts,
         OutputFiles |-> u.OutputFiles]

AreTargets(t) ==
    /\ t = [order |-> t.order, byLabel |-> t.byLabel]
    /\ t.byLabel = [l \in DOMAIN t.byLabel |-> t.byLabel[l]]
    /\ \A l \in DOMAIN t.byLabel : IsTarget(t.byLabel[l])

(* The target of label l, new when no event was about it yet.              *)
TargetOf(t, l) == IF l \in DOMAIN t.byLabel THEN t.byLabel[l] ELSE NewTarget

NoTargets == [order |-> <<>>, byLabel |-> <<>>]

-----------------------------------------------------------------------------
(* One event.                                                              *)

LEMMA NewIsTarget == IsTarget(NewTarget)
  BY DEF IsTarget, NewTarget

(* A target with the given fields.                                         *)
Made(kind, isTest, success, status, message, logs, attempts, outputs) ==
    [Kind |-> kind, IsTest |-> isTest, Success |-> success, TestStatus |-> status, FailureMessage |-> message,
     LogFiles |-> logs, Attempts |-> attempts, OutputFiles |-> outputs]

(* What each kind of event does to the fields of its target.               *)
LEMMA UpdateFields ==
    ASSUME NEW u, IsTarget(u), NEW e, AboutTarget(e), NEW sets, NEW v, v = Update(u, e, sets)
    PROVE  /\ e.kind \in {"Configured", "Completed", "TestSummary", "TestResult"}
           /\ e.kind = "Configured" =>
                 v = Made(e.targetKind, e.sized, u.Success, u.TestStatus, u.FailureMessage,
                          u.LogFiles, u.Attempts, u.OutputFiles)
           /\ e.kind = "Completed" =>
                 v = Made(u.Kind, u.IsTest, e.success, u.TestStatus,
                          IF e.failure = NoDetail THEN u.FailureMessage ELSE e.failure,
                          u.LogFiles, u.Attempts, u.OutputFiles \o Outputs(sets, e.groups))
           /\ e.kind = "TestSummary" =>
                 v = Made(u.Kind, TRUE, Passed(e.status), e.status, u.FailureMessage,
                          u.LogFiles, u.Attempts, u.OutputFiles)
           /\ e.kind = "TestResult" =>
                 v = Made(u.Kind, TRUE, u.Success, u.TestStatus, u.FailureMessage,
                          u.LogFiles \o WithURI(e.files), Append(u.Attempts, e.attempt), u.OutputFiles)
  <1>1. CASE e.kind = "Configured"
    <2>1. v = [u EXCEPT !.Kind = e.targetKind, !.IsTest = e.sized]
      BY <1>1 DEF Update
    <2> QED BY <1>1, <2>1 DEF IsTarget, Made
  <1>2. CASE e.kind = "Completed"
    <2>1. PICK m, o : /\ m = (IF e.failure = NoDetail THEN u.FailureMessage ELSE e.failure)
                      /\ o = u.OutputFiles \o Outputs(sets, e.groups)
      OBVIOUS
    <2>2. v = [u EXCEPT !.Success = e.success, !.FailureMessage = m, !.OutputFiles = o]
      BY <1>2, <2>1 DEF Update, IsTarget
    <2> QED BY <1>2, <2>1, <2>2 DEF IsTarget, Made
  <1>3. CASE e.kind = "TestSummary"
    <2>1. v = [u EXCEPT !.IsTest = TRUE, !.TestStatus = e.status, !.Success = Passed(e.status)]
      BY <1>3 DEF Update
    <2> QED BY <1>3, <2>1 DEF IsTarget, Made
  <1>4. CASE e.kind = "TestResult"
    <2>1. PICK f, a : f = u.LogFiles \o WithURI(e.files) /\ a = Append(u.Attempts, e.attempt)
      OBVIOUS
    <2>2. v = [u EXCEPT !.IsTest = TRUE, !.LogFiles = f, !.Attempts = a]
      BY <1>4, <2>1 DEF Update, IsTarget
    <2> QED BY <1>4, <2>1, <2>2 DEF IsTarget, Made
  <1> QED BY <1>1, <1>2, <1>3, <1>4 DEF AboutTarget

LEMMA UpdateIsTarget ==
    ASSUME NEW u, IsTarget(u), NEW e, AboutTarget(e), NEW sets
    PROVE  IsTarget(Update(u, e, sets))
  <1>1. ASSUME NEW a, NEW b, NEW c, NEW d, NEW f, NEW g, NEW h, NEW i PROVE IsTarget(Made(a, b, c, d, f, g, h, i))
    BY DEF IsTarget, Made
  <1>2. PICK v : v = Update(u, e, sets)
    OBVIOUS
  <1>3. \E a, b, c, d, f, g, h, i : v = Made(a, b, c, d, f, g, h, i)
    <2>1. CASE e.kind = "Configured"
      BY <1>2, <2>1, UpdateFields
    <2>2. CASE e.kind = "Completed"
      <3>1. v = Made(u.Kind, u.IsTest, e.success, u.TestStatus,
                     IF e.failure = NoDetail THEN u.FailureMessage ELSE e.failure,
                     u.LogFiles, u.Attempts, u.OutputFiles \o Outputs(sets, e.groups))
        BY <1>2, <2>2, UpdateFields
      <3> QED BY <3>1, Zenon
    <2>3. CASE e.kind = "TestSummary"
      BY <1>2, <2>3, UpdateFields
    <2>4. CASE e.kind = "TestResult"
      <3>1. v = Made(u.Kind, TRUE, u.Success, u.TestStatus, u.FailureMessage,
                     u.LogFiles \o WithURI(e.files), Append(u.Attempts, e.attempt), u.OutputFiles)
        BY <1>2, <2>4, UpdateFields
      <3> QED BY <3>1, Zenon
    <2> QED BY <1>2, <2>1, <2>2, <2>3, <2>4, UpdateFields
  <1> QED BY <1>1, <1>2, <1>3

(* A test event makes its target a test; a summary gives the verdict.      *)
LEMMA UpdateVerdict ==
    ASSUME NEW u, IsTarget(u), NEW e, AboutTarget(e), NEW sets, NEW v, v = Update(u, e, sets)
    PROVE  /\ e.kind \in {"TestSummary", "TestResult"} => v.IsTest = TRUE
           /\ e.kind = "TestSummary" => v.Success = (e.status = "PASSED")
  <1>1. CASE e.kind = "TestSummary"
    <2>1. v = Made(u.Kind, TRUE, Passed(e.status), e.status, u.FailureMessage, u.LogFiles, u.Attempts, u.OutputFiles)
      BY <1>1, UpdateFields
    <2> QED BY <1>1, <2>1 DEF Made, Passed
  <1>2. CASE e.kind = "TestResult"
    <2>1. v = Made(u.Kind, TRUE, u.Success, u.TestStatus, u.FailureMessage,
                   u.LogFiles \o WithURI(e.files), Append(u.Attempts, e.attempt), u.OutputFiles)
      BY <1>2, UpdateFields
    <2> QED BY <1>2, <2>1 DEF Made
  <1> QED BY <1>1, <1>2

(* An event about a target adds its label unless it is there, and updates  *)
(* that target only.                                                       *)
LEMMA ReportStep ==
    ASSUME NEW t, AreTargets(t), NEW e, NEW sets, NEW r, r = Report(t, e, sets)
    PROVE  /\ AreTargets(r)
           /\ ~AboutTarget(e) => r = t
           /\ AboutTarget(e) => /\ DOMAIN r.byLabel = DOMAIN t.byLabel \cup {e.label}
                                /\ r.byLabel[e.label] = Update(TargetOf(t, e.label), e, sets)
                                /\ \A l \in DOMAIN t.byLabel : l # e.label => r.byLabel[l] = t.byLabel[l]
                                /\ r.order = IF e.label \in DOMAIN t.byLabel THEN t.order ELSE Append(t.order, e.label)
  <1>1. CASE ~AboutTarget(e)
    BY <1>1 DEF Report
  <1>2. CASE AboutTarget(e)
    <2>1. PICK x, g, G : x = e.label /\ g = get(t, x) /\ G = g.byLabel
      OBVIOUS
    <2>2. /\ g = [order |-> g.order, byLabel |-> G]
          /\ DOMAIN G = DOMAIN t.byLabel \cup {x} /\ G = [l \in DOMAIN G |-> G[l]]
          /\ \A l \in DOMAIN G : G[l] = TargetOf(t, l)
          /\ g.order = IF x \in DOMAIN t.byLabel THEN t.order ELSE Append(t.order, x)
      <3>1. CASE x \in DOMAIN t.byLabel
        BY <2>1, <3>1 DEF get, AreTargets, TargetOf
      <3>2. CASE x \notin DOMAIN t.byLabel
        BY <2>1, <3>2 DEF get, AreTargets, TargetOf
      <3> QED BY <3>1, <3>2
    <2>3. PICK u : u = Update(G[x], e, sets)
      OBVIOUS
    <2>4. r = [g EXCEPT !.byLabel[x] = u]
      BY <1>2, <2>1, <2>2, <2>3 DEF Report
    <2>5. PICK R : R = [G EXCEPT ![x] = u]
      OBVIOUS
    <2>6. r = [order |-> g.order, byLabel |-> R]
      BY <2>2, <2>4, <2>5
    <2>7. /\ r.order = g.order /\ r.byLabel = R /\ DOMAIN R = DOMAIN G /\ R = [l \in DOMAIN R |-> R[l]]
          /\ R[x] = u /\ \A l \in DOMAIN G : l # x => R[l] = G[l]
      <3>1. r.order = g.order /\ r.byLabel = R
        BY <2>6
      <3>2. DOMAIN R = DOMAIN G /\ R[x] = u /\ \A l \in DOMAIN G : l # x => R[l] = G[l]
        BY <2>2, <2>5
      <3>3. R = [l \in DOMAIN R |-> R[l]]
        BY <2>5
      <3> QED BY <3>1, <3>2, <3>3
    <2>8. IsTarget(u)
      <3>1. IsTarget(G[x])
        BY <2>2, NewIsTarget DEF TargetOf, AreTargets
      <3>2. PICK w : w = G[x]
        OBVIOUS
      <3> QED BY <1>2, <2>3, <3>1, <3>2, UpdateIsTarget
    <2>9. \A l \in DOMAIN R : IsTarget(R[l])
      BY <2>2, <2>7, <2>8, NewIsTarget DEF TargetOf, AreTargets
    <2>10. AreTargets(r)
      BY <2>6, <2>7, <2>9 DEF AreTargets
    <2> QED BY <1>2, <2>1, <2>2, <2>3, <2>7, <2>10 DEF TargetOf
  <1> QED BY <1>1, <1>2

-----------------------------------------------------------------------------
(* The loop over the events.                                               *)
LEMMA TargetsUnfold ==
    ASSUME NEW events, NEW sets, NEW N \in Nat
    PROVE  \E a : /\ a[0] = NoTargets /\ \A k \in 1..N : a[k] = Report(a[k-1], events[k], sets)
                  /\ TargetsAfter(events, sets, N) = a[N]
  <1> DEFINE D(g, k) == IF k = 0 THEN NoTargets ELSE Report(g[k-1], events[k], sets)
             P == {n \in Nat : \E g : g = [k \in 0..n |-> D(g, k)]}
             a == CHOOSE g : g = [k \in 0..N |-> D(g, k)]
  <1>1. 0 \in P
    <2>1. [k \in 0..0 |-> NoTargets] = [k \in 0..0 |-> D([j \in 0..0 |-> NoTargets], k)]
      OBVIOUS
    <2> QED BY <2>1
  <1>2. ASSUME NEW n \in Nat, n \in P PROVE n + 1 \in P
    <2>1. PICK g : g = [k \in 0..n |-> D(g, k)]
      BY <1>2
    <2>2. PICK h : h = [k \in 0..(n+1) |-> IF k = n + 1 THEN D(g, k) ELSE g[k]]
      OBVIOUS
    <2>3. \A k \in 0..(n+1) : h[k] = D(h, k)
      <3> TAKE k \in 0..(n+1)
      <3>1. CASE k = n + 1
        BY <2>2, <3>1
      <3>2. CASE k \in 0..n
        BY <2>1, <2>2, <3>2
      <3> QED BY <3>1, <3>2
    <2>4. h = [k \in 0..(n+1) |-> D(h, k)]
      BY <2>2, <2>3
    <2> QED BY <2>4
  <1>3. Nat \subseteq P
    <2> HIDE DEF P
    <2> QED BY <1>1, <1>2, SetInduction
  <1>4. a = [k \in 0..N |-> D(a, k)]
    <2>1. N \in P
      BY <1>3
    <2> QED BY <2>1, Zenon
  <1>5. TargetsAfter(events, sets, N) = a[N]
    BY DEF TargetsAfter, NoTargets
  <1> HIDE DEF a
  <1>6. a[0] = NoTargets /\ \A k \in 1..N : a[k] = Report(a[k-1], events[k], sets)
    BY <1>4
  <1> QED BY <1>5, <1>6

(* The targets after every event are targets.                              *)
LEMMA TargetsAreTargets ==
    ASSUME NEW events, NEW sets, NEW N \in Nat, NEW a, a[0] = NoTargets,
           \A k \in 1..N : a[k] = Report(a[k-1], events[k], sets)
    PROVE  \A k \in 0..N : AreTargets(a[k])
  <1>1. PICK P : P = {k \in Nat : AreTargets(a[k])}
    OBVIOUS
  <1>2. 0 \in P
    BY <1>1 DEF AreTargets, NoTargets
  <1>3. ASSUME NEW n \in Nat, n < N, n \in P PROVE n + 1 \in P
    <2>1. AreTargets(a[n]) /\ a[n+1] = Report(a[n], events[n+1], sets)
      BY <1>1, <1>3
    <2>2. AreTargets(a[n+1])
      BY <2>1, ReportStep
    <2> QED BY <1>1, <2>2
  <1>4. 0..N \subseteq P
    BY <1>2, <1>3, LoopInduction
  <1> QED BY <1>1, <1>4

-----------------------------------------------------------------------------
(* The other loops.                                                        *)

(* ElementsAt.                                                             *)
LEMMA ElementsUnfold ==
    ASSUME NEW s, Len(s) \in Nat, NEW I
    PROVE  \E a : /\ a[0] = <<>> /\ \A k \in 1..Len(s) : a[k] = Keep(a[k-1], s[k], k \in I)
                  /\ ElementsAt(s, I) = a[Len(s)]
  <1> DEFINE D(g, k) == IF k = 0 THEN <<>> ELSE Keep(g[k-1], s[k], k \in I)
             P == {n \in Nat : \E g : g = [k \in 0..n |-> D(g, k)]}
             a == CHOOSE g : g = [k \in 0..Len(s) |-> D(g, k)]
  <1>1. 0 \in P
    <2>1. PICK b : b = <<>>
      OBVIOUS
    <2>2. [k \in 0..0 |-> b] = [k \in 0..0 |-> D([j \in 0..0 |-> b], k)]
      BY <2>1
    <2> QED BY <2>2
  <1>2. ASSUME NEW n \in Nat, n \in P PROVE n + 1 \in P
    <2>1. PICK g : g = [k \in 0..n |-> D(g, k)]
      BY <1>2
    <2>2. PICK h : h = [k \in 0..(n+1) |-> IF k = n + 1 THEN D(g, k) ELSE g[k]]
      OBVIOUS
    <2>3. \A k \in 0..(n+1) : h[k] = D(h, k)
      <3> TAKE k \in 0..(n+1)
      <3>1. CASE k = n + 1
        BY <2>2, <3>1
      <3>2. CASE k \in 0..n
        BY <2>1, <2>2, <3>2
      <3> QED BY <3>1, <3>2
    <2>4. h = [k \in 0..(n+1) |-> D(h, k)]
      BY <2>2, <2>3
    <2>5. n + 1 \in Nat
      OBVIOUS
    <2> QED BY <2>4, <2>5, Zenon
  <1>3. Nat \subseteq P
    <2> HIDE DEF P
    <2> QED BY <1>1, <1>2, SetInduction
  <1>4. a = [k \in 0..Len(s) |-> D(a, k)]
    <2>1. Len(s) \in P
      BY <1>3
    <2> QED BY <2>1, Zenon
  <1>5. ElementsAt(s, I) = a[Len(s)]
    BY DEF ElementsAt
  <1> HIDE DEF a
  <1>6. a[0] = <<>> /\ \A k \in 1..Len(s) : a[k] = Keep(a[k-1], s[k], k \in I)
    BY <1>4
  <1> QED BY <1>5, <1>6

(* parseNamedSets.                                                         *)
LEMMA SetsUnfold ==
    ASSUME NEW events, Len(events) \in Nat
    PROVE  \E a : /\ a[0] = <<>> /\ \A k \in 1..Len(events) : a[k] = WithNamedSet(a[k-1], events[k])
                  /\ parseNamedSets(events) = a[Len(events)]
  <1> DEFINE D(g, k) == IF k = 0 THEN <<>> ELSE WithNamedSet(g[k-1], events[k])
             P == {n \in Nat : \E g : g = [k \in 0..n |-> D(g, k)]}
             a == CHOOSE g : g = [k \in 0..Len(events) |-> D(g, k)]
  <1>1. 0 \in P
    <2>1. PICK b : b = <<>>
      OBVIOUS
    <2>2. [k \in 0..0 |-> b] = [k \in 0..0 |-> D([j \in 0..0 |-> b], k)]
      BY <2>1
    <2> QED BY <2>2
  <1>2. ASSUME NEW n \in Nat, n \in P PROVE n + 1 \in P
    <2>1. PICK g : g = [k \in 0..n |-> D(g, k)]
      BY <1>2
    <2>2. PICK h : h = [k \in 0..(n+1) |-> IF k = n + 1 THEN D(g, k) ELSE g[k]]
      OBVIOUS
    <2>3. \A k \in 0..(n+1) : h[k] = D(h, k)
      <3> TAKE k \in 0..(n+1)
      <3>1. CASE k = n + 1
        BY <2>2, <3>1
      <3>2. CASE k \in 0..n
        BY <2>1, <2>2, <3>2
      <3> QED BY <3>1, <3>2
    <2>4. h = [k \in 0..(n+1) |-> D(h, k)]
      BY <2>2, <2>3
    <2> QED BY <2>4
  <1>3. Nat \subseteq P
    <2> HIDE DEF P
    <2> QED BY <1>1, <1>2, SetInduction
  <1>4. a = [k \in 0..Len(events) |-> D(a, k)]
    <2>1. Len(events) \in P
      BY <1>3
    <2> QED BY <2>1, Zenon
  <1>5. parseNamedSets(events) = a[Len(events)]
    BY DEF parseNamedSets
  <1> HIDE DEF a
  <1>6. a[0] = <<>> /\ \A k \in 1..Len(events) : a[k] = WithNamedSet(a[k-1], events[k])
    BY <1>4
  <1> QED BY <1>5, <1>6

(* resolveFileSets.                                                        *)
FromIds(ids) == [ids |-> ids, seen |-> {}, files |-> <<>>]

LEMMA ResolveUnfold ==
    ASSUME NEW sets, NEW ids, Steps(sets, ids) \in Nat
    PROVE  \E a : /\ a[0] = FromIds(ids) /\ \A k \in 1..Steps(sets, ids) : a[k] = visit(sets, a[k-1])
                  /\ resolveFileSets(sets, ids) = a[Steps(sets, ids)].files
  <1> DEFINE D(g, k) == IF k = 0 THEN FromIds(ids) ELSE visit(sets, g[k-1])
             P == {n \in Nat : \E g : g = [k \in 0..n |-> D(g, k)]}
             a == CHOOSE g : g = [k \in 0..Steps(sets, ids) |-> D(g, k)]
  <1>1. 0 \in P
    <2>1. PICK b : b = FromIds(ids)
      OBVIOUS
    <2>2. [k \in 0..0 |-> b] = [k \in 0..0 |-> D([j \in 0..0 |-> b], k)]
      BY <2>1
    <2> QED BY <2>2
  <1>2. ASSUME NEW n \in Nat, n \in P PROVE n + 1 \in P
    <2>1. PICK g : g = [k \in 0..n |-> D(g, k)]
      BY <1>2
    <2>2. PICK h : h = [k \in 0..(n+1) |-> IF k = n + 1 THEN D(g, k) ELSE g[k]]
      OBVIOUS
    <2>3. \A k \in 0..(n+1) : h[k] = D(h, k)
      <3> TAKE k \in 0..(n+1)
      <3>1. CASE k = n + 1
        BY <2>2, <3>1
      <3>2. CASE k \in 0..n
        BY <2>1, <2>2, <3>2
      <3> QED BY <3>1, <3>2
    <2>4. h = [k \in 0..(n+1) |-> D(h, k)]
      BY <2>2, <2>3
    <2> QED BY <2>4
  <1>3. Nat \subseteq P
    <2> HIDE DEF P
    <2> QED BY <1>1, <1>2, SetInduction
  <1>4. a = [k \in 0..Steps(sets, ids) |-> D(a, k)]
    <2>1. Steps(sets, ids) \in P
      BY <1>3
    <2> QED BY <2>1, Zenon
  <1>5. resolveFileSets(sets, ids) = a[Steps(sets, ids)].files
    BY DEF resolveFileSets, FromIds
  <1> HIDE DEF a
  <1>6. a[0] = FromIds(ids) /\ \A k \in 1..Steps(sets, ids) : a[k] = visit(sets, a[k-1])
    BY <1>4
  <1> QED BY <1>5, <1>6

-----------------------------------------------------------------------------
(* Sequences.                                                              *)

LEMMA SequenceOfItsElements == ASSUME NEW s, IsSequence(s) PROVE s \in Seq(ToSet(s))
  BY DEF IsSequence, ToSet

LEMMA SeqIsSequence == ASSUME NEW S, NEW s \in Seq(S) PROVE IsSequence(s)
  BY DEF IsSequence

(* \o and Append under names that only the facts below are known of.       *)
Join(s, t) == s \o t

Add(s, x) == Append(s, x)

LEMMA JoinType == ASSUME NEW S, NEW s \in Seq(S), NEW t \in Seq(S) PROVE Join(s, t) \in Seq(S)
  BY DEF Join

LEMMA AddType == ASSUME NEW S, NEW s \in Seq(S), NEW x \in S PROVE Add(s, x) \in Seq(S)
  BY DEF Add

LEMMA JoinAll ==
    ASSUME NEW r, NEW s, NEW t, IsSequence(r), IsSequence(s), IsSequence(t)
    PROVE  IsSequence(Join(s, t)) /\ Join(Join(r, s), t) = Join(r, Join(s, t))
  <1>1. PICK S : r \in Seq(S) /\ s \in Seq(S) /\ t \in Seq(S)
    <2>1. PICK A, B, C : r \in Seq(A) /\ s \in Seq(B) /\ t \in Seq(C)
      BY SequenceOfItsElements
    <2>2. r \in Seq(A \cup B \cup C) /\ s \in Seq(A \cup B \cup C) /\ t \in Seq(A \cup B \cup C)
      BY <2>1
    <2> QED BY <2>2
  <1>2. (r \o s) \o t = r \o (s \o t)
    BY <1>1
  <1>3. s \o t \in Seq(S)
    BY <1>1
  <1> QED BY <1>2, <1>3, SeqIsSequence DEF Join

LEMMA JoinAdd ==
    ASSUME NEW r, NEW s, NEW x, IsSequence(r), IsSequence(s)
    PROVE  IsSequence(Add(s, x)) /\ Add(Join(r, s), x) = Join(r, Add(s, x))
  <1>1. PICK S : r \in Seq(S) /\ s \in Seq(S) /\ x \in S
    <2>1. PICK A, B : r \in Seq(A) /\ s \in Seq(B)
      BY SequenceOfItsElements
    <2>2. r \in Seq(A \cup B \cup {x}) /\ s \in Seq(A \cup B \cup {x}) /\ x \in A \cup B \cup {x}
      BY <2>1
    <2> QED BY <2>2
  <1>2. Append(r \o s, x) = r \o Append(s, x) /\ Append(s, x) \in Seq(S)
    BY <1>1
  <1> QED BY <1>2, SeqIsSequence DEF Join, Add

LEMMA JoinEmpty == ASSUME NEW s, IsSequence(s) PROVE Join(s, <<>>) = s /\ Join(<<>>, s) = s
  <1>1. PICK S : s \in Seq(S)
    BY SequenceOfItsElements
  <1>2. s \o <<>> = s /\ <<>> \o s = s
    BY <1>1
  <1> QED BY <1>2 DEF Join

LEMMA EmptySequence == IsSequence(<<>>)
  BY DEF IsSequence

(* The elements at some positions are elements, of any set that all these  *)
(* are in.                                                                 *)
LEMMA ElementsKept ==
    ASSUME NEW S, NEW s \in Seq(S), NEW I, NEW T, \A i \in DOMAIN s : i \in I => s[i] \in T
    PROVE  ElementsAt(s, I) \in Seq(T)
  <1>1. PICK a : /\ a[0] = <<>> /\ \A k \in 1..Len(s) : a[k] = Keep(a[k-1], s[k], k \in I)
                 /\ ElementsAt(s, I) = a[Len(s)]
    BY ElementsUnfold
  <1>2. PICK P : P = {k \in Nat : a[k] \in Seq(T)}
    OBVIOUS
  <1>3. 0 \in P
    <2>1. a[0] \in Seq(T)
      <3>1. a[0] = <<>>
        BY <1>1
      <3> QED BY <3>1
    <2> QED BY <1>2, <2>1
  <1>4. ASSUME NEW n \in Nat, n < Len(s), n \in P PROVE n + 1 \in P
    <2>1. a[n] \in Seq(T) /\ a[n+1] = Keep(a[n], s[n+1], (n + 1) \in I) /\ (n + 1 \in I => s[n+1] \in T)
      BY <1>1, <1>2, <1>4
    <2>2. a[n+1] \in Seq(T)
      BY <2>1 DEF Keep
    <2> QED BY <1>2, <2>2
  <1>5. 0..Len(s) \subseteq P
    BY <1>3, <1>4, LoopInduction
  <1> QED BY <1>1, <1>2, <1>5

LEMMA ElementsType ==
    ASSUME NEW S, NEW s \in Seq(S), NEW I PROVE ElementsAt(s, I) \in Seq(S)
  BY ElementsKept

(* The positions of the kept elements, when a sequence is repeated.        *)
Repeats(s, I, J) == \A i \in 1..Len(s) : (i \in J <=> i \in I) /\ (Len(s) + i \in J <=> i \in I)

LEMMA ElementsTwice ==
    ASSUME NEW S, NEW s \in Seq(S), NEW I, NEW J, Repeats(s, I, J)
    PROVE  ElementsAt(Twice(s), J) = Twice(ElementsAt(s, I))
  <1>1. PICK N \in Nat : N = Len(s)
    OBVIOUS
  <1>2. PICK a : /\ a[0] = <<>> /\ \A k \in 1..N : a[k] = Keep(a[k-1], s[k], k \in I)
                 /\ ElementsAt(s, I) = a[N]
    BY <1>1, ElementsUnfold
  <1>3. PICK ss \in Seq(S) : ss = Twice(s)
    <2>1. s \o s \in Seq(S)
      OBVIOUS
    <2> QED BY <2>1, Zenon DEF Twice
  <1>4. Len(ss) = N + N /\ \A i \in 1..N : ss[i] = s[i] /\ ss[N + i] = s[i]
    BY <1>1, <1>3 DEF Twice
  <1>5. PICK b : /\ b[0] = <<>> /\ \A k \in 1..Len(ss) : b[k] = Keep(b[k-1], ss[k], k \in J)
                 /\ ElementsAt(ss, J) = b[Len(ss)]
    BY ElementsUnfold
  <1>6. \A k \in 0..N : a[k] \in Seq(S) /\ b[k] = a[k]
    <2>1. PICK P : P = {k \in Nat : a[k] \in Seq(S) /\ b[k] = a[k]}
      OBVIOUS
    <2>2. 0 \in P
      <3>1. a[0] = <<>> /\ b[0] = <<>>
        BY <1>2, <1>5
      <3>2. a[0] \in Seq(S) /\ b[0] = a[0]
        BY <3>1
      <3> QED BY <2>1, <3>2
    <2>3. ASSUME NEW n \in Nat, n < N, n \in P PROVE n + 1 \in P
      <3>1. n + 1 \in 1..N /\ n + 1 \in 1..Len(ss) /\ (n + 1) - 1 = n
        BY <1>4, <2>3
      <3>2. a[n+1] = Keep(a[n], s[n+1], (n + 1) \in I) /\ b[n+1] = Keep(b[n], ss[n+1], (n + 1) \in J)
        BY <1>2, <1>5, <3>1
      <3>3. s[n+1] \in S /\ ss[n+1] = s[n+1] /\ ((n + 1) \in J <=> (n + 1) \in I)
        BY <1>1, <1>4, <3>1 DEF Repeats
      <3>4. a[n] \in Seq(S) /\ b[n] = a[n]
        BY <2>1, <2>3
      <3>5. a[n+1] \in Seq(S) /\ b[n+1] = a[n+1]
        BY <3>2, <3>3, <3>4 DEF Keep
      <3> QED BY <2>1, <3>5
    <2>4. 0..N \subseteq P
      BY <2>2, <2>3, LoopInduction
    <2> QED BY <2>1, <2>4
  <1>7. PICK c : c = [k \in 0..N |-> b[N + k]]
    OBVIOUS
  <1>8. c[0] = a[N] /\ c[N] = b[Len(ss)]
    BY <1>4, <1>6, <1>7
  <1>9. ASSUME NEW k \in 1..N PROVE c[k] = IF k \in I THEN Append(c[k-1], s[k]) ELSE c[k-1]
    <2>1. N + k \in 1..Len(ss) /\ (N + k) - 1 = N + (k - 1) /\ k \in 0..N /\ k - 1 \in 0..N
      BY <1>4
    <2>2. b[N + k] = Keep(b[N + (k-1)], ss[N + k], (N + k) \in J)
      BY <1>5, <2>1
    <2>3. ss[N + k] = s[k] /\ ((N + k) \in J <=> k \in I)
      BY <1>1, <1>4 DEF Repeats
    <2>4. c[k] = b[N + k] /\ c[k-1] = b[N + (k-1)]
      BY <1>7, <2>1
    <2> QED BY <2>2, <2>3, <2>4 DEF Keep
  <1>10. PICK A \in Seq(S) : A = a[N]
    BY <1>6
  <1>11. IsSequence(A)
    BY <1>10, SeqIsSequence
  <1>12. c[N] = Join(A, a[N])
    <2>1. PICK P : P = {k \in Nat : c[k] = Join(A, a[k])}
      OBVIOUS
    <2>2. 0 \in P
      <3>1. a[0] = <<>>
        BY <1>2
      <3>2. c[0] = Join(A, a[0])
        BY <1>8, <1>10, <1>11, <3>1, JoinEmpty
      <3> QED BY <2>1, <3>2
    <2>3. ASSUME NEW n \in Nat, n < N, n \in P PROVE n + 1 \in P
      <3>1. n + 1 \in 1..N /\ (n + 1) - 1 = n
        BY <2>3
      <3>2. PICK x, u : x = s[n+1] /\ u = a[n]
        OBVIOUS
      <3>3. IsSequence(u)
        BY <1>6, <2>3, <3>2, SeqIsSequence
      <3>4. a[n+1] = IF n + 1 \in I THEN Add(u, x) ELSE u
        <4>1. a[n+1] = Keep(a[n], s[n+1], (n + 1) \in I)
          BY <1>2, <3>1
        <4> QED BY <3>2, <4>1 DEF Keep, Add
      <3>5. c[n] = Join(A, u)
        BY <2>1, <2>3, <3>2
      <3>6. c[n+1] = IF n + 1 \in I THEN Add(Join(A, u), x) ELSE Join(A, u)
        BY <1>9, <3>1, <3>2, <3>5 DEF Add
      <3>7. Add(Join(A, u), x) = Join(A, Add(u, x))
        BY <1>11, <3>3, JoinAdd
      <3>8. c[n+1] = Join(A, a[n+1])
        BY <3>4, <3>6, <3>7
      <3> QED BY <2>1, <3>8
    <2>4. 0..N \subseteq P
      BY <2>2, <2>3, LoopInduction
    <2> QED BY <2>1, <2>4
  <1>13. ElementsAt(ss, J) = c[N] /\ ElementsAt(s, I) = A
    BY <1>2, <1>5, <1>8, <1>10
  <1> QED BY <1>3, <1>10, <1>12, <1>13 DEF Twice, Join

(* FlattenSeq, one sequence after the other.                               *)
LEMMA FlattenUnfold ==
    ASSUME NEW S, NEW x \in Seq(Seq(S))
    PROVE  \E c : /\ c[0] = <<>> /\ \A k \in 1..Len(x) : c[k] = c[k-1] \o x[k]
                  /\ \A k \in 0..Len(x) : c[k] \in Seq(S)
                  /\ FlattenSeq(x) = c[Len(x)]
  <1>0. Len(x) \in Nat
    OBVIOUS
  <1>1. CASE Len(x) = 0
    <2>1. x = <<>> /\ FlattenSeq(x) = x
      BY <1>1 DEF FlattenSeq
    <2>2. PICK c : c = [k \in 0..0 |-> x]
      OBVIOUS
    <2>3. c[0] = <<>> /\ FlattenSeq(x) = c[0] /\ c[0] \in Seq(S)
      BY <2>1, <2>2
    <2>4. /\ \A k \in 1..Len(x) : c[k] = c[k-1] \o x[k]
          /\ \A k \in 0..Len(x) : k = 0
      BY <1>1
    <2> QED BY <1>1, <2>3, <2>4
  <1>2. CASE Len(x) # 0
    <2> DEFINE D(g, k) == IF k = 1 THEN x[k] ELSE g[k-1] \o x[k]
               P == {n \in Nat : \E g : g = [k \in 1..n |-> D(g, k)]}
               a == CHOOSE g : g = [k \in 1..Len(x) |-> D(g, k)]
    <2>1. 0 \in P
      <3>1. PICK f : f = [k \in 1..0 |-> x[1]]
        OBVIOUS
      <3>2. f = [k \in 1..0 |-> D(f, k)]
        BY <3>1
      <3> QED BY <3>2
    <2>2. ASSUME NEW n \in Nat, n \in P PROVE n + 1 \in P
      <3>1. PICK g : g = [k \in 1..n |-> D(g, k)]
        BY <2>2
      <3>2. PICK h : h = [k \in 1..(n+1) |-> IF k = n + 1 THEN D(g, k) ELSE g[k]]
        OBVIOUS
      <3>3. \A k \in 1..(n+1) : h[k] = D(h, k)
        <4> TAKE k \in 1..(n+1)
        <4>1. CASE k = n + 1
          <5>1. k # 1 => h[k-1] = g[k-1]
            BY <3>2, <4>1
          <5>2. D(h, k) = D(g, k)
            BY <5>1
          <5>3. h[k] = D(g, k)
            BY <3>2, <4>1
          <5> QED BY <5>2, <5>3
        <4>2. CASE k \in 1..n
          <5>1. k # 1 => h[k-1] = g[k-1]
            BY <3>2, <4>2
          <5>2. D(h, k) = D(g, k)
            BY <5>1
          <5>3. h[k] = g[k] /\ g[k] = D(g, k)
            BY <3>1, <3>2, <4>2
          <5> QED BY <5>2, <5>3
        <4> QED BY <4>1, <4>2
      <3>4. h = [k \in 1..(n+1) |-> D(h, k)]
        BY <3>2, <3>3
      <3>5. n + 1 \in Nat
        OBVIOUS
      <3> QED BY <3>4, <3>5, Zenon
    <2>3. Nat \subseteq P
      <3> HIDE DEF P
      <3> QED BY <2>1, <2>2, SetInduction
    <2>4. a = [k \in 1..Len(x) |-> D(a, k)]
      <3>1. Len(x) \in P
        BY <1>0, <2>3, Zenon
      <3> QED BY <3>1, Zenon
    <2>5. FlattenSeq(x) = a[Len(x)]
      BY <1>2 DEF FlattenSeq
    <2> HIDE DEF a
    <2>6. PICK c : c = [k \in 0..Len(x) |-> IF k = 0 THEN <<>> ELSE a[k]]
      OBVIOUS
    <2>7. c[0] = <<>> /\ c[Len(x)] = a[Len(x)]
      BY <1>2, <2>6
    <2>8. ASSUME NEW k \in 1..Len(x) PROVE c[k] = c[k-1] \o x[k]
      <3>1. x[k] \in Seq(S)
        OBVIOUS
      <3>2. CASE k = 1
        <4>1. c[k] = x[k] /\ c[k-1] = <<>>
          BY <2>4, <2>6, <3>2
        <4>2. <<>> \o x[k] = x[k]
          BY <3>1
        <4> QED BY <4>1, <4>2
      <3>3. CASE k # 1
        <4>1. k - 1 \in 1..Len(x) /\ k - 1 # 0
          BY <3>3
        <4>2. c[k] = a[k] /\ c[k-1] = a[k-1]
          BY <2>6, <4>1
        <4>3. a[k] = a[k-1] \o x[k]
          BY <2>4, <3>3
        <4> QED BY <4>2, <4>3
      <3> QED BY <3>2, <3>3
    <2>9. \A k \in 0..Len(x) : c[k] \in Seq(S)
      <3>1. PICK Q : Q = {k \in Nat : c[k] \in Seq(S)}
        OBVIOUS
      <3>2. 0 \in Q
        <4>1. c[0] \in Seq(S)
          BY <2>7
        <4> QED BY <3>1, <4>1
      <3>3. ASSUME NEW n \in Nat, n < Len(x), n \in Q PROVE n + 1 \in Q
        <4>1. PICK u, v : u = c[n] /\ v = x[n+1] /\ u \in Seq(S) /\ v \in Seq(S)
          BY <3>1, <3>3
        <4>2. c[n+1] = u \o v
          <5>1. n + 1 \in 1..Len(x) /\ (n + 1) - 1 = n
            BY <1>0, <3>3
          <5>2. c[n+1] = c[(n+1)-1] \o x[n+1]
            BY <2>8, <5>1
          <5> QED BY <4>1, <5>1, <5>2
        <4>3. c[n+1] \in Seq(S)
          BY <4>1, <4>2
        <4> QED BY <3>1, <4>3
      <3>4. 0..Len(x) \subseteq Q
        BY <1>0, <3>2, <3>3, LoopInduction
      <3> QED BY <3>1, <3>4
    <2> QED BY <2>5, <2>7, <2>8, <2>9
  <1> QED BY <1>1, <1>2

LEMMA FlattenTwice ==
    ASSUME NEW S, NEW x \in Seq(Seq(S))
    PROVE  FlattenSeq(Twice(x)) = Twice(FlattenSeq(x)) /\ FlattenSeq(x) \in Seq(S)
  <1>1. PICK N \in Nat : N = Len(x)
    OBVIOUS
  <1>2. PICK a : /\ a[0] = <<>> /\ \A k \in 1..N : a[k] = a[k-1] \o x[k]
                 /\ \A k \in 0..N : a[k] \in Seq(S)
                 /\ FlattenSeq(x) = a[N]
    BY <1>1, FlattenUnfold
  <1>3. PICK xx \in Seq(Seq(S)) : xx = Twice(x)
    <2>1. x \o x \in Seq(Seq(S))
      OBVIOUS
    <2> QED BY <2>1, Zenon DEF Twice
  <1>4. Len(xx) = N + N /\ \A i \in 1..N : xx[i] = x[i] /\ xx[N + i] = x[i]
    BY <1>1, <1>3 DEF Twice
  <1>5. PICK b : /\ b[0] = <<>> /\ \A k \in 1..Len(xx) : b[k] = b[k-1] \o xx[k]
                 /\ \A k \in 0..Len(xx) : b[k] \in Seq(S)
                 /\ FlattenSeq(xx) = b[Len(xx)]
    BY FlattenUnfold
  <1>6. a[0] = <<>> /\ b[0] = <<>>
    BY <1>2, <1>5
  <1>7. \A k \in 1..N : a[k] = Join(a[k-1], x[k]) /\ IsSequence(x[k])
    <2> TAKE k \in 1..N
    <2>1. a[k] = a[k-1] \o x[k]
      BY <1>2
    <2>2. x[k] \in Seq(S)
      BY <1>1
    <2> QED BY <2>1, <2>2, SeqIsSequence DEF Join
  <1>8. \A k \in 1..Len(xx) : b[k] = Join(b[k-1], xx[k])
    <2> TAKE k \in 1..Len(xx)
    <2>1. b[k] = b[k-1] \o xx[k]
      BY <1>5
    <2> QED BY <2>1 DEF Join
  <1>9. \A k \in 0..N : IsSequence(a[k])
    BY <1>2, SeqIsSequence
  <1>10. \A k \in 0..N : b[k] = a[k]
    <2>1. PICK P : P = {k \in Nat : b[k] = a[k]}
      OBVIOUS
    <2>2. 0 \in P
      BY <1>6, <2>1
    <2>3. ASSUME NEW n \in Nat, n < N, n \in P PROVE n + 1 \in P
      <3>1. n + 1 \in 1..N /\ n + 1 \in 1..Len(xx) /\ (n + 1) - 1 = n
        BY <1>4, <2>3
      <3>2. a[n+1] = Join(a[n], x[n+1]) /\ b[n+1] = Join(b[n], xx[n+1]) /\ xx[n+1] = x[n+1]
        BY <1>4, <1>7, <1>8, <3>1
      <3>3. b[n+1] = a[n+1]
        BY <2>1, <2>3, <3>2
      <3> QED BY <2>1, <3>3
    <2>4. 0..N \subseteq P
      BY <2>2, <2>3, LoopInduction
    <2> QED BY <2>1, <2>4
  <1>11. PICK c : c = [k \in 0..N |-> b[N + k]]
    OBVIOUS
  <1>12. c[0] = a[N] /\ c[N] = b[Len(xx)]
    BY <1>4, <1>10, <1>11
  <1>13. ASSUME NEW k \in 1..N PROVE c[k] = Join(c[k-1], x[k])
    <2>0. Len(xx) = N + N
      BY <1>4
    <2>1. N + k \in 1..Len(xx) /\ (N + k) - 1 = N + (k - 1) /\ k \in 0..N /\ k - 1 \in 0..N
      BY <2>0
    <2>2. b[N + k] = Join(b[N + (k-1)], xx[N + k]) /\ xx[N + k] = x[k]
      BY <1>4, <1>8, <2>1
    <2>3. c[k] = b[N + k] /\ c[k-1] = b[N + (k-1)]
      BY <1>11, <2>1
    <2> QED BY <2>2, <2>3
  <1>14. PICK A : A = a[N] /\ IsSequence(A)
    BY <1>9
  <1>15. c[N] = Join(A, a[N])
    <2>1. PICK P : P = {k \in Nat : c[k] = Join(A, a[k])}
      OBVIOUS
    <2>2. 0 \in P
      <3>1. c[0] = Join(A, a[0])
        BY <1>6, <1>12, <1>14, JoinEmpty
      <3> QED BY <2>1, <3>1
    <2>3. ASSUME NEW n \in Nat, n < N, n \in P PROVE n + 1 \in P
      <3>1. n + 1 \in 1..N /\ n \in 0..N /\ (n + 1) - 1 = n
        BY <2>3
      <3>2. PICK y, u : y = x[n+1] /\ u = a[n] /\ IsSequence(y) /\ IsSequence(u)
        BY <1>7, <1>9, <3>1
      <3>3. a[n+1] = Join(u, y) /\ c[n+1] = Join(c[n], y) /\ c[n] = Join(A, u)
        BY <1>7, <1>13, <2>1, <2>3, <3>1, <3>2
      <3>4. c[n+1] = Join(A, a[n+1])
        BY <1>14, <3>2, <3>3, JoinAll
      <3> QED BY <2>1, <3>4
    <2>4. 0..N \subseteq P
      BY <2>2, <2>3, LoopInduction
    <2> QED BY <2>1, <2>4
  <1>16. a[N] \in Seq(S) /\ FlattenSeq(xx) = c[N] /\ FlattenSeq(x) = A
    BY <1>2, <1>5, <1>12, <1>14
  <1> QED BY <1>3, <1>14, <1>15, <1>16 DEF Twice, Join

IsMap(f) == f = [i \in DOMAIN f |-> f[i]]

(* In the second pass a set is as it was here in the first, in q, or, when *)
(* it was not yet reported here, as at its end, in A.                      *)
Between(v, q, A) ==
    /\ IsMap(v) /\ DOMAIN v = DOMAIN A
    /\ \A i \in DOMAIN A : v[i] = IF i \in DOMAIN q THEN q[i] ELSE A[i]

(* A set reported again changes nothing: the last event of an id counts.   *)
LEMMA SetsTwice ==
    ASSUME NEW S, NEW events \in Seq(S)
    PROVE  parseNamedSets(Twice(events)) = parseNamedSets(events)
  <1>1. PICK N \in Nat : N = Len(events)
    OBVIOUS
  <1>2. PICK a : /\ a[0] = <<>> /\ \A k \in 1..N : a[k] = WithNamedSet(a[k-1], events[k])
                 /\ parseNamedSets(events) = a[N]
    BY <1>1, SetsUnfold
  <1>3. PICK ee \in Seq(S) : ee = Twice(events)
    <2>1. events \o events \in Seq(S)
      OBVIOUS
    <2> QED BY <2>1, Zenon DEF Twice
  <1>4. Len(ee) = N + N /\ \A i \in 1..N : ee[i] = events[i] /\ ee[N + i] = events[i]
    BY <1>1, <1>3 DEF Twice
  <1>5. PICK b : /\ b[0] = <<>> /\ \A k \in 1..Len(ee) : b[k] = WithNamedSet(b[k-1], ee[k])
                 /\ parseNamedSets(ee) = b[Len(ee)]
    BY SetsUnfold
  <1>6. a[0] = <<>> /\ b[0] = <<>>
    BY <1>2, <1>5
  <1>7. \A k \in 0..N : b[k] = a[k] /\ IsMap(a[k])
    <2>1. PICK P : P = {k \in Nat : b[k] = a[k] /\ IsMap(a[k])}
      OBVIOUS
    <2>2. 0 \in P
      BY <1>6, <2>1 DEF IsMap
    <2>3. ASSUME NEW n \in Nat, n < N, n \in P PROVE n + 1 \in P
      <3>1. n + 1 \in 1..N /\ n + 1 \in 1..Len(ee) /\ (n + 1) - 1 = n
        BY <1>4, <2>3
      <3>2. PICK e, p, q : e = events[n+1] /\ p = a[n] /\ q = a[n+1]
        OBVIOUS
      <3>3. q = WithNamedSet(p, e) /\ b[n+1] = WithNamedSet(b[n], e)
        BY <1>2, <1>4, <1>5, <3>1, <3>2
      <3>4. b[n] = p /\ IsMap(p)
        BY <2>1, <2>3, <3>2
      <3>5. IsMap(q)
        BY <3>3, <3>4 DEF WithNamedSet, IsMap
      <3>6. b[n+1] = a[n+1] /\ IsMap(a[n+1]) /\ n + 1 \in Nat
        BY <3>2, <3>3, <3>4, <3>5
      <3> QED BY <2>1, <3>6, Zenon
    <2>4. 0..N \subseteq P
      BY <2>2, <2>3, LoopInduction
    <2> QED BY <2>1, <2>4
  <1>8. PICK c : c = [k \in 0..N |-> b[N + k]]
    OBVIOUS
  <1>9. PICK A : A = a[N] /\ IsMap(A)
    BY <1>7
  <1>10. c[0] = A /\ c[N] = b[Len(ee)]
    BY <1>4, <1>7, <1>8, <1>9
  <1>11. ASSUME NEW k \in 1..N PROVE c[k] = WithNamedSet(c[k-1], events[k])
    <2>1. N + k \in 1..Len(ee) /\ (N + k) - 1 = N + (k - 1) /\ k \in 0..N /\ k - 1 \in 0..N
      BY <1>4
    <2>2. b[N + k] = WithNamedSet(b[N + (k-1)], ee[N + k]) /\ ee[N + k] = events[k]
      BY <1>4, <1>5, <2>1
    <2>3. c[k] = b[N + k] /\ c[k-1] = b[N + (k-1)]
      BY <1>8, <2>1
    <2> QED BY <2>2, <2>3
  <1>12. \A k \in 0..N : Between(c[k], a[k], A)
    <2>1. \A k \in 0..N : DOMAIN a[k] \subseteq DOMAIN A
      <3>1. PICK P : P = {k \in Nat : k <= N => \A m \in 0..k : DOMAIN a[m] \subseteq DOMAIN a[k]}
        OBVIOUS
      <3>2. 0 \in P
        BY <3>1
      <3>3. ASSUME NEW n \in Nat, n < N, n \in P PROVE n + 1 \in P
        <4>1. DOMAIN a[n] \subseteq DOMAIN a[n+1]
          <5>1. PICK e, p, q : e = events[n+1] /\ p = a[n] /\ q = a[n+1]
            OBVIOUS
          <5>2. q = WithNamedSet(p, e)
            BY <1>2, <3>3, <5>1
          <5>3. DOMAIN p \subseteq DOMAIN q
            BY <5>2 DEF WithNamedSet
          <5> QED BY <5>1, <5>3
        <4>2. \A m \in 0..n : DOMAIN a[m] \subseteq DOMAIN a[n]
          BY <3>1, <3>3
        <4>3. \A m \in 0..(n+1) : DOMAIN a[m] \subseteq DOMAIN a[n+1]
          BY <4>1, <4>2
        <4> QED BY <3>1, <4>3
      <3>4. 0..N \subseteq P
        BY <3>2, <3>3, LoopInduction
      <3>5. N \in P
        BY <3>4
      <3> QED BY <1>9, <3>1, <3>5
    <2>2. PICK P : P = {k \in Nat : Between(c[k], a[k], A)}
      OBVIOUS
    <2>3. 0 \in P
      <3>1. DOMAIN a[0] = {}
        BY <1>6
      <3>2. Between(c[0], a[0], A)
        BY <1>9, <1>10, <3>1 DEF Between
      <3> QED BY <2>2, <3>2
    <2>4. ASSUME NEW n \in Nat, n < N, n \in P PROVE n + 1 \in P
      <3>1. n + 1 \in 1..N /\ n + 1 \in 0..N /\ (n + 1) - 1 = n
        BY <2>4
      <3>2. PICK e, p, q, u, v : e = events[n+1] /\ p = a[n] /\ q = a[n+1] /\ u = c[n] /\ v = c[n+1]
        OBVIOUS
      <3>3. q = WithNamedSet(p, e) /\ v = WithNamedSet(u, e) /\ DOMAIN q \subseteq DOMAIN A
        BY <1>2, <1>11, <2>1, <3>1, <3>2
      <3>4. Between(u, p, A)
        BY <2>2, <2>4, <3>2
      <3>5. Between(v, q, A)
        <4>1. CASE ~NamesSet(e)
          BY <3>3, <3>4, <4>1 DEF WithNamedSet
        <4>2. CASE NamesSet(e)
          <5>1. PICK id : id = e.id
            OBVIOUS
          <5>2. /\ q = [k \in DOMAIN p \cup {id} |-> IF k = id THEN e ELSE p[k]]
                /\ v = [k \in DOMAIN u \cup {id} |-> IF k = id THEN e ELSE u[k]]
            BY <3>3, <4>2, <5>1 DEF WithNamedSet
          <5>3. id \in DOMAIN A /\ DOMAIN u = DOMAIN A
            BY <3>3, <3>4, <5>2 DEF Between
          <5>4. DOMAIN v = DOMAIN A /\ IsMap(v)
            BY <5>2, <5>3 DEF IsMap
          <5>5. \A i \in DOMAIN A : v[i] = IF i \in DOMAIN q THEN q[i] ELSE A[i]
            BY <3>4, <5>2, <5>3 DEF Between
          <5> QED BY <5>4, <5>5 DEF Between
        <4> QED BY <4>1, <4>2
      <3> QED BY <2>2, <3>2, <3>5
    <2>5. 0..N \subseteq P
      BY <2>3, <2>4, LoopInduction
    <2> QED BY <2>2, <2>5
  <1>13. c[N] = A
    <2>1. Between(c[N], A, A)
      BY <1>9, <1>12
    <2> QED BY <1>9, <2>1 DEF Between, IsMap
  <1> QED BY <1>2, <1>3, <1>5, <1>9, <1>10, <1>13

-----------------------------------------------------------------------------
(* The files of the named sets.                                            *)

(* The sets reported so far hold sequences, and finitely many references.  *)
GoodSets(sets) ==
    /\ IsFiniteSet(DOMAIN sets) /\ IsFiniteSet(References(sets))
    /\ \A k \in DOMAIN sets : IsSequence(sets[k].files) /\ IsSequence(sets[k].sets)

LEMMA SetsAreGood == ASSUME NEW events \in Seq(Events) PROVE GoodSets(parseNamedSets(events))
  <1>1. PICK N \in Nat : N = Len(events)
    OBVIOUS
  <1>2. PICK a : /\ a[0] = <<>> /\ \A k \in 1..N : a[k] = WithNamedSet(a[k-1], events[k])
                 /\ parseNamedSets(events) = a[N]
    BY <1>1, SetsUnfold
  <1>3. PICK P : P = {k \in Nat : GoodSets(a[k])}
    OBVIOUS
  <1>4. 0 \in P
    <2>1. DOMAIN a[0] = {}
      <3>1. a[0] = <<>>
        BY <1>2
      <3> QED BY <3>1
    <2>2. References(a[0]) = {}
      BY <2>1 DEF References
    <2>3. GoodSets(a[0])
      BY <2>1, <2>2, FS_EmptySet DEF GoodSets
    <2> QED BY <1>3, <2>3
  <1>5. ASSUME NEW n \in Nat, n < N, n \in P PROVE n + 1 \in P
    <2>1. PICK e, p, q : e = events[n+1] /\ p = a[n] /\ q = a[n+1]
      OBVIOUS
    <2>2. q = WithNamedSet(p, e) /\ e \in Events /\ GoodSets(p)
      BY <1>1, <1>2, <1>3, <1>5, <2>1
    <2>3. GoodSets(q)
      <3>1. CASE ~NamesSet(e)
        BY <2>2, <3>1 DEF WithNamedSet
      <3>2. CASE NamesSet(e)
        <4>1. PICK id : id = e.id
          OBVIOUS
        <4>2. q = [k \in DOMAIN p \cup {id} |-> IF k = id THEN e ELSE p[k]]
          BY <2>2, <3>2, <4>1 DEF WithNamedSet
        <4>3. IsSequence(e.files) /\ IsSequence(e.sets)
          BY <2>2, <3>2, ListsAssumption DEF NamesSet
        <4>4. DOMAIN q = DOMAIN p \cup {id} /\ q[id] = e /\ \A k \in DOMAIN p : k # id => q[k] = p[k]
          BY <4>2
        <4>5. IsFiniteSet(DOMAIN q)
          <5>1. IsFiniteSet(DOMAIN p)
            BY <2>2 DEF GoodSets
          <5> QED BY <4>4, <5>1, FS_AddElement
        <4>6. IsFiniteSet({id} \X DOMAIN e.sets)
          <5>1. IsFiniteSet({id})
            BY FS_Singleton
          <5>2. DOMAIN e.sets = 1..Len(e.sets) /\ Len(e.sets) \in Nat
            BY <4>3 DEF IsSequence
          <5>3. IsFiniteSet(DOMAIN e.sets)
            BY <5>2, FS_Interval
          <5> QED BY <5>1, <5>3, FS_Product
        <4>7. References(q) \subseteq References(p) \cup ({id} \X DOMAIN e.sets)
          <5> SUFFICES ASSUME NEW x \in References(q) PROVE x \in References(p) \cup ({id} \X DOMAIN e.sets)
            OBVIOUS
          <5>1. PICK k \in DOMAIN q : x \in {k} \X DOMAIN q[k].sets
            BY DEF References
          <5>2. CASE k = id
            BY <4>4, <5>1, <5>2
          <5>3. CASE k # id
            <6>1. k \in DOMAIN p /\ q[k] = p[k]
              BY <4>4, <5>3
            <6>2. x \in {k} \X DOMAIN p[k].sets
              BY <5>1, <6>1
            <6> QED BY <6>1, <6>2 DEF References
          <5> QED BY <5>2, <5>3
        <4>8. IsFiniteSet(References(q))
          <5>1. IsFiniteSet(References(p) \cup ({id} \X DOMAIN e.sets))
            BY <2>2, <4>6, FS_Union DEF GoodSets
          <5> QED BY <4>7, <5>1, FS_Subset
        <4>9. \A k \in DOMAIN q : IsSequence(q[k].files) /\ IsSequence(q[k].sets)
          BY <2>2, <4>3, <4>4 DEF GoodSets
        <4> QED BY <4>5, <4>8, <4>9 DEF GoodSets
      <3> QED BY <3>1, <3>2
    <2> QED BY <1>3, <2>1, <2>3
  <1>6. 0..N \subseteq P
    BY <1>4, <1>5, LoopInduction
  <1> QED BY <1>2, <1>3, <1>6

LEMMA StepsType ==
    ASSUME NEW sets, GoodSets(sets), NEW ids, IsSequence(ids) PROVE Steps(sets, ids) \in Nat
  BY FS_CardinalityType DEF Steps, GoodSets, IsSequence

LEMMA WithURIType == ASSUME NEW files, IsSequence(files) PROVE IsSequence(WithURI(files))
  <1>1. WithURI(files) \in Seq(ToSet(files))
    BY SequenceOfItsElements, ElementsType DEF WithURI
  <1> QED BY <1>1, SeqIsSequence

(* What a visit keeps: ids to visit, ids seen, the files so far.           *)
IsWalk(w) ==
    /\ w = [ids |-> w.ids, seen |-> w.seen, files |-> w.files]
    /\ IsSequence(w.ids) /\ IsSequence(w.files) /\ IsFiniteSet(w.seen)

LEMMA TailSequence ==
    ASSUME NEW s, IsSequence(s), s # <<>>
    PROVE  /\ IsSequence(Tail(s)) /\ Len(Tail(s)) = Len(s) - 1 /\ Len(s) > 0
           /\ ToSet(s) = {Head(s)} \cup ToSet(Tail(s))
  <1>1. s \in Seq(ToSet(s))
    BY SequenceOfItsElements
  <1>2. Tail(s) \in Seq(ToSet(s)) /\ Len(Tail(s)) = Len(s) - 1 /\ Len(s) > 0
    BY <1>1
  <1>3. ToSet(s) = {Head(s)} \cup ToSet(Tail(s))
    <2>1. DOMAIN s = 1..Len(s) /\ DOMAIN Tail(s) = 1..(Len(s) - 1) /\ Head(s) = s[1]
          /\ \A i \in 1..(Len(s) - 1) : Tail(s)[i] = s[i + 1]
      BY <1>1
    <2>2. ASSUME NEW x \in ToSet(s) PROVE x \in {Head(s)} \cup ToSet(Tail(s))
      <3>1. PICK i \in 1..Len(s) : x = s[i]
        BY <2>1 DEF ToSet
      <3>2. CASE i # 1
        <4>1. i - 1 \in 1..(Len(s) - 1) /\ (i - 1) + 1 = i
          BY <3>2, <1>1
        <4> QED BY <2>1, <3>1, <4>1 DEF ToSet
      <3> QED BY <2>1, <3>1, <3>2
    <2>3. ASSUME NEW x \in {Head(s)} \cup ToSet(Tail(s)) PROVE x \in ToSet(s)
      <3>1. CASE x = Head(s)
        BY <1>2, <2>1, <3>1 DEF ToSet
      <3>2. CASE x \in ToSet(Tail(s))
        <4>1. PICK i \in 1..(Len(s) - 1) : x = s[i+1]
          BY <2>1, <3>2 DEF ToSet
        <4>2. i + 1 \in 1..Len(s)
          BY <1>1
        <4> QED BY <2>1, <4>1, <4>2 DEF ToSet
      <3> QED BY <2>3, <3>1, <3>2
    <2> QED BY <2>2, <2>3
  <1> QED BY <1>2, <1>3, SeqIsSequence

(* One visit, case by case.                                                *)
LEMMA VisitStep ==
    ASSUME NEW sets, GoodSets(sets), NEW w, IsWalk(w), NEW v, v = visit(sets, w)
    PROVE  /\ IsWalk(v)
           /\ w.ids = <<>> => v = w
           /\ w.ids # <<>> =>
                LET key == Head(w.ids)
                    known == key \notin w.seen /\ key \in DOMAIN sets
                IN  /\ v.seen = w.seen \cup {key}
                    /\ known => v.ids = Join(sets[key].sets, Tail(w.ids)) /\ v.files = Join(w.files, WithURI(sets[key].files))
                    /\ ~known => v.ids = Tail(w.ids) /\ v.files = w.files
  <1>1. CASE w.ids = <<>>
    BY <1>1 DEF visit
  <1>2. CASE w.ids # <<>>
    <2>1. PICK key, rest : key = Head(w.ids) /\ rest = Tail(w.ids)
      OBVIOUS
    <2>2. IsSequence(rest)
      BY <1>2, <2>1, TailSequence DEF IsWalk
    <2>3. IsSequence(w.files) /\ IsFiniteSet(w.seen \cup {key})
      BY FS_AddElement DEF IsWalk
    <2>4. CASE key \notin w.seen /\ key \in DOMAIN sets
      <3>1. v = [ids |-> Join(sets[key].sets, rest), seen |-> w.seen \cup {key},
                 files |-> Join(w.files, WithURI(sets[key].files))]
        BY <1>2, <2>1, <2>4 DEF visit, Join
      <3>2. IsSequence(sets[key].sets) /\ IsSequence(sets[key].files)
        BY <2>4 DEF GoodSets
      <3>3. IsSequence(Join(sets[key].sets, rest)) /\ IsSequence(Join(w.files, WithURI(sets[key].files)))
        BY <2>2, <2>3, <3>2, JoinAll, WithURIType
      <3> QED BY <1>2, <2>1, <2>3, <2>4, <3>1, <3>3 DEF IsWalk
    <2>5. CASE ~(key \notin w.seen /\ key \in DOMAIN sets)
      <3>1. v = [ids |-> rest, seen |-> w.seen \cup {key}, files |-> w.files]
        BY <1>2, <2>1, <2>5 DEF visit
      <3> QED BY <1>2, <2>1, <2>2, <2>3, <2>5, <3>1 DEF IsWalk
    <2> QED BY <2>4, <2>5
  <1> QED BY <1>1, <1>2

LEMMA WalksAreWalks ==
    ASSUME NEW sets, GoodSets(sets), NEW ids, IsSequence(ids), NEW N \in Nat,
           NEW a, a[0] = FromIds(ids), \A k \in 1..N : a[k] = visit(sets, a[k-1])
    PROVE  \A k \in 0..N : IsWalk(a[k])
  <1>1. PICK P : P = {k \in Nat : IsWalk(a[k])}
    OBVIOUS
  <1>2. 0 \in P
    <2>1. PICK w : w = a[0]
      OBVIOUS
    <2>2. w = [ids |-> ids, seen |-> {}, files |-> <<>>]
      BY <2>1 DEF FromIds
    <2>3. IsSequence(w.files)
      BY <2>2, EmptySequence
    <2>4. IsFiniteSet(w.seen) /\ IsSequence(w.ids)
      BY <2>2, FS_EmptySet
    <2>5. w = [ids |-> w.ids, seen |-> w.seen, files |-> w.files]
      BY <2>2
    <2> QED BY <1>1, <2>1, <2>3, <2>4, <2>5 DEF IsWalk
  <1>3. ASSUME NEW n \in Nat, n < N, n \in P PROVE n + 1 \in P
    <2>1. PICK w, v : w = a[n] /\ v = a[n+1]
      OBVIOUS
    <2>2. v = visit(sets, w) /\ IsWalk(w)
      BY <1>1, <1>3, <2>1
    <2>3. IsWalk(v)
      BY <2>2, VisitStep
    <2> QED BY <1>1, <2>1, <2>3
  <1>4. 0..N \subseteq P
    BY <1>2, <1>3, LoopInduction
  <1> QED BY <1>1, <1>4

LEMMA ResolveType ==
    ASSUME NEW sets, GoodSets(sets), NEW ids, IsSequence(ids)
    PROVE  IsSequence(resolveFileSets(sets, ids))
  <1>1. PICK N \in Nat : N = Steps(sets, ids)
    BY StepsType
  <1>2. PICK a : /\ a[0] = FromIds(ids) /\ \A k \in 1..N : a[k] = visit(sets, a[k-1])
                 /\ resolveFileSets(sets, ids) = a[N].files
    BY <1>1, ResolveUnfold
  <1>3. \A k \in 0..N : IsWalk(a[k])
    BY <1>2, WalksAreWalks
  <1>4. PICK w : w = a[N] /\ IsWalk(w)
    BY <1>3
  <1>5. IsSequence(w.files)
    BY <1>4 DEF IsWalk
  <1> QED BY <1>2, <1>4, <1>5

(* A sequence of sequences has them over one set.                          *)
LEMMA SequencesOver ==
    ASSUME NEW x, IsSequence(x), \A i \in DOMAIN x : IsSequence(x[i])
    PROVE  \E S : x \in Seq(Seq(S))
  <1>1. PICK S : S = UNION {ToSet(x[i]) : i \in DOMAIN x}
    OBVIOUS
  <1>2. \A i \in DOMAIN x : x[i] \in Seq(S)
    <2> TAKE i \in DOMAIN x
    <2>1. x[i] \in Seq(ToSet(x[i])) /\ ToSet(x[i]) \subseteq S
      BY <1>1, SequenceOfItsElements
    <2> QED BY <2>1
  <1>3. x \in Seq(Seq(S))
    <2>1. Len(x) \in Nat /\ x = [i \in 1..Len(x) |-> x[i]]
      BY DEF IsSequence
    <2>2. PICK T : T = Seq(S)
      OBVIOUS
    <2>3. \A i \in 1..Len(x) : x[i] \in T
      BY <1>2, <2>1, <2>2
    <2>4. x \in Seq(T)
      BY <2>1, <2>3
    <2> QED BY <2>2, <2>4
  <1> QED BY <1>3

LEMMA FlattenType ==
    ASSUME NEW x, IsSequence(x), \A i \in DOMAIN x : IsSequence(x[i]) PROVE IsSequence(FlattenSeq(x))
  <1>1. PICK S : x \in Seq(Seq(S))
    BY SequencesOver
  <1>2. FlattenSeq(x) \in Seq(S)
    BY <1>1, FlattenTwice, Zenon
  <1> QED BY <1>2, SeqIsSequence

LEMMA OutputsType ==
    ASSUME NEW sets, GoodSets(sets), NEW groups, IsSequence(groups), \A g \in DOMAIN groups : IsSequence(groups[g])
    PROVE  IsSequence(Outputs(sets, groups))
  <1>1. PICK x : x = [g \in DOMAIN groups |-> resolveFileSets(sets, groups[g])]
    OBVIOUS
  <1>2. DOMAIN groups = 1..Len(groups) /\ Len(groups) \in Nat
    BY DEF IsSequence
  <1>3. Len(x) = Len(groups) /\ IsSequence(x)
    BY <1>1, <1>2 DEF IsSequence
  <1>4. \A i \in DOMAIN x : IsSequence(x[i])
    BY <1>1, ResolveType
  <1> QED BY <1>1, <1>3, <1>4, FlattenType DEF Outputs

-----------------------------------------------------------------------------
(* The targets when the events are stored twice over.                      *)

(* Field by field, what an event does to its target.                       *)
Updated(u, e, sets, v) ==
    /\ v.LogFiles = IF e.kind = "TestResult" THEN Join(u.LogFiles, WithURI(e.files)) ELSE u.LogFiles
    /\ v.Attempts = IF e.kind = "TestResult" THEN Add(u.Attempts, e.attempt) ELSE u.Attempts
    /\ v.OutputFiles = IF e.kind = "Completed" THEN Join(u.OutputFiles, Outputs(sets, e.groups)) ELSE u.OutputFiles
    /\ v.Kind = IF e.kind = "Configured" THEN e.targetKind ELSE u.Kind
    /\ v.TestStatus = IF e.kind = "TestSummary" THEN e.status ELSE u.TestStatus
    /\ v.FailureMessage = IF e.kind = "Completed" /\ e.failure # NoDetail THEN e.failure ELSE u.FailureMessage
    /\ e.kind = "Configured" => v.IsTest = e.sized /\ v.Success = u.Success
    /\ e.kind = "Completed" => v.IsTest = u.IsTest /\ v.Success = e.success
    /\ e.kind = "TestSummary" => v.IsTest = TRUE /\ v.Success = Passed(e.status)
    /\ e.kind = "TestResult" => v.IsTest = TRUE /\ v.Success = u.Success

LEMMA UpdateEach ==
    ASSUME NEW u, IsTarget(u), NEW e, AboutTarget(e), NEW sets, NEW v, v = Update(u, e, sets)
    PROVE  Updated(u, e, sets, v)
  <1>1. CASE e.kind = "Configured"
    <2>1. v = Made(e.targetKind, e.sized, u.Success, u.TestStatus, u.FailureMessage,
                   u.LogFiles, u.Attempts, u.OutputFiles)
      BY <1>1, UpdateFields
    <2> QED BY <1>1, <2>1 DEF Made, Updated
  <1>2. CASE e.kind = "Completed"
    <2>1. PICK m, o : /\ m = (IF e.failure = NoDetail THEN u.FailureMessage ELSE e.failure)
                      /\ o = Join(u.OutputFiles, Outputs(sets, e.groups))
      OBVIOUS
    <2>2. v = Made(u.Kind, u.IsTest, e.success, u.TestStatus, m, u.LogFiles, u.Attempts, o)
      BY <1>2, <2>1, UpdateFields DEF Join
    <2> QED BY <1>2, <2>1, <2>2 DEF Made, Updated
  <1>3. CASE e.kind = "TestSummary"
    <2>1. v = Made(u.Kind, TRUE, Passed(e.status), e.status, u.FailureMessage,
                   u.LogFiles, u.Attempts, u.OutputFiles)
      BY <1>3, UpdateFields
    <2> QED BY <1>3, <2>1 DEF Made, Updated
  <1>4. CASE e.kind = "TestResult"
    <2>1. PICK f, a : f = Join(u.LogFiles, WithURI(e.files)) /\ a = Add(u.Attempts, e.attempt)
      OBVIOUS
    <2>2. v = Made(u.Kind, TRUE, u.Success, u.TestStatus, u.FailureMessage, f, a, u.OutputFiles)
      BY <1>4, <2>1, UpdateFields DEF Join, Add
    <2> QED BY <1>4, <2>1, <2>2 DEF Made, Updated
  <1> QED BY <1>1, <1>2, <1>3, <1>4, UpdateFields

Lists(u) == IsSequence(u.LogFiles) /\ IsSequence(u.Attempts) /\ IsSequence(u.OutputFiles)

LEMMA NewLists == Lists(NewTarget)
  BY EmptySequence DEF Lists, NewTarget

(* The lists of an event in question.                                      *)
LEMMA EventLists ==
    ASSUME NEW e \in Events, NEW sets, GoodSets(sets)
    PROVE  /\ e.kind = "TestResult" => IsSequence(WithURI(e.files))
           /\ e.kind = "Completed" => IsSequence(Outputs(sets, e.groups))
  <1>1. CASE e.kind = "TestResult"
    BY <1>1, ListsAssumption, WithURIType
  <1>2. CASE e.kind = "Completed"
    <2>1. PICK gs : gs = e.groups
      OBVIOUS
    <2>2. IsSequence(gs) /\ \A g \in DOMAIN gs : IsSequence(gs[g])
      BY <1>2, <2>1, ListsAssumption
    <2>3. IsSequence(Outputs(sets, gs))
      BY <2>2, OutputsType
    <2> QED BY <1>2, <2>1, <2>3
  <1> QED BY <1>1, <1>2

LEMMA UpdateLists ==
    ASSUME NEW u, IsTarget(u), Lists(u), NEW e \in Events, AboutTarget(e), NEW sets, GoodSets(sets)
    PROVE  Lists(Update(u, e, sets))
  <1>1. PICK v : v = Update(u, e, sets)
    OBVIOUS
  <1>2. /\ e.kind = "TestResult" => IsSequence(Join(u.LogFiles, WithURI(e.files))) /\ IsSequence(Add(u.Attempts, e.attempt))
        /\ e.kind = "Completed" => IsSequence(Join(u.OutputFiles, Outputs(sets, e.groups)))
    BY EventLists, JoinAll, JoinAdd DEF Lists
  <1>3. Updated(u, e, sets, v)
    BY <1>1, UpdateEach
  <1>4. Lists(v)
    BY <1>2, <1>3 DEF Lists, Updated
  <1> QED BY <1>1, <1>4

(* The targets so far, for every event: their labels stay, and their lists *)
(* are lists.                                                              *)
LEMMA TargetLists ==
    ASSUME NEW events \in Seq(Events), NEW sets, GoodSets(sets), NEW N \in Nat, N = Len(events), NEW a, a[0] = NoTargets,
           \A k \in 1..N : a[k] = Report(a[k-1], events[k], sets)
    PROVE  /\ \A k \in 0..N : \A l \in DOMAIN a[k].byLabel : Lists(a[k].byLabel[l])
           /\ \A k \in 0..N : DOMAIN a[k].byLabel \subseteq DOMAIN a[N].byLabel
  <1>1. \A k \in 0..N : AreTargets(a[k])
    BY TargetsAreTargets
  <1>2. ASSUME NEW n \in Nat, n < N
        PROVE  /\ DOMAIN a[n].byLabel \subseteq DOMAIN a[n+1].byLabel
               /\ (\A l \in DOMAIN a[n].byLabel : Lists(a[n].byLabel[l])) =>
                     \A l \in DOMAIN a[n+1].byLabel : Lists(a[n+1].byLabel[l])
    <2>1. PICK t, r, e : t = a[n] /\ r = a[n+1] /\ e = events[n+1]
      OBVIOUS
    <2>2. AreTargets(t) /\ r = Report(t, e, sets) /\ e \in Events
      BY <1>1, <1>2, <2>1
    <2>3. /\ ~AboutTarget(e) => r = t
          /\ AboutTarget(e) => /\ DOMAIN r.byLabel = DOMAIN t.byLabel \cup {e.label}
                               /\ r.byLabel[e.label] = Update(TargetOf(t, e.label), e, sets)
                               /\ \A x \in DOMAIN t.byLabel : x # e.label => r.byLabel[x] = t.byLabel[x]
      BY <2>2, ReportStep
    <2>4. CASE ~AboutTarget(e)
      BY <2>1, <2>3, <2>4
    <2>5. CASE AboutTarget(e)
      <3>1. PICK u : u = TargetOf(t, e.label)
        OBVIOUS
      <3>2. ASSUME \A l \in DOMAIN t.byLabel : Lists(t.byLabel[l]) PROVE \A l \in DOMAIN r.byLabel : Lists(r.byLabel[l])
        <4>1. IsTarget(u) /\ Lists(u)
          BY <2>2, <3>1, <3>2, NewIsTarget, NewLists DEF TargetOf, AreTargets
        <4>2. Lists(Update(u, e, sets))
          BY <2>2, <2>5, <4>1, UpdateLists
        <4> QED BY <2>3, <2>5, <3>1, <3>2, <4>2
      <3> QED BY <2>1, <2>3, <2>5, <3>2
    <2> QED BY <2>4, <2>5
  <1>3. PICK P : P = {k \in Nat : \A l \in DOMAIN a[k].byLabel : Lists(a[k].byLabel[l])}
    OBVIOUS
  <1>4. 0 \in P
    BY <1>3 DEF NoTargets
  <1>5. ASSUME NEW n \in Nat, n < N, n \in P PROVE n + 1 \in P
    <2>1. \A l \in DOMAIN a[n].byLabel : Lists(a[n].byLabel[l])
      BY <1>3, <1>5
    <2>2. \A l \in DOMAIN a[n+1].byLabel : Lists(a[n+1].byLabel[l])
      BY <1>2, <1>5, <2>1
    <2> QED BY <1>3, <2>2
  <1>6. 0..N \subseteq P
    BY <1>4, <1>5, LoopInduction
  <1>7. PICK Q : Q = {k \in Nat : \A m \in 0..k : DOMAIN a[m].byLabel \subseteq DOMAIN a[k].byLabel}
    OBVIOUS
  <1>8. 0 \in Q
    BY <1>7
  <1>9. ASSUME NEW n \in Nat, n < N, n \in Q PROVE n + 1 \in Q
    <2>1. DOMAIN a[n].byLabel \subseteq DOMAIN a[n+1].byLabel /\ \A m \in 0..n : DOMAIN a[m].byLabel \subseteq DOMAIN a[n].byLabel
      BY <1>2, <1>7, <1>9
    <2>2. \A m \in 0..(n+1) : m = n + 1 \/ m \in 0..n
      OBVIOUS
    <2>3. \A m \in 0..(n+1) : DOMAIN a[m].byLabel \subseteq DOMAIN a[n+1].byLabel
      BY <2>1, <2>2
    <2> QED BY <1>7, <2>3
  <1>10. 0..N \subseteq Q
    BY <1>8, <1>9, LoopInduction
  <1>11. N \in Q
    BY <1>10
  <1> QED BY <1>3, <1>6, <1>7, <1>11

(* In the second pass v, the target, has each of its fields from the first *)
(* pass: as u, which it was then at this event, or as w, at the end; its   *)
(* lists are those of w and then those of u.                               *)
Echo(v, u, w) ==
    /\ v.Kind = u.Kind \/ v.Kind = w.Kind
    /\ v.IsTest = u.IsTest \/ v.IsTest = w.IsTest
    /\ v.Success = u.Success \/ v.Success = w.Success
    /\ v.TestStatus = u.TestStatus \/ v.TestStatus = w.TestStatus
    /\ v.FailureMessage = u.FailureMessage \/ v.FailureMessage = w.FailureMessage
    /\ v.LogFiles = Join(w.LogFiles, u.LogFiles)
    /\ v.Attempts = Join(w.Attempts, u.Attempts)
    /\ v.OutputFiles = Join(w.OutputFiles, u.OutputFiles)

LEMMA EchoStart == ASSUME NEW w, Lists(w) PROVE Echo(w, NewTarget, w)
  <1>1. PICK u : u = NewTarget
    OBVIOUS
  <1>2. u.LogFiles = <<>> /\ u.Attempts = <<>> /\ u.OutputFiles = <<>>
    BY <1>1 DEF NewTarget
  <1>3. Join(w.LogFiles, <<>>) = w.LogFiles /\ Join(w.Attempts, <<>>) = w.Attempts
        /\ Join(w.OutputFiles, <<>>) = w.OutputFiles
    BY JoinEmpty DEF Lists
  <1>4. Echo(w, u, w)
    BY <1>2, <1>3 DEF Echo
  <1> QED BY <1>1, <1>4

LEMMA UpdateEcho ==
    ASSUME NEW u, NEW v, NEW w, IsTarget(u), IsTarget(v), Lists(u), Lists(w), Echo(v, u, w),
           NEW e \in Events, AboutTarget(e), NEW sets, GoodSets(sets)
    PROVE  Echo(Update(v, e, sets), Update(u, e, sets), w)
  <1>1. PICK x, y : x = Update(u, e, sets) /\ y = Update(v, e, sets)
    OBVIOUS
  <1>2. PICK f, o : f = WithURI(e.files) /\ o = Outputs(sets, e.groups)
    OBVIOUS
  <1>3. (e.kind = "TestResult" => IsSequence(f)) /\ (e.kind = "Completed" => IsSequence(o))
    BY <1>2, EventLists
  <1>4. e.kind \in {"Configured", "Completed", "TestSummary", "TestResult"}
    BY DEF AboutTarget
  <1>5. Updated(u, e, sets, x)
    BY <1>1, UpdateEach
  <1>6. Updated(v, e, sets, y)
    BY <1>1, UpdateEach
  <1>7. y.LogFiles = Join(w.LogFiles, x.LogFiles)
    <2>1. CASE e.kind = "TestResult"
      BY <1>2, <1>3, <1>5, <1>6, <2>1, JoinAll DEF Echo, Lists, Updated
    <2>2. CASE e.kind # "TestResult"
      BY <1>5, <1>6, <2>2 DEF Echo, Updated
    <2> QED BY <2>1, <2>2
  <1>8. y.Attempts = Join(w.Attempts, x.Attempts)
    <2>1. CASE e.kind = "TestResult"
      BY <1>5, <1>6, <2>1, JoinAdd DEF Echo, Lists, Updated
    <2>2. CASE e.kind # "TestResult"
      BY <1>5, <1>6, <2>2 DEF Echo, Updated
    <2> QED BY <2>1, <2>2
  <1>9. y.OutputFiles = Join(w.OutputFiles, x.OutputFiles)
    <2>1. CASE e.kind = "Completed"
      BY <1>2, <1>3, <1>5, <1>6, <2>1, JoinAll DEF Echo, Lists, Updated
    <2>2. CASE e.kind # "Completed"
      BY <1>5, <1>6, <2>2 DEF Echo, Updated
    <2> QED BY <2>1, <2>2
  <1>10. /\ y.Kind = x.Kind \/ y.Kind = w.Kind
         /\ y.TestStatus = x.TestStatus \/ y.TestStatus = w.TestStatus
         /\ y.FailureMessage = x.FailureMessage \/ y.FailureMessage = w.FailureMessage
    BY <1>5, <1>6 DEF Echo, Updated
  <1>11. /\ y.IsTest = x.IsTest \/ y.IsTest = w.IsTest
         /\ y.Success = x.Success \/ y.Success = w.Success
    BY <1>4, <1>5, <1>6 DEF Echo, Updated
  <1>12. Echo(y, x, w)
    BY <1>7, <1>8, <1>9, <1>10, <1>11 DEF Echo
  <1> QED BY <1>1, <1>12

(* The targets in the second pass: those of the end of the first, T, each  *)
(* with what this pass saw so far, t.                                      *)
Second(r, t, T) ==
    /\ AreTargets(r) /\ r.order = T.order /\ DOMAIN r.byLabel = DOMAIN T.byLabel
    /\ \A l \in DOMAIN T.byLabel : Echo(r.byLabel[l], TargetOf(t, l), T.byLabel[l])

LEMMA ReportSecond ==
    ASSUME NEW t, AreTargets(t), NEW T, AreTargets(T), NEW r, Second(r, t, T),
           \A l \in DOMAIN t.byLabel : Lists(t.byLabel[l]), \A l \in DOMAIN T.byLabel : Lists(T.byLabel[l]),
           NEW e \in Events, NEW sets, GoodSets(sets), NEW tt, tt = Report(t, e, sets),
           DOMAIN tt.byLabel \subseteq DOMAIN T.byLabel
    PROVE  Second(Report(r, e, sets), tt, T)
  <1>1. PICK rr : rr = Report(r, e, sets)
    OBVIOUS
  <1>2. /\ ~AboutTarget(e) => tt = t
        /\ AboutTarget(e) => /\ DOMAIN tt.byLabel = DOMAIN t.byLabel \cup {e.label}
                             /\ tt.byLabel[e.label] = Update(TargetOf(t, e.label), e, sets)
                             /\ \A x \in DOMAIN t.byLabel : x # e.label => tt.byLabel[x] = t.byLabel[x]
    BY ReportStep
  <1>3. AreTargets(r)
    BY DEF Second
  <1>4. /\ AreTargets(rr) /\ (~AboutTarget(e) => rr = r)
        /\ AboutTarget(e) => /\ DOMAIN rr.byLabel = DOMAIN r.byLabel \cup {e.label}
                             /\ rr.byLabel[e.label] = Update(TargetOf(r, e.label), e, sets)
                             /\ \A x \in DOMAIN r.byLabel : x # e.label => rr.byLabel[x] = r.byLabel[x]
                             /\ rr.order = IF e.label \in DOMAIN r.byLabel THEN r.order ELSE Append(r.order, e.label)
    BY <1>1, <1>3, ReportStep
  <1>5. CASE ~AboutTarget(e)
    BY <1>1, <1>2, <1>4, <1>5
  <1>6. CASE AboutTarget(e)
    <2>1. PICK m : m = e.label
      OBVIOUS
    <2>2. m \in DOMAIN T.byLabel /\ m \in DOMAIN r.byLabel /\ DOMAIN r.byLabel = DOMAIN T.byLabel
      BY <1>2, <1>6, <2>1 DEF Second
    <2>3. rr.order = T.order /\ DOMAIN rr.byLabel = DOMAIN T.byLabel
      BY <1>4, <1>6, <2>1, <2>2 DEF Second
    <2>4. ASSUME NEW l \in DOMAIN T.byLabel PROVE Echo(rr.byLabel[l], TargetOf(tt, l), T.byLabel[l])
      <3>1. PICK u, v, w : u = TargetOf(t, l) /\ v = r.byLabel[l] /\ w = T.byLabel[l]
        OBVIOUS
      <3>2. Echo(v, u, w) /\ Lists(w) /\ IsTarget(v)
        BY <2>2, <3>1 DEF Second, AreTargets
      <3>3. CASE l # m
        <4>1. rr.byLabel[l] = v /\ TargetOf(tt, l) = u
          BY <1>2, <1>4, <1>6, <2>1, <2>2, <3>1, <3>3 DEF TargetOf
        <4> QED BY <3>1, <3>2, <4>1
      <3>4. CASE l = m
        <4>1. IsTarget(u) /\ Lists(u)
          BY <3>1, NewIsTarget, NewLists DEF TargetOf, AreTargets
        <4>2. rr.byLabel[l] = Update(v, e, sets) /\ TargetOf(tt, l) = Update(u, e, sets)
          BY <1>2, <1>4, <1>6, <2>1, <2>2, <3>1, <3>4 DEF TargetOf
        <4>3. Echo(Update(v, e, sets), Update(u, e, sets), w)
          BY <1>6, <3>2, <4>1, UpdateEcho
        <4> QED BY <3>1, <4>2, <4>3
      <3> QED BY <3>3, <3>4
    <2> QED BY <1>1, <1>4, <2>3, <2>4 DEF Second
  <1> QED BY <1>5, <1>6

(* What the target shows when its lists are doubled.                       *)
Doubled(u) == [u EXCEPT !.LogFiles = Twice(@), !.Attempts = Twice(@), !.OutputFiles = Twice(@)]

LEMMA EchoOfItself == ASSUME NEW v, IsTarget(v), NEW w, IsTarget(w), Echo(v, w, w) PROVE v = Doubled(w)
  <1>1. /\ v.Kind = w.Kind /\ v.IsTest = w.IsTest /\ v.Success = w.Success /\ v.TestStatus = w.TestStatus
        /\ v.FailureMessage = w.FailureMessage
    BY DEF Echo
  <1>2. PICK f, a, o : f = Twice(w.LogFiles) /\ a = Twice(w.Attempts) /\ o = Twice(w.OutputFiles)
    OBVIOUS
  <1>3. v.LogFiles = f /\ v.Attempts = a /\ v.OutputFiles = o
    BY <1>2 DEF Echo, Join, Twice
  <1>4. Doubled(w) = [w EXCEPT !.LogFiles = f, !.Attempts = a, !.OutputFiles = o]
    BY <1>2 DEF Doubled, IsTarget
  <1>5. v = Made(w.Kind, w.IsTest, w.Success, w.TestStatus, w.FailureMessage, f, a, o)
    BY <1>1, <1>3 DEF IsTarget, Made
  <1> QED BY <1>4, <1>5 DEF IsTarget, Made

LEMMA TargetsTwice ==
    ASSUME NEW events \in Seq(Events), NEW once, once = ParseTargets(events), NEW again, again = ParseTargets(Twice(events))
    PROVE  again.order = once.order /\ again.byLabel = [l \in DOMAIN once.byLabel |-> Doubled(once.byLabel[l])]
  <1>1. PICK N \in Nat : N = Len(events)
    OBVIOUS
  <1>2. PICK sets : sets = parseNamedSets(events) /\ GoodSets(sets)
    BY SetsAreGood
  <1>3. PICK a : /\ a[0] = NoTargets /\ \A k \in 1..N : a[k] = Report(a[k-1], events[k], sets)
                 /\ TargetsAfter(events, sets, N) = a[N]
    BY TargetsUnfold
  <1>4. PICK ee : ee = Twice(events) /\ Len(ee) = N + N
    <2>1. Len(Twice(events)) = N + N
      BY <1>1 DEF Twice
    <2> QED BY <2>1
  <1>5. \A i \in 1..N : ee[i] = events[i] /\ ee[N + i] = events[i]
    BY <1>1, <1>4 DEF Twice
  <1>6. PICK M \in Nat : M = N + N
    OBVIOUS
  <1>7. PICK b : /\ b[0] = NoTargets /\ \A k \in 1..M : b[k] = Report(b[k-1], ee[k], sets)
                 /\ TargetsAfter(ee, sets, M) = b[M]
    BY TargetsUnfold
  <1>8. once = a[N] /\ again = b[M]
    <2>1. parseNamedSets(ee) = sets
      BY <1>2, <1>4, SetsTwice
    <2>2. once = TargetsAfter(events, sets, N)
      BY <1>1, <1>2 DEF ParseTargets
    <2>3. again = TargetsAfter(ee, sets, M)
      BY <1>4, <1>6, <2>1 DEF ParseTargets
    <2> QED BY <1>3, <1>7, <2>2, <2>3
  <1>9. \A k \in 0..N : AreTargets(a[k])
    BY <1>3, TargetsAreTargets
  <1>10. /\ \A k \in 0..N : \A l \in DOMAIN a[k].byLabel : Lists(a[k].byLabel[l])
         /\ \A k \in 0..N : DOMAIN a[k].byLabel \subseteq DOMAIN a[N].byLabel
    BY <1>1, <1>2, <1>3, TargetLists
  <1>11. b[N] = a[N]
    <2>1. PICK P : P = {k \in Nat : b[k] = a[k]}
      OBVIOUS
    <2>2. 0 \in P
      BY <1>3, <1>7, <2>1
    <2>3. ASSUME NEW n \in Nat, n < N, n \in P PROVE n + 1 \in P
      <3>1. n + 1 \in 1..N /\ n + 1 \in 1..M /\ (n + 1) - 1 = n
        BY <1>6, <2>3
      <3>2. a[n+1] = Report(a[n], events[n+1], sets) /\ b[n+1] = Report(b[n], ee[n+1], sets) /\ ee[n+1] = events[n+1]
        BY <1>3, <1>5, <1>7, <3>1
      <3>3. b[n+1] = a[n+1]
        BY <2>1, <2>3, <3>2
      <3> QED BY <2>1, <3>3
    <2>4. 0..N \subseteq P
      BY <2>2, <2>3, LoopInduction
    <2> QED BY <2>1, <2>4
  <1>12. PICK c : c = [k \in 0..N |-> b[N + k]]
    OBVIOUS
  <1>13. PICK T : T = a[N] /\ AreTargets(T) /\ \A l \in DOMAIN T.byLabel : Lists(T.byLabel[l])
    <2>1. N \in 0..N
      OBVIOUS
    <2> QED BY <1>9, <1>10, <2>1
  <1>14. c[0] = T /\ c[N] = b[M]
    BY <1>6, <1>11, <1>12, <1>13
  <1>15. ASSUME NEW k \in 1..N PROVE c[k] = Report(c[k-1], events[k], sets)
    <2>1. N + k \in 1..M /\ (N + k) - 1 = N + (k - 1) /\ k \in 0..N /\ k - 1 \in 0..N
      BY <1>6
    <2>2. b[N + k] = Report(b[N + (k-1)], ee[N + k], sets) /\ ee[N + k] = events[k]
      BY <1>5, <1>7, <2>1
    <2>3. c[k] = b[N + k] /\ c[k-1] = b[N + (k-1)]
      BY <1>12, <2>1
    <2> QED BY <2>2, <2>3
  <1>16. Second(c[N], T, T)
    <2>1. PICK P : P = {k \in Nat : Second(c[k], a[k], T)}
      OBVIOUS
    <2>2. 0 \in P
      <3>1. PICK z : z = a[0]
        OBVIOUS
      <3>2. \A l \in DOMAIN T.byLabel : TargetOf(z, l) = NewTarget
        <4>1. DOMAIN z.byLabel = {}
          BY <1>3, <3>1 DEF NoTargets
        <4> QED BY <4>1 DEF TargetOf
      <3>3. \A l \in DOMAIN T.byLabel : Echo(T.byLabel[l], TargetOf(z, l), T.byLabel[l])
        BY <1>13, <3>2, EchoStart
      <3>4. Second(c[0], z, T)
        BY <1>13, <1>14, <3>3 DEF Second
      <3> QED BY <2>1, <3>1, <3>4
    <2>3. ASSUME NEW n \in Nat, n < N, n \in P PROVE n + 1 \in P
      <3>1. n + 1 \in 1..N /\ n + 1 \in 0..N /\ n \in 0..N /\ (n + 1) - 1 = n
        BY <2>3
      <3>2. PICK t, tt, r, rr, e : t = a[n] /\ tt = a[n+1] /\ r = c[n] /\ rr = c[n+1] /\ e = events[n+1]
        OBVIOUS
      <3>3. tt = Report(t, e, sets) /\ rr = Report(r, e, sets) /\ e \in Events
        BY <1>1, <1>3, <1>15, <3>1, <3>2
      <3>4. AreTargets(t) /\ Second(r, t, T)
        BY <1>9, <2>1, <2>3, <3>1, <3>2
      <3>5. (\A l \in DOMAIN t.byLabel : Lists(t.byLabel[l])) /\ DOMAIN tt.byLabel \subseteq DOMAIN T.byLabel
        BY <1>10, <1>13, <3>1, <3>2
      <3>6. Second(rr, tt, T)
        BY <1>2, <1>13, <3>3, <3>4, <3>5, ReportSecond
      <3> QED BY <2>1, <3>2, <3>6
    <2>4. 0..N \subseteq P
      BY <2>2, <2>3, LoopInduction
    <2>5. N \in P
      BY <2>4
    <2> QED BY <1>13, <2>1, <2>5
  <1>17. Second(again, once, once)
    BY <1>8, <1>13, <1>14, <1>16
  <1>18. PICK B, A : B = again.byLabel /\ A = once.byLabel
    OBVIOUS
  <1>19. \A l \in DOMAIN A : B[l] = Doubled(A[l])
    <2> TAKE l \in DOMAIN A
    <2>1. PICK v, w : v = B[l] /\ w = A[l]
      OBVIOUS
    <2>2. IsTarget(v) /\ IsTarget(w) /\ Echo(v, w, w)
      BY <1>8, <1>13, <1>17, <1>18, <2>1 DEF Second, AreTargets, TargetOf
    <2> QED BY <2>1, <2>2, EchoOfItself
  <1>20. again.order = once.order /\ DOMAIN B = DOMAIN A /\ B = [l \in DOMAIN B |-> B[l]]
    BY <1>17, <1>18 DEF Second, AreTargets
  <1> QED BY <1>18, <1>19, <1>20

-----------------------------------------------------------------------------
(* The rest of the page when the events are stored twice over.             *)

(* A sequence repeated: its length, its positions, its ends.               *)
Repeated(ss, s) ==
    /\ ss = <<>> <=> s = <<>>
    /\ s # <<>> => Head(ss) = Head(s) /\ Last(ss) = Last(s)
    /\ Len(ss) = 2 * Len(s)
    /\ DOMAIN ss = 1..(Len(s) + Len(s)) /\ DOMAIN s = 1..Len(s) /\ Len(s) \in Nat
    /\ \A i \in 1..Len(s) : ss[i] = s[i] /\ ss[Len(s) + i] = s[i]

LEMMA TwiceRepeats == ASSUME NEW S, NEW s \in Seq(S) PROVE Repeated(Twice(s), s) /\ Twice(s) \in Seq(S)
  <1>1. PICK ss : ss = Twice(s)
    OBVIOUS
  <1>2. ss = s \o s /\ ss \in Seq(S)
    BY <1>1 DEF Twice
  <1>3. /\ DOMAIN ss = 1..(Len(s) + Len(s)) /\ DOMAIN s = 1..Len(s) /\ Len(s) \in Nat /\ Len(ss) = Len(s) + Len(s)
        /\ \A i \in 1..Len(s) : ss[i] = s[i] /\ ss[Len(s) + i] = s[i]
    BY <1>2
  <1>4. ss = <<>> <=> s = <<>>
    BY <1>2
  <1>5. ASSUME s # <<>> PROVE Head(ss) = Head(s) /\ Last(ss) = Last(s)
    <2>1. Len(s) > 0 /\ Len(s) \in 1..Len(s) /\ 1 \in 1..Len(s)
      BY <1>5
    <2>2. Head(ss) = ss[1] /\ Head(s) = s[1]
      BY <1>2, <1>4, <1>5
    <2> QED BY <1>3, <2>1, <2>2 DEF Last
  <1>6. Repeated(ss, s)
    BY <1>3, <1>4, <1>5 DEF Repeated
  <1> QED BY <1>1, <1>2, <1>6

(* I are the positions of the elements of s that are in E.                 *)
Selects(s, E, I) == \A i \in DOMAIN s : i \in I <=> s[i] \in E

LEMMA PositionsTwice ==
    ASSUME NEW S, NEW s \in Seq(S), NEW E, NEW I, NEW J, Selects(s, E, I), Selects(Twice(s), E, J)
    PROVE  ElementsAt(Twice(s), J) = Twice(ElementsAt(s, I)) /\ ElementsAt(s, I) \in Seq(S)
  <1>1. PICK ss : ss = Twice(s)
    OBVIOUS
  <1>2. /\ DOMAIN ss = 1..(Len(s) + Len(s)) /\ DOMAIN s = 1..Len(s) /\ Len(s) \in Nat
        /\ \A i \in 1..Len(s) : ss[i] = s[i] /\ ss[Len(s) + i] = s[i]
    BY <1>1, TwiceRepeats DEF Repeated
  <1>3. Repeats(s, I, J)
    <2> SUFFICES ASSUME NEW i \in 1..Len(s) PROVE (i \in J <=> i \in I) /\ (Len(s) + i \in J <=> i \in I)
      BY DEF Repeats
    <2>1. i \in DOMAIN ss /\ Len(s) + i \in DOMAIN ss /\ i \in DOMAIN s
      BY <1>2
    <2>2. ss[i] = s[i] /\ ss[Len(s) + i] = s[i]
      BY <1>2
    <2>3. (i \in I <=> s[i] \in E) /\ (i \in J <=> ss[i] \in E) /\ (Len(s) + i \in J <=> ss[Len(s) + i] \in E)
      BY <1>1, <2>1 DEF Selects
    <2> QED BY <2>2, <2>3
  <1> QED BY <1>3, ElementsTwice, ElementsType

(* A sequence mapped, and repeated.                                        *)
Mapped(f, s) == [i \in DOMAIN s |-> f[s[i]]]

LEMMA MapTwice ==
    ASSUME NEW S, NEW s \in Seq(S), NEW f PROVE Mapped(f, Twice(s)) = Twice(Mapped(f, s))
  <1>0. PICK ss, m : ss = Twice(s) /\ m = Mapped(f, s)
    OBVIOUS
  <1>1. PICK n \in Nat : n = Len(s)
    OBVIOUS
  <1>2. /\ DOMAIN ss = 1..(n + n) /\ DOMAIN s = 1..n
        /\ \A i \in 1..n : ss[i] = s[i] /\ ss[n + i] = s[i]
    BY <1>0, <1>1, TwiceRepeats DEF Repeated
  <1>3. PICK T : T = {f[s[i]] : i \in DOMAIN s}
    OBVIOUS
  <1>4. m \in Seq(T) /\ Len(m) = n
    BY <1>0, <1>2, <1>3 DEF Mapped
  <1>5. PICK mm : mm = Twice(m)
    OBVIOUS
  <1>6. Repeated(mm, m) /\ mm \in Seq(T)
    <2>1. Repeated(Twice(m), m) /\ Twice(m) \in Seq(T)
      BY <1>4, TwiceRepeats, Zenon
    <2> QED BY <1>5, <2>1, Zenon
  <1>7. /\ DOMAIN mm = 1..(n + n)
        /\ \A i \in 1..n : mm[i] = m[i] /\ mm[n + i] = m[i]
    BY <1>4, <1>6 DEF Repeated
  <1>8. mm = [i \in DOMAIN mm |-> mm[i]]
    BY <1>6
  <1>9. ASSUME NEW i \in 1..(n + n) PROVE mm[i] = f[ss[i]]
    <2>1. CASE i \in 1..n
      BY <1>0, <1>2, <1>7, <2>1 DEF Mapped
    <2>2. CASE i \notin 1..n
      <3>1. PICK j : j = i - n
        OBVIOUS
      <3>2. j \in 1..n /\ n + j = i
        BY <2>2, <3>1
      <3>3. mm[n + j] = m[j] /\ ss[n + j] = s[j] /\ m[j] = f[s[j]]
        BY <1>0, <1>2, <1>7, <3>2 DEF Mapped
      <3> QED BY <3>2, <3>3
    <2> QED BY <2>1, <2>2
  <1> QED BY <1>0, <1>2, <1>5, <1>7, <1>8, <1>9 DEF Mapped

(* OfKind, Canonical and the selections of detail.go, over the repeated    *)
(* stream.                                                                 *)
LEMMA OfKindTwice ==
    ASSUME NEW events \in Seq(Events), NEW k
    PROVE  OfKind(Twice(events), k) = Twice(OfKind(events, k)) /\ OfKind(events, k) \in Seq(Events)
  <1>1. PICK ee : ee = Twice(events) /\ ee \in Seq(Events)
    BY TwiceRepeats
  <1>2. PICK E : E = {e \in Events : e.kind = k}
    OBVIOUS
  <1>3. PICK I, J : I = {i \in DOMAIN events : events[i].kind = k} /\ J = {i \in DOMAIN ee : ee[i].kind = k}
    OBVIOUS
  <1>4. Selects(events, E, I) /\ Selects(Twice(events), E, J)
    BY <1>1, <1>2, <1>3 DEF Selects
  <1>5. ElementsAt(Twice(events), J) = Twice(ElementsAt(events, I)) /\ ElementsAt(events, I) \in Seq(Events)
    BY <1>4, PositionsTwice, Zenon
  <1> QED BY <1>1, <1>3, <1>5 DEF OfKind

LEMMA CanonicalTwice ==
    ASSUME NEW events \in Seq(Events)
    PROVE  /\ Canonical(Twice(events)) = Twice(Canonical(events))
           /\ Canonical(events) \in Seq({e \in Events : e.kind = "CommandLine"})
  <1>1. PICK ee : ee = Twice(events) /\ ee \in Seq(Events)
    BY TwiceRepeats
  <1>2. PICK E : E = {e \in Events : e.kind = "CommandLine" /\ e.canonical}
    OBVIOUS
  <1>3. PICK I, J : /\ I = {i \in DOMAIN events : events[i].kind = "CommandLine" /\ events[i].canonical}
                    /\ J = {i \in DOMAIN ee : ee[i].kind = "CommandLine" /\ ee[i].canonical}
    OBVIOUS
  <1>4. Selects(events, E, I) /\ Selects(Twice(events), E, J)
    BY <1>1, <1>2, <1>3 DEF Selects
  <1>5. ElementsAt(Twice(events), J) = Twice(ElementsAt(events, I)) /\ ElementsAt(events, I) \in Seq(Events)
    BY <1>4, PositionsTwice, Zenon
  <1>6. ElementsAt(events, I) \in Seq({e \in Events : e.kind = "CommandLine"})
    BY <1>3, ElementsKept
  <1> QED BY <1>1, <1>3, <1>5, <1>6 DEF Canonical

LEMMA FlagsTwice ==
    ASSUME NEW events \in Seq(Events) PROVE ParseFlags(Twice(events)) = Twice(ParseFlags(events))
  <1>1. PICK C : C = {e \in Events : e.kind = "CommandLine"}
    OBVIOUS
  <1>2. PICK cl, cc : cl = Canonical(events) /\ cc = Canonical(Twice(events))
    OBVIOUS
  <1>3. cl \in Seq(C) /\ cc = Twice(cl) /\ cc \in Seq(C)
    <2>1. cl \in Seq(C) /\ cc = Twice(cl)
      BY <1>1, <1>2, CanonicalTwice
    <2> QED BY <2>1, TwiceRepeats
  <1>4. PICK f : f = [e \in C |-> Flags(e)]
    OBVIOUS
  <1>5. PICK m, mm : m = Mapped(f, cl) /\ mm = Mapped(f, cc)
    OBVIOUS
  <1>6. mm = Twice(m)
    BY <1>3, <1>5, MapTwice
  <1>7. /\ m = [i \in DOMAIN cl |-> Flags(cl[i])]
        /\ mm = [i \in DOMAIN cc |-> Flags(cc[i])]
    BY <1>3, <1>4, <1>5 DEF Mapped
  <1>8. IsSequence(m) /\ \A i \in DOMAIN m : IsSequence(m[i])
    <2>1. DOMAIN m = 1..Len(cl) /\ Len(cl) \in Nat /\ Len(m) = Len(cl)
      BY <1>3, <1>7
    <2>2. IsSequence(m)
      BY <1>7, <2>1 DEF IsSequence
    <2>3. ASSUME NEW i \in DOMAIN m PROVE IsSequence(m[i])
      <3>1. PICK e : e = cl[i] /\ e \in Events /\ e.kind = "CommandLine" /\ m[i] = Flags(e)
        BY <1>1, <1>3, <1>7, <2>1
      <3>2. IsSequence(e.options)
        BY <3>1, ListsAssumption
      <3>3. PICK o, O : o = e.options /\ o \in Seq(O)
        BY <3>2, SequenceOfItsElements
      <3>4. Flags(e) \in Seq(O)
        BY <3>3, ElementsType DEF Flags
      <3> QED BY <3>1, <3>4, SeqIsSequence
    <2> QED BY <2>2, <2>3
  <1>9. PICK S : m \in Seq(Seq(S))
    BY <1>8, SequencesOver
  <1>10. FlattenSeq(Twice(m)) = Twice(FlattenSeq(m)) /\ FlattenSeq(m) \in Seq(S)
    BY <1>9, FlattenTwice, Zenon
  <1>11. ParseFlags(events) = FlattenSeq(m) /\ ParseFlags(Twice(events)) = FlattenSeq(mm)
    BY <1>2, <1>7 DEF ParseFlags
  <1> QED BY <1>6, <1>10, <1>11

LEMMA LogTwice ==
    ASSUME NEW events \in Seq(Events) PROVE getLog(Twice(events)) = Twice(getLog(events))
  <1>1. PICK p, pp : p = OfKind(events, "Progress") /\ pp = OfKind(Twice(events), "Progress")
    OBVIOUS
  <1>2. p \in Seq(Events) /\ pp = Twice(p) /\ pp \in Seq(Events)
    <2>1. p \in Seq(Events) /\ pp = Twice(p)
      BY <1>1, OfKindTwice
    <2> QED BY <2>1, TwiceRepeats
  <1>3. PICK f : f = [e \in Events |-> e.output]
    OBVIOUS
  <1>4. PICK m, mm : m = Mapped(f, p) /\ mm = Mapped(f, pp)
    OBVIOUS
  <1>5. mm = Twice(m)
    BY <1>2, <1>4, MapTwice
  <1>6. m = [i \in DOMAIN p |-> p[i].output] /\ mm = [i \in DOMAIN pp |-> pp[i].output]
    BY <1>2, <1>3, <1>4 DEF Mapped
  <1> QED BY <1>1, <1>5, <1>6 DEF getLog

LEMMA ErrorTwice ==
    ASSUME NEW events \in Seq(Events) PROVE ParseBuildError(Twice(events)) = ParseBuildError(events)
  <1>1. PICK ee : ee = Twice(events) /\ ee \in Seq(Events)
    BY TwiceRepeats
  <1>2. PICK E, F : /\ E = {e \in Events : e.kind = "Finished" /\ e.failure \notin {NoText, NoDetail}}
                    /\ F = {e \in Events : e.kind = "Aborted" /\ e.text # NoText}
    OBVIOUS
  <1>3. PICK I, J : /\ I = {i \in DOMAIN events : events[i].kind = "Finished" /\ events[i].failure \notin {NoText, NoDetail}}
                    /\ J = {i \in DOMAIN ee : ee[i].kind = "Finished" /\ ee[i].failure \notin {NoText, NoDetail}}
    OBVIOUS
  <1>4. PICK K, L : /\ K = {i \in DOMAIN events : events[i].kind = "Aborted" /\ events[i].text # NoText}
                    /\ L = {i \in DOMAIN ee : ee[i].kind = "Aborted" /\ ee[i].text # NoText}
    OBVIOUS
  <1>5. Selects(events, E, I) /\ Selects(Twice(events), E, J)
    BY <1>1, <1>2, <1>3 DEF Selects
  <1>6. Selects(events, F, K) /\ Selects(Twice(events), F, L)
    BY <1>1, <1>2, <1>4 DEF Selects
  <1>7. PICK f, ff : f = ElementsAt(events, I) /\ ff = ElementsAt(ee, J)
    OBVIOUS
  <1>8. PICK a, aa : a = ElementsAt(events, K) /\ aa = ElementsAt(ee, L)
    OBVIOUS
  <1>9. Repeated(ff, f)
    <2>1. ElementsAt(Twice(events), J) = Twice(ElementsAt(events, I)) /\ ElementsAt(events, I) \in Seq(Events)
      BY <1>5, PositionsTwice, Zenon
    <2> QED BY <1>1, <1>7, <2>1, TwiceRepeats
  <1>10. Repeated(aa, a)
    <2>1. ElementsAt(Twice(events), L) = Twice(ElementsAt(events, K)) /\ ElementsAt(events, K) \in Seq(Events)
      BY <1>6, PositionsTwice, Zenon
    <2> QED BY <1>1, <1>8, <2>1, TwiceRepeats
  <1>11. /\ ParseBuildError(events) = IF f # <<>> THEN Head(f).failure ELSE IF a # <<>> THEN Last(a).text ELSE NoText
         /\ ParseBuildError(ee) = IF ff # <<>> THEN Head(ff).failure ELSE IF aa # <<>> THEN Last(aa).text ELSE NoText
    BY <1>3, <1>4, <1>7, <1>8 DEF ParseBuildError
  <1>12. /\ ff = <<>> <=> f = <<>>
         /\ f # <<>> => Head(ff) = Head(f)
         /\ aa = <<>> <=> a = <<>>
         /\ a # <<>> => Last(aa) = Last(a)
    BY <1>9, <1>10, Zenon DEF Repeated
  <1> QED BY <1>1, <1>11, <1>12

(* Whether a canonical command line sets an option.                        *)
OptionSet(events, name) == \E i \in DOMAIN Canonical(events) : optionValue(Canonical(events)[i], name) # NoText

LEMMA OptionTwice ==
    ASSUME NEW events \in Seq(Events), NEW name PROVE OptionSet(Twice(events), name) <=> OptionSet(events, name)
  <1>1. PICK cl, cc : cl = Canonical(events) /\ cc = Canonical(Twice(events))
    OBVIOUS
  <1>2. PICK C : cl \in Seq(C) /\ cc = Twice(cl)
    BY <1>1, CanonicalTwice
  <1>3. Repeated(cc, cl)
    BY <1>2, TwiceRepeats
  <1>4. PICK n \in Nat : /\ DOMAIN cc = 1..(n + n) /\ DOMAIN cl = 1..n
                         /\ \A i \in 1..n : cc[i] = cl[i] /\ cc[n + i] = cl[i]
    BY <1>3 DEF Repeated
  <1>5. ASSUME NEW i \in DOMAIN cl PROVE i \in DOMAIN cc /\ cc[i] = cl[i]
    BY <1>4
  <1>6. ASSUME NEW i \in DOMAIN cc PROVE \E j \in DOMAIN cl : cc[i] = cl[j]
    <2>1. CASE i \in 1..n
      BY <1>4, <2>1
    <2>2. CASE i \notin 1..n
      <3>1. PICK j : j = i - n
        OBVIOUS
      <3>2. i \in 1..(n + n)
        BY <1>4, Zenon
      <3>3. j \in 1..n /\ n + j = i
        BY <2>2, <3>1, <3>2
      <3> QED BY <1>4, <3>3
    <2> QED BY <2>1, <2>2
  <1>7. (\E i \in DOMAIN cc : optionValue(cc[i], name) # NoText) <=> (\E i \in DOMAIN cl : optionValue(cl[i], name) # NoText)
    BY <1>5, <1>6
  <1> QED BY <1>1, <1>7 DEF OptionSet

Info(cpu, packages, fetches, remote, caching) ==
    [CPU |-> cpu, PackagesLoaded |-> packages, FetchCount |-> fetches,
     RemoteExecutionEnabled |-> remote, CachingEnabled |-> caching]

LEMMA InfoTwice ==
    ASSUME NEW events \in Seq(Events), NEW once, once = ParseBuildInfo(events)
    PROVE  ParseBuildInfo(Twice(events)) = [once EXCEPT !.FetchCount = 2 * @]
  <1>1. PICK ee : ee = Twice(events) /\ ee \in Seq(Events)
    BY TwiceRepeats
  <1>2. PICK E : E = {e \in Events : e.kind = "Configuration" /\ e.cpu # NoText}
    OBVIOUS
  <1>3. PICK I, J : /\ I = {i \in DOMAIN events : events[i].kind = "Configuration" /\ events[i].cpu # NoText}
                    /\ J = {i \in DOMAIN ee : ee[i].kind = "Configuration" /\ ee[i].cpu # NoText}
    OBVIOUS
  <1>4. Selects(events, E, I) /\ Selects(Twice(events), E, J)
    BY <1>1, <1>2, <1>3 DEF Selects
  <1>5. PICK c, cc : c = ElementsAt(events, I) /\ cc = ElementsAt(ee, J)
    OBVIOUS
  <1>6. PICK m, mm : m = OfKind(events, "BuildMetrics") /\ mm = OfKind(ee, "BuildMetrics")
    OBVIOUS
  <1>7. PICK f, ff : f = OfKind(events, "Fetch") /\ ff = OfKind(ee, "Fetch")
    OBVIOUS
  <1>8. Repeated(cc, c)
    <2>1. ElementsAt(Twice(events), J) = Twice(ElementsAt(events, I)) /\ ElementsAt(events, I) \in Seq(Events)
      BY <1>4, PositionsTwice, Zenon
    <2> QED BY <1>1, <1>5, <2>1, TwiceRepeats
  <1>9. Repeated(mm, m)
    BY <1>1, <1>6, OfKindTwice, TwiceRepeats
  <1>10. Repeated(ff, f)
    BY <1>1, <1>7, OfKindTwice, TwiceRepeats
  <1>11. PICK cpu, packages, n : /\ cpu = IF c = <<>> THEN NoText ELSE Last(c).cpu
                                 /\ packages = IF m = <<>> THEN 0 ELSE Last(m).packages
                                 /\ n = Len(f)
    OBVIOUS
  <1>12. PICK r, h : r = OptionSet(events, "remote_executor") /\ h = OptionSet(events, "remote_cache")
    OBVIOUS
  <1>13. once = Info(cpu, packages, n, r, h)
    BY <1>3, <1>5, <1>6, <1>7, <1>11, <1>12 DEF ParseBuildInfo, Info, OptionSet
  <1>14. /\ cpu = IF cc = <<>> THEN NoText ELSE Last(cc).cpu
         /\ packages = IF mm = <<>> THEN 0 ELSE Last(mm).packages
    <2>1. (cc = <<>> <=> c = <<>>) /\ (c # <<>> => Last(cc) = Last(c))
      BY <1>8, Zenon DEF Repeated
    <2>2. (mm = <<>> <=> m = <<>>) /\ (m # <<>> => Last(mm) = Last(m))
      BY <1>9, Zenon DEF Repeated
    <2> QED BY <1>11, <2>1, <2>2
  <1>15. Len(ff) = 2 * n
    BY <1>10, <1>11 DEF Repeated
  <1>16. r = OptionSet(ee, "remote_executor") /\ h = OptionSet(ee, "remote_cache")
    BY <1>1, <1>12, OptionTwice DEF OptionSet
  <1>17. ParseBuildInfo(ee) = Info(cpu, packages, 2 * n, r, h)
    BY <1>3, <1>5, <1>6, <1>7, <1>14, <1>15, <1>16 DEF ParseBuildInfo, Info, OptionSet
  <1>18. [once EXCEPT !.FetchCount = 2 * @] = Info(cpu, packages, 2 * n, r, h)
    BY <1>13 DEF Info
  <1> QED BY <1>1, <1>17, <1>18

(* Over any sequence of events.                                            *)
LEMMA ResendsDouble == ASSUME NEW events \in Seq(Events) PROVE ResendDoublesLists(events)
  <1>1. PICK once, again : once = getDetails(events) /\ again = getDetails(Twice(events))
    OBVIOUS
  <1>2. PICK t, tt : t = ParseTargets(events) /\ tt = ParseTargets(Twice(events))
    OBVIOUS
  <1>3. tt.order = t.order /\ tt.byLabel = [l \in DOMAIN t.byLabel |-> Doubled(t.byLabel[l])]
    BY <1>2, TargetsTwice
  <1>4. /\ once.targets = t /\ once.flags = ParseFlags(events) /\ once.error = ParseBuildError(events)
        /\ once.info = ParseBuildInfo(events)
    BY <1>1, <1>2 DEF getDetails
  <1>5. /\ again.targets = tt /\ again.flags = ParseFlags(Twice(events)) /\ again.error = ParseBuildError(Twice(events))
        /\ again.info = ParseBuildInfo(Twice(events))
    BY <1>1, <1>2 DEF getDetails
  <1>6. again.targets.order = once.targets.order
    BY <1>3, <1>4, <1>5
  <1>7. again.targets.byLabel = [l \in DOMAIN once.targets.byLabel |-> Doubled(once.targets.byLabel[l])]
    BY <1>3, <1>4, <1>5
  <1>8. again.flags = Twice(once.flags)
    BY <1>4, <1>5, FlagsTwice
  <1>9. again.error = once.error
    BY <1>4, <1>5, ErrorTwice
  <1>10. again.info = [once.info EXCEPT !.FetchCount = 2 * @]
    <2>1. PICK i : i = ParseBuildInfo(events)
      OBVIOUS
    <2>2. ParseBuildInfo(Twice(events)) = [i EXCEPT !.FetchCount = 2 * @]
      BY <2>1, InfoTwice, Zenon
    <2> QED BY <1>4, <1>5, <2>1, <2>2
  <1>11. getLog(Twice(events)) = Twice(getLog(events))
    BY LogTwice
  <1> QED BY <1>1, <1>6, <1>7, <1>8, <1>9, <1>10, <1>11, Zenon DEF ResendDoublesLists, Doubled

(* For every stream, when its events are stored twice over the page shows  *)
(* the same targets, verdicts, error and build info, and the lists, flags, *)
(* log and fetches of one stream twice (targets.go:129-197,                *)
(* detail.go:19-107).                                                      *)
THEOREM ResendShowsListsTwice == ParserSpec => []DetailResendDoublesLists
  <1>1. IndInv => DetailResendDoublesLists
    BY ResendsDouble DEF IndInv, DetailResendDoublesLists
  <1> QED BY <1>1, Invariance, PTL

-----------------------------------------------------------------------------
(* Counting a file in a list.                                              *)

At(s, f) == {m \in DOMAIN s : s[m] = f}

Count(s, f) == Cardinality(At(s, f))

(* A set renamed one to one, and two sets without a common element.        *)
LEMMA RenamedCount ==
    ASSUME NEW S, IsFiniteSet(S), NEW h, DOMAIN h = S, h = [x \in S |-> h[x]], \A x, y \in S : h[x] = h[y] => x = y,
           NEW T, T = {h[x] : x \in S}
    PROVE  IsFiniteSet(T) /\ Cardinality(T) = Cardinality(S)
  <1>1. h \in [S -> T]
    OBVIOUS
  <1>2. h \in Bijection(S, T)
    BY <1>1 DEF Bijection, Injection, Surjection, IsInjective
  <1> QED BY <1>2, FS_Bijection DEF ExistsBijection

LEMMA DisjointCount ==
    ASSUME NEW S, IsFiniteSet(S), NEW T, IsFiniteSet(T), \A x \in S : x \notin T
    PROVE  /\ IsFiniteSet(S \cup T) /\ Cardinality(S \cup T) = Cardinality(S) + Cardinality(T)
           /\ Cardinality(S) \in Nat /\ Cardinality(T) \in Nat
  <1>1. S \cap T = {}
    OBVIOUS
  <1>2. Cardinality(S \cap T) = 0
    BY <1>1, FS_EmptySet
  <1>3. Cardinality(S) \in Nat /\ Cardinality(T) \in Nat
    BY FS_CardinalityType
  <1>4. IsFiniteSet(S \cup T) /\ Cardinality(S \cup T) = Cardinality(S) + Cardinality(T) - Cardinality(S \cap T)
    BY FS_Union
  <1> QED BY <1>2, <1>3, <1>4

LEMMA CountType == ASSUME NEW s, IsSequence(s), NEW f PROVE IsFiniteSet(At(s, f)) /\ Count(s, f) \in Nat
  <1>1. DOMAIN s = 1..Len(s) /\ Len(s) \in Nat
    BY DEF IsSequence
  <1>2. IsFiniteSet(DOMAIN s)
    BY <1>1, FS_Interval
  <1>3. At(s, f) \subseteq DOMAIN s
    BY DEF At
  <1> QED BY <1>2, <1>3, FS_Subset, FS_CardinalityType DEF Count

LEMMA CountEmpty == ASSUME NEW f PROVE Count(<<>>, f) = 0
  <1>1. At(<<>>, f) = {}
    BY DEF At
  <1> QED BY <1>1, FS_EmptySet DEF Count

LEMMA CountJoin ==
    ASSUME NEW s, IsSequence(s), NEW t, IsSequence(t), NEW f
    PROVE  Count(Join(s, t), f) = Count(s, f) + Count(t, f)
  <1>1. PICK S : s \in Seq(S) /\ t \in Seq(S)
    <2>1. PICK A, B : s \in Seq(A) /\ t \in Seq(B)
      BY SequenceOfItsElements
    <2>2. s \in Seq(A \cup B) /\ t \in Seq(A \cup B)
      BY <2>1
    <2> QED BY <2>2
  <1>2. PICK n, k \in Nat : n = Len(s) /\ k = Len(t)
    BY <1>1
  <1>3. PICK st : st = Join(s, t)
    OBVIOUS
  <1>4. /\ DOMAIN st = 1..(n + k) /\ DOMAIN s = 1..n /\ DOMAIN t = 1..k
        /\ \A i \in 1..n : st[i] = s[i]
        /\ \A i \in 1..k : st[n + i] = t[i]
    BY <1>1, <1>2, <1>3 DEF Join
  <1>5. PICK h : h = [m \in At(t, f) |-> n + m]
    OBVIOUS
  <1>6. PICK T : T = {h[m] : m \in At(t, f)}
    OBVIOUS
  <1>7. \A m \in At(t, f) : m \in 1..k /\ h[m] = n + m
    BY <1>4, <1>5 DEF At
  <1>8. IsFiniteSet(T) /\ Cardinality(T) = Cardinality(At(t, f))
    <2>1. IsFiniteSet(At(t, f))
      BY CountType
    <2>2. DOMAIN h = At(t, f) /\ h = [x \in At(t, f) |-> h[x]]
      BY <1>5
    <2>3. \A x, y \in At(t, f) : h[x] = h[y] => x = y
      BY <1>7
    <2> QED BY <1>6, <2>1, <2>2, <2>3, RenamedCount
  <1>9. At(st, f) = At(s, f) \cup T
    <2>1. ASSUME NEW i \in At(st, f) PROVE i \in At(s, f) \cup T
      <3>1. i \in 1..(n + k) /\ st[i] = f
        BY <1>4 DEF At
      <3>2. CASE i \in 1..n
        BY <1>4, <3>1, <3>2 DEF At
      <3>3. CASE i \notin 1..n
        <4>1. PICK j : j = i - n
          OBVIOUS
        <4>2. j \in 1..k /\ n + j = i
          BY <3>1, <3>3, <4>1
        <4>3. j \in At(t, f)
          BY <1>4, <3>1, <4>2 DEF At
        <4> QED BY <1>6, <1>7, <4>2, <4>3
      <3> QED BY <3>2, <3>3
    <2>2. ASSUME NEW i \in At(s, f) PROVE i \in At(st, f)
      BY <1>4 DEF At
    <2>3. ASSUME NEW i \in T PROVE i \in At(st, f)
      <3>1. PICK m \in At(t, f) : i = n + m
        BY <1>6, <1>7
      <3>2. m \in 1..k /\ t[m] = f
        BY <1>4, <3>1 DEF At
      <3>3. n + m \in 1..(n + k) /\ st[n + m] = f
        BY <1>4, <3>2
      <3> QED BY <1>4, <3>1, <3>3 DEF At
    <2> QED BY <2>1, <2>2, <2>3
  <1>10. \A x \in At(s, f) : x \notin T
    BY <1>4, <1>6, <1>7 DEF At
  <1>11. IsFiniteSet(At(s, f))
    BY CountType
  <1>12. Cardinality(At(s, f) \cup T) = Cardinality(At(s, f)) + Cardinality(T)
    BY <1>8, <1>10, <1>11, DisjointCount
  <1> QED BY <1>3, <1>8, <1>9, <1>12 DEF Count

-----------------------------------------------------------------------------
(* The files of the sets a walk has seen.                                  *)

(* Where file f is in the set k, in the sets X, for output group g of the  *)
(* i-th event.                                                             *)
InSet(sets, i, g, k, f) == {<<i, g, k, n>> : n \in At(WithURI(sets[k].files), f)}

InSets(sets, i, g, X, f) == UNION {InSet(sets, i, g, k, f) : k \in X}

LEMMA InSetCount ==
    ASSUME NEW sets, GoodSets(sets), NEW i, NEW g, NEW k \in DOMAIN sets, NEW f
    PROVE  IsFiniteSet(InSet(sets, i, g, k, f)) /\ Cardinality(InSet(sets, i, g, k, f)) = Count(WithURI(sets[k].files), f)
  <1>1. PICK A : A = At(WithURI(sets[k].files), f)
    OBVIOUS
  <1>2. IsFiniteSet(A)
    BY <1>1, CountType, WithURIType DEF GoodSets
  <1>3. PICK h : h = [n \in A |-> <<i, g, k, n>>]
    OBVIOUS
  <1>4. PICK T : T = {h[n] : n \in A}
    OBVIOUS
  <1>5. \A x, y \in A : h[x] = h[y] => x = y
    BY <1>3
  <1>6. IsFiniteSet(T) /\ Cardinality(T) = Cardinality(A)
    BY <1>2, <1>3, <1>4, <1>5, RenamedCount
  <1>7. T = InSet(sets, i, g, k, f)
    BY <1>1, <1>3, <1>4 DEF InSet
  <1> QED BY <1>1, <1>6, <1>7 DEF Count

(* Adding a set adds its files.                                            *)
LEMMA InSetsAdd ==
    ASSUME NEW sets, GoodSets(sets), NEW i, NEW g, NEW X, NEW f, IsFiniteSet(InSets(sets, i, g, X, f)),
           NEW k \in DOMAIN sets, k \notin X
    PROVE  /\ IsFiniteSet(InSets(sets, i, g, X \cup {k}, f))
           /\ Cardinality(InSets(sets, i, g, X \cup {k}, f))
                = Cardinality(InSets(sets, i, g, X, f)) + Count(WithURI(sets[k].files), f)
  <1>1. PICK A, B : A = InSets(sets, i, g, X, f) /\ B = InSet(sets, i, g, k, f)
    OBVIOUS
  <1>2. InSets(sets, i, g, X \cup {k}, f) = A \cup B
    BY <1>1 DEF InSets
  <1>3. \A x \in A : x \notin B
    <2> SUFFICES ASSUME NEW x \in A, x \in B PROVE FALSE
      OBVIOUS
    <2>1. PICK j \in X : x \in InSet(sets, i, g, j, f)
      BY <1>1 DEF InSets
    <2>2. PICK n, m : x = <<i, g, j, n>> /\ x = <<i, g, k, m>>
      BY <1>1, <2>1 DEF InSet
    <2>3. j = k
      BY <2>2
    <2> QED BY <2>1, <2>3
  <1>4. IsFiniteSet(B) /\ Cardinality(B) = Count(WithURI(sets[k].files), f)
    BY <1>1, InSetCount
  <1>5. IsFiniteSet(A \cup B) /\ Cardinality(A \cup B) = Cardinality(A) + Cardinality(B)
    BY <1>1, <1>3, <1>4, DisjointCount
  <1> QED BY <1>1, <1>2, <1>4, <1>5

-----------------------------------------------------------------------------
(* A walk visits what is reachable, and ends.                              *)

(* A set of ids that holds ids and what its sets refer to.                 *)
Closed(sets, ids, S) ==
    (ids \cap DOMAIN sets) \cup UNION {ToSet(sets[s].sets) \cap DOMAIN sets : s \in S} \subseteq S

(* The references of the sets not seen yet.                                *)
Unseen(sets, w) == {x \in References(sets) : x[1] \notin w.seen}

(* What visit keeps of a walk from ids: what was asked for or referred to  *)
(* is seen or still to be visited, and nothing that is not reachable; the  *)
(* files are those of the sets seen.                                       *)
WalkInv(sets, ids, i, g, f, w) ==
    /\ ToSet(ids) \subseteq w.seen \cup ToSet(w.ids)
    /\ \A k \in w.seen \cap DOMAIN sets : ToSet(sets[k].sets) \subseteq w.seen \cup ToSet(w.ids)
    /\ \A S \in SUBSET DOMAIN sets : Closed(sets, ToSet(ids), S) => (w.seen \cup ToSet(w.ids)) \cap DOMAIN sets \subseteq S
    /\ IsFiniteSet(InSets(sets, i, g, w.seen \cap DOMAIN sets, f))
    /\ Count(w.files, f) = Cardinality(InSets(sets, i, g, w.seen \cap DOMAIN sets, f))

LEMMA ToSetJoin ==
    ASSUME NEW s, IsSequence(s), NEW t, IsSequence(t)
    PROVE  ToSet(Join(s, t)) = ToSet(s) \cup ToSet(t) /\ Len(Join(s, t)) = Len(s) + Len(t)
  <1>1. PICK S : s \in Seq(S) /\ t \in Seq(S)
    <2>1. PICK A, B : s \in Seq(A) /\ t \in Seq(B)
      BY SequenceOfItsElements
    <2>2. s \in Seq(A \cup B) /\ t \in Seq(A \cup B)
      BY <2>1
    <2> QED BY <2>2
  <1>2. Len(s \o t) = Len(s) + Len(t)
    BY <1>1
  <1>3. ToSet(s \o t) = ToSet(s) \cup ToSet(t)
    BY <1>1, ToSetConcat
  <1> QED BY <1>2, <1>3 DEF Join

LEMMA WalkStart ==
    ASSUME NEW sets, GoodSets(sets), NEW ids, IsSequence(ids), NEW i, NEW g, NEW f
    PROVE  WalkInv(sets, ids, i, g, f, FromIds(ids))
  <1>1. PICK w : w = FromIds(ids)
    OBVIOUS
  <1>2. w.ids = ids /\ w.seen = {}
    BY <1>1 DEF FromIds
  <1>3. w.files = <<>>
    BY <1>1 DEF FromIds
  <1>4. InSets(sets, i, g, w.seen \cap DOMAIN sets, f) = {}
    BY <1>2 DEF InSets
  <1>5. /\ IsFiniteSet(InSets(sets, i, g, w.seen \cap DOMAIN sets, f))
        /\ Count(w.files, f) = Cardinality(InSets(sets, i, g, w.seen \cap DOMAIN sets, f))
    BY <1>3, <1>4, CountEmpty, FS_EmptySet
  <1>6. /\ ToSet(ids) \subseteq w.seen \cup ToSet(w.ids)
        /\ \A k \in w.seen \cap DOMAIN sets : ToSet(sets[k].sets) \subseteq w.seen \cup ToSet(w.ids)
    BY <1>2
  <1>7. \A S \in SUBSET DOMAIN sets : Closed(sets, ToSet(ids), S) => (w.seen \cup ToSet(w.ids)) \cap DOMAIN sets \subseteq S
    BY <1>2 DEF Closed
  <1>8. WalkInv(sets, ids, i, g, f, w)
    BY <1>5, <1>6, <1>7 DEF WalkInv
  <1> QED BY <1>1, <1>8

LEMMA WalkStep ==
    ASSUME NEW sets, GoodSets(sets), NEW ids, IsSequence(ids), NEW i, NEW g, NEW f,
           NEW w, IsWalk(w), WalkInv(sets, ids, i, g, f, w), NEW v, v = visit(sets, w)
    PROVE  WalkInv(sets, ids, i, g, f, v)
  <1>1. CASE w.ids = <<>>
    BY <1>1, VisitStep
  <1>2. CASE w.ids # <<>>
    <2>1. PICK key, rest : key = Head(w.ids) /\ rest = Tail(w.ids)
      OBVIOUS
    <2>2. IsSequence(rest) /\ ToSet(w.ids) = {key} \cup ToSet(rest)
      BY <1>2, <2>1, TailSequence DEF IsWalk
    <2>3. /\ v.seen = w.seen \cup {key}
          /\ key \notin w.seen /\ key \in DOMAIN sets =>
                v.ids = Join(sets[key].sets, rest) /\ v.files = Join(w.files, WithURI(sets[key].files))
          /\ ~(key \notin w.seen /\ key \in DOMAIN sets) => v.ids = rest /\ v.files = w.files
      BY <1>2, <2>1, VisitStep
    <2>4. CASE key \notin w.seen /\ key \in DOMAIN sets
      <3>1. PICK refs : refs = ToSet(sets[key].sets)
        OBVIOUS
      <3>2. IsSequence(sets[key].sets) /\ IsSequence(sets[key].files)
        BY <2>4 DEF GoodSets
      <3>3. ToSet(v.ids) = refs \cup ToSet(rest)
        BY <2>2, <2>3, <2>4, <3>1, <3>2, ToSetJoin
      <3>4. ToSet(ids) \subseteq v.seen \cup ToSet(v.ids)
        BY <2>2, <2>3, <3>3 DEF WalkInv
      <3>5. ASSUME NEW k \in v.seen \cap DOMAIN sets PROVE ToSet(sets[k].sets) \subseteq v.seen \cup ToSet(v.ids)
        <4>1. CASE k = key
          BY <3>1, <3>3, <4>1
        <4>2. CASE k # key
          <5>1. k \in w.seen \cap DOMAIN sets
            BY <2>3, <4>2
          <5>2. ToSet(sets[k].sets) \subseteq w.seen \cup ToSet(w.ids)
            BY <5>1 DEF WalkInv
          <5> QED BY <2>2, <2>3, <3>3, <5>2
        <4> QED BY <4>1, <4>2
      <3>6. ASSUME NEW S \in SUBSET DOMAIN sets, Closed(sets, ToSet(ids), S)
            PROVE  (v.seen \cup ToSet(v.ids)) \cap DOMAIN sets \subseteq S
        <4>1. (w.seen \cup ToSet(w.ids)) \cap DOMAIN sets \subseteq S
          BY <3>6 DEF WalkInv
        <4>2. key \in S
          BY <2>2, <2>4, <4>1
        <4>3. refs \cap DOMAIN sets \subseteq S
          BY <3>1, <3>6, <4>2 DEF Closed
        <4> QED BY <2>2, <2>3, <3>3, <4>1, <4>2, <4>3
      <3>7. PICK X : X = w.seen \cap DOMAIN sets
        OBVIOUS
      <3>8. v.seen \cap DOMAIN sets = X \cup {key} /\ key \notin X
        BY <2>3, <2>4, <3>7
      <3>9. IsFiniteSet(InSets(sets, i, g, X, f)) /\ Count(w.files, f) = Cardinality(InSets(sets, i, g, X, f))
        BY <3>7 DEF WalkInv
      <3>10. /\ IsFiniteSet(InSets(sets, i, g, X \cup {key}, f))
             /\ Cardinality(InSets(sets, i, g, X \cup {key}, f))
                  = Cardinality(InSets(sets, i, g, X, f)) + Count(WithURI(sets[key].files), f)
        BY <2>4, <3>8, <3>9, InSetsAdd
      <3>11. Count(v.files, f) = Count(w.files, f) + Count(WithURI(sets[key].files), f)
        BY <2>3, <2>4, <3>2, CountJoin, WithURIType DEF IsWalk
      <3>12. /\ IsFiniteSet(InSets(sets, i, g, v.seen \cap DOMAIN sets, f))
             /\ Count(v.files, f) = Cardinality(InSets(sets, i, g, v.seen \cap DOMAIN sets, f))
        BY <3>8, <3>9, <3>10, <3>11
      <3> QED BY <3>4, <3>5, <3>6, <3>12 DEF WalkInv
    <2>5. CASE ~(key \notin w.seen /\ key \in DOMAIN sets)
      <3>1. v.seen \cup ToSet(v.ids) = w.seen \cup ToSet(w.ids)
        BY <2>2, <2>3, <2>5
      <3>2. v.seen \cap DOMAIN sets = w.seen \cap DOMAIN sets /\ v.files = w.files
        BY <2>3, <2>5
      <3> QED BY <3>1, <3>2 DEF WalkInv
    <2> QED BY <2>4, <2>5
  <1> QED BY <1>1, <1>2

(* The steps a walk may still take.                                        *)
Left(sets, w) == Len(w.ids) + Cardinality(Unseen(sets, w))

LEMMA LeftStep ==
    ASSUME NEW sets, GoodSets(sets), NEW w, IsWalk(w), w.ids # <<>>, NEW v, v = visit(sets, w)
    PROVE  Left(sets, w) \in Nat /\ Left(sets, v) \in Nat /\ Left(sets, v) < Left(sets, w)
  <1>1. PICK key, rest : key = Head(w.ids) /\ rest = Tail(w.ids)
    OBVIOUS
  <1>2. IsSequence(rest) /\ Len(rest) = Len(w.ids) - 1 /\ Len(w.ids) \in Nat /\ Len(w.ids) > 0
    BY <1>1, TailSequence DEF IsWalk, IsSequence
  <1>3. /\ v.seen = w.seen \cup {key}
        /\ key \notin w.seen /\ key \in DOMAIN sets => v.ids = Join(sets[key].sets, rest)
        /\ ~(key \notin w.seen /\ key \in DOMAIN sets) => v.ids = rest
    BY <1>1, VisitStep
  <1>4. PICK A, B : A = Unseen(sets, w) /\ B = Unseen(sets, v)
    OBVIOUS
  <1>5. B \subseteq A /\ IsFiniteSet(A)
    <2>1. A \subseteq References(sets)
      BY <1>4 DEF Unseen
    <2>2. IsFiniteSet(A)
      BY <2>1, FS_Subset DEF GoodSets
    <2> QED BY <1>3, <1>4, <2>2 DEF Unseen
  <1>6. IsFiniteSet(B) /\ Cardinality(A) \in Nat /\ Cardinality(B) \in Nat /\ Cardinality(B) <= Cardinality(A)
    BY <1>5, FS_Subset, FS_CardinalityType
  <1>7. PICK len, a, b : len = Len(w.ids) /\ a = Cardinality(A) /\ b = Cardinality(B)
    OBVIOUS
  <1>8. len \in Nat /\ len > 0 /\ a \in Nat /\ b \in Nat /\ b <= a
    BY <1>2, <1>6, <1>7
  <1>9. Left(sets, w) = len + a /\ Left(sets, v) = Len(v.ids) + b
    BY <1>4, <1>7 DEF Left
  <1>10. CASE ~(key \notin w.seen /\ key \in DOMAIN sets)
    <2>1. Len(v.ids) = len - 1
      BY <1>2, <1>3, <1>10, <1>7
    <2>2. Left(sets, v) = (len - 1) + b
      BY <1>9, <2>1
    <2> QED BY <1>8, <1>9, <2>2
  <1>11. CASE key \notin w.seen /\ key \in DOMAIN sets
    <2>1. PICK refs : refs = sets[key].sets /\ IsSequence(refs)
      BY <1>11 DEF GoodSets
    <2>2. PICK n \in Nat : n = Len(refs)
      BY <2>1 DEF IsSequence
    <2>3. Len(v.ids) = n + (Len(w.ids) - 1)
      BY <1>2, <1>3, <1>11, <2>1, <2>2, ToSetJoin
    <2>4. PICK R : R = {key} \X DOMAIN refs
      OBVIOUS
    <2>5. IsFiniteSet(R) /\ Cardinality(R) = n
      <3>1. IsFiniteSet({key}) /\ Cardinality({key}) = 1
        BY FS_Singleton
      <3>2. DOMAIN refs = 1..n
        BY <2>1, <2>2 DEF IsSequence
      <3>3. IsFiniteSet(1..n) /\ Cardinality(1..n) = n
        BY FS_Interval
      <3>4. IsFiniteSet(R) /\ Cardinality(R) = Cardinality({key}) * Cardinality(1..n)
        BY <2>4, <3>1, <3>2, <3>3, FS_Product
      <3> QED BY <3>1, <3>3, <3>4
    <2>6. A = B \cup R
      <3>1. ASSUME NEW x \in A PROVE x \in B \cup R
        <4>1. PICK k \in DOMAIN sets : x \in {k} \X DOMAIN sets[k].sets
          BY <1>4 DEF Unseen, References
        <4>2. x[1] = k /\ x \in References(sets) /\ k \notin w.seen
          BY <1>4, <4>1 DEF Unseen
        <4>3. CASE k = key
          BY <2>1, <2>4, <4>1, <4>3
        <4>4. CASE k # key
          BY <1>3, <1>4, <4>2, <4>4 DEF Unseen
        <4> QED BY <4>3, <4>4
      <3>2. ASSUME NEW x \in R PROVE x \in A
        <4>1. x \in References(sets) /\ x[1] = key
          BY <1>11, <2>1, <2>4 DEF References
        <4> QED BY <1>4, <1>11, <4>1 DEF Unseen
      <3> QED BY <1>5, <3>1, <3>2
    <2>7. \A x \in B : x \notin R
      BY <1>3, <1>4, <2>4 DEF Unseen
    <2>8. Cardinality(A) = Cardinality(B) + n
      BY <1>6, <2>5, <2>6, <2>7, DisjointCount
    <2>9. a = b + n /\ Left(sets, v) = (n + (len - 1)) + b
      BY <1>7, <1>9, <2>3, <2>8
    <2> QED BY <1>8, <1>9, <2>9
  <1> QED BY <1>10, <1>11

(* A walk that has nothing left to visit has seen what is reachable.       *)
LEMMA WalkEnd ==
    ASSUME NEW sets, NEW ids, NEW i, NEW g, NEW f, NEW w, WalkInv(sets, ids, i, g, f, w), w.ids = <<>>
    PROVE  w.seen \cap DOMAIN sets = Reachable(sets, ToSet(ids))
  <1>1. ToSet(w.ids) = {}
    BY DEF ToSet
  <1>2. PICK X : X = w.seen \cap DOMAIN sets
    OBVIOUS
  <1>3. Closed(sets, ToSet(ids), X)
    <2>1. ToSet(ids) \cap DOMAIN sets \subseteq X
      BY <1>1, <1>2 DEF WalkInv
    <2>2. \A k \in X : ToSet(sets[k].sets) \cap DOMAIN sets \subseteq X
      BY <1>1, <1>2 DEF WalkInv
    <2> QED BY <2>1, <2>2 DEF Closed
  <1>4. ASSUME NEW k \in Reachable(sets, ToSet(ids)) PROVE k \in X
    <2>1. \A S \in SUBSET DOMAIN sets : Closed(sets, ToSet(ids), S) => k \in S
      BY DEF Reachable, Closed
    <2> QED BY <1>2, <1>3, <2>1
  <1>5. ASSUME NEW k \in X PROVE k \in Reachable(sets, ToSet(ids))
    <2>1. \A S \in SUBSET DOMAIN sets : Closed(sets, ToSet(ids), S) => k \in S
      BY <1>2 DEF WalkInv
    <2>2. k \in DOMAIN sets
      BY <1>2
    <2> QED BY <2>1, <2>2 DEF Reachable, Closed
  <1> QED BY <1>2, <1>4, <1>5

(* resolveFileSets returns every file of every set reachable from ids,     *)
(* once per place it is in.                                                *)
LEMMA ResolveComplete ==
    ASSUME NEW sets, GoodSets(sets), NEW ids, IsSequence(ids), NEW i, NEW g, NEW f
    PROVE  /\ IsFiniteSet(InSets(sets, i, g, Reachable(sets, ToSet(ids)), f))
           /\ Count(resolveFileSets(sets, ids), f) = Cardinality(InSets(sets, i, g, Reachable(sets, ToSet(ids)), f))
  <1>1. PICK N \in Nat : N = Steps(sets, ids)
    BY StepsType
  <1>2. PICK a : /\ a[0] = FromIds(ids) /\ \A k \in 1..N : a[k] = visit(sets, a[k-1])
                 /\ resolveFileSets(sets, ids) = a[N].files
    BY <1>1, ResolveUnfold
  <1>3. \A k \in 0..N : IsWalk(a[k])
    BY <1>2, WalksAreWalks
  <1>4. WalkInv(sets, ids, i, g, f, a[N])
    <2>1. PICK P : P = {k \in Nat : WalkInv(sets, ids, i, g, f, a[k])}
      OBVIOUS
    <2>2. 0 \in P
      BY <1>2, <2>1, WalkStart
    <2>3. ASSUME NEW n \in Nat, n < N, n \in P PROVE n + 1 \in P
      <3>1. PICK w, v : w = a[n] /\ v = a[n+1]
        OBVIOUS
      <3>2. IsWalk(w) /\ v = visit(sets, w) /\ WalkInv(sets, ids, i, g, f, w)
        BY <1>2, <1>3, <2>1, <2>3, <3>1
      <3>3. WalkInv(sets, ids, i, g, f, v)
        BY <3>2, WalkStep
      <3> QED BY <2>1, <3>1, <3>3
    <2>4. 0..N \subseteq P
      BY <2>2, <2>3, LoopInduction
    <2> QED BY <2>1, <2>4
  <1>5. a[N].ids = <<>>
    <2>1. PICK P : P = {k \in Nat : a[k].ids = <<>> \/ (Left(sets, a[k]) \in Nat /\ Left(sets, a[k]) + k <= N)}
      OBVIOUS
    <2>2. 0 \in P
      <3>1. PICK w : w = a[0] /\ w.ids = ids /\ w.seen = {}
        BY <1>2 DEF FromIds
      <3>2. Unseen(sets, w) = References(sets)
        BY <3>1 DEF Unseen
      <3>3. Left(sets, w) = N
        BY <1>1, <3>1, <3>2 DEF Left, Steps
      <3> QED BY <2>1, <3>1, <3>3
    <2>3. ASSUME NEW n \in Nat, n < N, n \in P PROVE n + 1 \in P
      <3>1. PICK w, v : w = a[n] /\ v = a[n+1]
        OBVIOUS
      <3>2. IsWalk(w) /\ v = visit(sets, w)
        BY <1>2, <1>3, <2>3, <3>1
      <3>3. w.ids = <<>> \/ (Left(sets, w) \in Nat /\ Left(sets, w) + n <= N)
        BY <2>1, <2>3, <3>1
      <3>4. CASE w.ids = <<>>
        <4>1. v.ids = <<>>
          BY <3>2, <3>4 DEF visit
        <4> QED BY <2>1, <3>1, <4>1
      <3>5. CASE w.ids # <<>>
        <4>1. Left(sets, w) \in Nat /\ Left(sets, v) \in Nat /\ Left(sets, v) < Left(sets, w)
          BY <3>2, <3>5, LeftStep
        <4>2. Left(sets, v) + (n + 1) <= N
          BY <3>3, <3>5, <4>1
        <4> QED BY <2>1, <3>1, <4>1, <4>2
      <3> QED BY <3>4, <3>5
    <2>4. N \in P
      BY <2>2, <2>3, LoopInduction
    <2>5. PICK w : w = a[N] /\ IsWalk(w)
      BY <1>3
    <2>6. w.ids = <<>> \/ (Left(sets, w) \in Nat /\ Left(sets, w) + N <= N)
      BY <2>1, <2>4, <2>5
    <2>7. ASSUME w.ids # <<>> PROVE FALSE
      <3>1. PICK v : v = visit(sets, w)
        OBVIOUS
      <3>2. Left(sets, w) \in Nat /\ Left(sets, v) \in Nat /\ Left(sets, v) < Left(sets, w)
        BY <2>5, <2>7, <3>1, LeftStep
      <3> QED BY <2>6, <2>7, <3>2
    <2> QED BY <2>5, <2>7
  <1>6. PICK w : w = a[N] /\ WalkInv(sets, ids, i, g, f, w) /\ w.ids = <<>>
    BY <1>4, <1>5
  <1>7. w.seen \cap DOMAIN sets = Reachable(sets, ToSet(ids))
    BY <1>6, WalkEnd
  <1>8. /\ IsFiniteSet(InSets(sets, i, g, w.seen \cap DOMAIN sets, f))
        /\ Count(w.files, f) = Cardinality(InSets(sets, i, g, w.seen \cap DOMAIN sets, f))
    BY <1>6 DEF WalkInv
  <1> QED BY <1>2, <1>6, <1>7, <1>8

-----------------------------------------------------------------------------
(* The output files of a target.                                           *)

(* Where f is in the first m output groups of the i-th event.              *)
InGroups(sets, i, groups, m, f) ==
    UNION {InSets(sets, i, g, Reachable(sets, ToSet(groups[g])), f) : g \in 1..m}

LEMMA InGroupsAdd ==
    ASSUME NEW sets, NEW i, NEW groups, NEW m \in Nat, NEW f,
           IsFiniteSet(InGroups(sets, i, groups, m, f)),
           NEW B, B = InSets(sets, i, m + 1, Reachable(sets, ToSet(groups[m+1])), f), IsFiniteSet(B)
    PROVE  /\ IsFiniteSet(InGroups(sets, i, groups, m + 1, f))
           /\ Cardinality(InGroups(sets, i, groups, m + 1, f)) = Cardinality(InGroups(sets, i, groups, m, f)) + Cardinality(B)
  <1>1. PICK A : A = InGroups(sets, i, groups, m, f)
    OBVIOUS
  <1>2. 1..(m + 1) = (1..m) \cup {m + 1}
    OBVIOUS
  <1>3. InGroups(sets, i, groups, m + 1, f) = A \cup B
    BY <1>1, <1>2 DEF InGroups
  <1>4. \A x \in A : x \notin B
    <2> SUFFICES ASSUME NEW x \in A, x \in B PROVE FALSE
      OBVIOUS
    <2>1. PICK g \in 1..m : x \in InSets(sets, i, g, Reachable(sets, ToSet(groups[g])), f)
      BY <1>1 DEF InGroups
    <2>2. PICK k, n : x = <<i, g, k, n>>
      BY <2>1 DEF InSets, InSet
    <2>3. PICK h, l : x = <<i, m + 1, h, l>>
      BY DEF InSets, InSet
    <2>4. g = m + 1
      BY <2>2, <2>3
    <2> QED BY <2>4
  <1>5. IsFiniteSet(A \cup B) /\ Cardinality(A \cup B) = Cardinality(A) + Cardinality(B)
    BY <1>1, <1>4, DisjointCount
  <1> QED BY <1>1, <1>3, <1>5

(* What a target's completion adds to its output files.                    *)
LEMMA OutputsCount ==
    ASSUME NEW sets, GoodSets(sets), NEW groups, IsSequence(groups), \A g \in DOMAIN groups : IsSequence(groups[g]),
           NEW i, NEW f
    PROVE  /\ IsFiniteSet(InGroups(sets, i, groups, Len(groups), f))
           /\ Count(Outputs(sets, groups), f) = Cardinality(InGroups(sets, i, groups, Len(groups), f))
  <1>1. PICK x : x = [g \in DOMAIN groups |-> resolveFileSets(sets, groups[g])]
    OBVIOUS
  <1>2. PICK N \in Nat : N = Len(groups) /\ DOMAIN groups = 1..N
    BY DEF IsSequence
  <1>3. Len(x) = N /\ IsSequence(x) /\ \A g \in 1..N : x[g] = resolveFileSets(sets, groups[g])
    BY <1>1, <1>2 DEF IsSequence
  <1>4. \A g \in 1..N : IsSequence(x[g])
    BY <1>2, <1>3, ResolveType
  <1>5. PICK S : x \in Seq(Seq(S))
    <2>1. DOMAIN x = 1..N
      BY <1>1, <1>2
    <2> QED BY <1>3, <1>4, <2>1, SequencesOver
  <1>6. PICK c : /\ c[0] = <<>> /\ \A k \in 1..N : c[k] = c[k-1] \o x[k]
                 /\ \A k \in 0..N : c[k] \in Seq(S)
                 /\ FlattenSeq(x) = c[N]
    BY <1>3, <1>5, FlattenUnfold
  <1>7. c[0] = <<>> /\ \A k \in 0..N : IsSequence(c[k])
    BY <1>6, SeqIsSequence
  <1>8. PICK P : P = {k \in Nat : /\ IsFiniteSet(InGroups(sets, i, groups, k, f))
                                  /\ Count(c[k], f) = Cardinality(InGroups(sets, i, groups, k, f))}
    OBVIOUS
  <1>9. 0 \in P
    <2>1. InGroups(sets, i, groups, 0, f) = {}
      BY DEF InGroups
    <2>2. Count(c[0], f) = 0
      BY <1>7, CountEmpty
    <2> QED BY <1>8, <2>1, <2>2, FS_EmptySet
  <1>10. ASSUME NEW n \in Nat, n < N, n \in P PROVE n + 1 \in P
    <2>1. n + 1 \in 1..N /\ n \in 0..N /\ (n + 1) - 1 = n
      BY <1>10
    <2>2. PICK u, v, y : u = c[n] /\ v = c[n+1] /\ y = x[n+1]
      OBVIOUS
    <2>3. v = Join(u, y)
      <3>1. c[n+1] = c[(n+1)-1] \o x[n+1]
        BY <1>6, <2>1
      <3> QED BY <2>1, <2>2, <3>1 DEF Join
    <2>4. IsSequence(u) /\ IsSequence(y)
      BY <1>4, <1>7, <2>1, <2>2
    <2>5. Count(v, f) = Count(u, f) + Count(y, f)
      BY <2>3, <2>4, CountJoin
    <2>6. PICK ids : ids = groups[n+1] /\ IsSequence(ids) /\ y = resolveFileSets(sets, ids)
      BY <1>2, <1>3, <2>1, <2>2
    <2>7. PICK B : B = InSets(sets, i, n + 1, Reachable(sets, ToSet(ids)), f)
      OBVIOUS
    <2>8. IsFiniteSet(B) /\ Count(y, f) = Cardinality(B)
      BY <2>6, <2>7, ResolveComplete
    <2>9. IsFiniteSet(InGroups(sets, i, groups, n, f)) /\ Count(u, f) = Cardinality(InGroups(sets, i, groups, n, f))
      BY <1>8, <1>10, <2>2
    <2>10. /\ IsFiniteSet(InGroups(sets, i, groups, n + 1, f))
           /\ Cardinality(InGroups(sets, i, groups, n + 1, f)) = Cardinality(InGroups(sets, i, groups, n, f)) + Cardinality(B)
      BY <2>6, <2>7, <2>8, <2>9, InGroupsAdd
    <2>11. Count(v, f) = Cardinality(InGroups(sets, i, groups, n + 1, f))
      BY <2>5, <2>8, <2>9, <2>10
    <2> QED BY <1>8, <2>2, <2>10, <2>11
  <1>11. N \in P
    BY <1>9, <1>10, LoopInduction
  <1>12. Outputs(sets, groups) = c[N]
    BY <1>1, <1>6 DEF Outputs
  <1> QED BY <1>2, <1>8, <1>11, <1>12

(* The events among the first n that complete l, and where f is in their   *)
(* output groups.                                                          *)
Completions(events, l, n) ==
    {j \in 1..n : events[j].kind = "Completed" /\ AboutTarget(events[j]) /\ events[j].label = l}

InEvents(events, sets, l, n, f) ==
    UNION {InGroups(sets, i, events[i].groups, Len(events[i].groups), f) : i \in Completions(events, l, n)}

LEMMA InEventsAdd ==
    ASSUME NEW events, NEW sets, NEW l, NEW n \in Nat, NEW f, IsFiniteSet(InEvents(events, sets, l, n, f)),
           n + 1 \in Completions(events, l, n + 1),
           NEW B, B = InGroups(sets, n + 1, events[n+1].groups, Len(events[n+1].groups), f), IsFiniteSet(B)
    PROVE  /\ IsFiniteSet(InEvents(events, sets, l, n + 1, f))
           /\ Cardinality(InEvents(events, sets, l, n + 1, f)) = Cardinality(InEvents(events, sets, l, n, f)) + Cardinality(B)
  <1>1. PICK A : A = InEvents(events, sets, l, n, f)
    OBVIOUS
  <1>2. Completions(events, l, n + 1) = Completions(events, l, n) \cup {n + 1}
    BY DEF Completions
  <1>3. InEvents(events, sets, l, n + 1, f) = A \cup B
    BY <1>1, <1>2 DEF InEvents
  <1>4. \A x \in A : x \notin B
    <2> SUFFICES ASSUME NEW x \in A, x \in B PROVE FALSE
      OBVIOUS
    <2>1. PICK i \in Completions(events, l, n) : x \in InGroups(sets, i, events[i].groups, Len(events[i].groups), f)
      BY <1>1 DEF InEvents
    <2>2. PICK g, k, m : x = <<i, g, k, m>>
      BY <2>1 DEF InGroups, InSets, InSet
    <2>3. PICK h, o, p : x = <<n + 1, h, o, p>>
      BY DEF InGroups, InSets, InSet
    <2>4. i = n + 1
      BY <2>2, <2>3
    <2> QED BY <2>4 DEF Completions
  <1>5. IsFiniteSet(A \cup B) /\ Cardinality(A \cup B) = Cardinality(A) + Cardinality(B)
    BY <1>1, <1>4, DisjointCount
  <1> QED BY <1>1, <1>3, <1>5

(* The files of target l after n events.                                   *)
Listed(events, sets, l, n, f, u) ==
    /\ IsFiniteSet(InEvents(events, sets, l, n, f))
    /\ Count(u.OutputFiles, f) = Cardinality(InEvents(events, sets, l, n, f))

LEMMA ListedStep ==
    ASSUME NEW events \in Seq(Events), NEW sets, GoodSets(sets), NEW l, NEW f, NEW n \in Nat, n < Len(events),
           NEW t, AreTargets(t), \A x \in DOMAIN t.byLabel : Lists(t.byLabel[x]),
           NEW r, r = Report(t, events[n+1], sets), Listed(events, sets, l, n, f, TargetOf(t, l))
    PROVE  Listed(events, sets, l, n + 1, f, TargetOf(r, l))
  <1>1. PICK e : e = events[n+1] /\ e \in Events
    OBVIOUS
  <1>2. PICK u, v : u = TargetOf(t, l) /\ v = TargetOf(r, l)
    OBVIOUS
  <1>3. /\ ~AboutTarget(e) => r = t
        /\ AboutTarget(e) => /\ DOMAIN r.byLabel = DOMAIN t.byLabel \cup {e.label}
                             /\ r.byLabel[e.label] = Update(TargetOf(t, e.label), e, sets)
                             /\ \A x \in DOMAIN t.byLabel : x # e.label => r.byLabel[x] = t.byLabel[x]
    BY <1>1, ReportStep
  <1>4. IsTarget(u) /\ Lists(u)
    BY <1>2, NewIsTarget, NewLists DEF TargetOf, AreTargets
  <1>5. CASE AboutTarget(e) /\ e.label = l /\ e.kind = "Completed"
    <2>1. v = Update(u, e, sets)
      BY <1>2, <1>3, <1>5 DEF TargetOf
    <2>2. v.OutputFiles = Join(u.OutputFiles, Outputs(sets, e.groups))
      <3>1. Updated(u, e, sets, v)
        BY <1>4, <1>5, <2>1, UpdateEach
      <3> QED BY <1>5, <3>1 DEF Updated
    <2>3. PICK gs : gs = e.groups
      OBVIOUS
    <2>4. IsSequence(gs) /\ \A g \in DOMAIN gs : IsSequence(gs[g])
      BY <1>1, <1>5, <2>3, ListsAssumption
    <2>5. PICK B : B = InGroups(sets, n + 1, gs, Len(gs), f)
      OBVIOUS
    <2>6. IsFiniteSet(B) /\ Count(Outputs(sets, gs), f) = Cardinality(B)
      BY <2>4, <2>5, OutputsCount
    <2>7. Count(v.OutputFiles, f) = Count(u.OutputFiles, f) + Cardinality(B)
      BY <1>4, <2>2, <2>3, <2>4, <2>6, CountJoin, OutputsType DEF Lists
    <2>8. n + 1 \in Completions(events, l, n + 1)
      BY <1>1, <1>5 DEF Completions, AboutTarget
    <2>9. IsFiniteSet(InEvents(events, sets, l, n, f)) /\ Count(u.OutputFiles, f) = Cardinality(InEvents(events, sets, l, n, f))
      BY <1>2 DEF Listed
    <2>10. /\ IsFiniteSet(InEvents(events, sets, l, n + 1, f))
           /\ Cardinality(InEvents(events, sets, l, n + 1, f)) = Cardinality(InEvents(events, sets, l, n, f)) + Cardinality(B)
      BY <1>1, <2>3, <2>5, <2>6, <2>8, <2>9, InEventsAdd
    <2> QED BY <1>2, <2>7, <2>9, <2>10 DEF Listed
  <1>6. CASE ~(AboutTarget(e) /\ e.label = l /\ e.kind = "Completed")
    <2>1. v.OutputFiles = u.OutputFiles
      <3>1. CASE AboutTarget(e) /\ e.label = l
        <4>1. v = Update(u, e, sets)
          BY <1>2, <1>3, <3>1 DEF TargetOf
        <4>2. Updated(u, e, sets, v)
          BY <1>4, <3>1, <4>1, UpdateEach
        <4> QED BY <1>6, <3>1, <4>2 DEF Updated
      <3>2. CASE ~(AboutTarget(e) /\ e.label = l)
        BY <1>2, <1>3, <3>2 DEF TargetOf
      <3> QED BY <3>1, <3>2
    <2>2. Completions(events, l, n + 1) = Completions(events, l, n)
      BY <1>1, <1>6 DEF Completions, AboutTarget
    <2> QED BY <1>2, <2>1, <2>2 DEF Listed, InEvents
  <1> QED BY <1>5, <1>6

(* Over any sequence of events.                                            *)
LEMMA OutputsListed == ASSUME NEW events \in Seq(Events) PROVE OutputsComplete(events)
  <1>1. PICK N \in Nat : N = Len(events) /\ DOMAIN events = 1..N
    OBVIOUS
  <1>2. PICK sets : sets = parseNamedSets(events) /\ GoodSets(sets)
    BY SetsAreGood
  <1>3. PICK a : /\ a[0] = NoTargets /\ \A k \in 1..N : a[k] = Report(a[k-1], events[k], sets)
                 /\ TargetsAfter(events, sets, N) = a[N]
    BY TargetsUnfold
  <1>4. \A k \in 0..N : AreTargets(a[k])
    BY <1>3, TargetsAreTargets
  <1>5. \A k \in 0..N : \A l \in DOMAIN a[k].byLabel : Lists(a[k].byLabel[l])
    BY <1>1, <1>2, <1>3, TargetLists
  <1>6. ASSUME NEW l, NEW f PROVE Listed(events, sets, l, N, f, TargetOf(a[N], l))
    <2>1. PICK P : P = {k \in Nat : Listed(events, sets, l, k, f, TargetOf(a[k], l))}
      OBVIOUS
    <2>2. 0 \in P
      <3>1. InEvents(events, sets, l, 0, f) = {}
        BY DEF InEvents, Completions
      <3>2. PICK u : u = TargetOf(a[0], l)
        OBVIOUS
      <3>3. u.OutputFiles = <<>>
        <4>1. DOMAIN a[0].byLabel = {}
          BY <1>3 DEF NoTargets
        <4>2. u = NewTarget
          BY <3>2, <4>1 DEF TargetOf
        <4> QED BY <4>2 DEF NewTarget
      <3>4. Listed(events, sets, l, 0, f, u)
        BY <3>1, <3>3, CountEmpty, FS_EmptySet DEF Listed
      <3> QED BY <2>1, <3>2, <3>4
    <2>3. ASSUME NEW n \in Nat, n < N, n \in P PROVE n + 1 \in P
      <3>1. PICK t, r : t = a[n] /\ r = a[n+1]
        OBVIOUS
      <3>2. AreTargets(t) /\ r = Report(t, events[n+1], sets) /\ Listed(events, sets, l, n, f, TargetOf(t, l))
        BY <1>3, <1>4, <2>1, <2>3, <3>1
      <3>3. \A x \in DOMAIN t.byLabel : Lists(t.byLabel[x])
        BY <1>5, <2>3, <3>1
      <3>4. Listed(events, sets, l, n + 1, f, TargetOf(r, l))
        BY <1>1, <1>2, <2>3, <3>2, <3>3, ListedStep
      <3> QED BY <2>1, <3>1, <3>4
    <2>4. 0..N \subseteq P
      BY <2>2, <2>3, LoopInduction
    <2> QED BY <2>1, <2>4
  <1>7. PICK t : t = ParseTargets(events) /\ t = a[N]
    BY <1>1, <1>2, <1>3 DEF ParseTargets
  <1>8. ASSUME NEW l, NEW f PROVE Listings(events, sets, l, f) = InEvents(events, sets, l, N, f)
    <2>1. PICK C : C = {j \in DOMAIN events : events[j].kind = "Completed" /\ AboutTarget(events[j]) /\ events[j].label = l}
      OBVIOUS
    <2>2. C = Completions(events, l, N)
      BY <1>1, <2>1 DEF Completions
    <2>3. ASSUME NEW i \in C PROVE DOMAIN events[i].groups = 1..Len(events[i].groups)
      BY <1>1, <2>1, ListsAssumption DEF IsSequence
    <2>4. \A i \in C : InGroups(sets, i, events[i].groups, Len(events[i].groups), f) =
              UNION {UNION {{<<i, g, k, n>> : n \in {m \in DOMAIN WithURI(sets[k].files) : WithURI(sets[k].files)[m] = f}}
                               : k \in Reachable(sets, ToSet(events[i].groups[g]))}
                        : g \in DOMAIN events[i].groups}
      BY <2>3, Zenon DEF InGroups, InSets, InSet, At
    <2>5. PICK h : h = [i \in C |-> InGroups(sets, i, events[i].groups, Len(events[i].groups), f)]
      OBVIOUS
    <2>6. InEvents(events, sets, l, N, f) = UNION {h[i] : i \in C}
      BY <2>2, <2>5 DEF InEvents
    <2>7. \A i \in C : h[i] =
              UNION {UNION {{<<i, g, k, n>> : n \in {m \in DOMAIN WithURI(sets[k].files) : WithURI(sets[k].files)[m] = f}}
                               : k \in Reachable(sets, ToSet(events[i].groups[g]))}
                        : g \in DOMAIN events[i].groups}
      BY <2>4, <2>5
    <2>8. Listings(events, sets, l, f) = UNION {h[i] : i \in C}
      BY <2>1, <2>7 DEF Listings
    <2> QED BY <2>6, <2>8
  <1>9. ASSUME NEW l \in DOMAIN t.byLabel, NEW f
        PROVE  Cardinality({i \in DOMAIN t.byLabel[l].OutputFiles : t.byLabel[l].OutputFiles[i] = f})
                   = Cardinality(Listings(events, sets, l, f))
    <2>1. PICK u : u = t.byLabel[l] /\ u = TargetOf(a[N], l)
      BY <1>7, <1>9 DEF TargetOf
    <2>2. Count(u.OutputFiles, f) = Cardinality(InEvents(events, sets, l, N, f))
      BY <1>6, <2>1 DEF Listed
    <2> QED BY <1>8, <2>1, <2>2 DEF Count, At
  <1>10. SUFFICES ASSUME NEW l \in DOMAIN ParseTargets(events).byLabel, NEW f
         PROVE  LET o == ParseTargets(events).byLabel[l].OutputFiles
                IN  Cardinality({i \in DOMAIN o : o[i] = f}) = Cardinality(Listings(events, parseNamedSets(events), l, f))
    BY Zenon DEF OutputsComplete
  <1> QED BY <1>2, <1>7, <1>9

(* On the details page of every stream, each output group of a target      *)
(* brings every file of every set it reaches, once, wherever the sets were *)
(* reported and even when they refer to one another                        *)
(* (targets.go:82-125, 161-163).                                           *)
THEOREM OutputsAllListed == ParserSpec => []DetailOutputsComplete
  <1>1. IndInv => DetailOutputsComplete
    BY OutputsListed DEF IndInv, DetailOutputsComplete
  <1> QED BY <1>1, Invariance, PTL

-----------------------------------------------------------------------------
(* The verdict of a test.                                                  *)

(* The events about the test l among the first n.                          *)
Tests(events, l, n) ==
    {i \in 1..n : events[i].kind \in {"TestSummary", "TestResult"} /\ AboutTarget(events[i]) /\ events[i].label = l}

(* What target u must say of the test l after n events.                    *)
Verdict(events, l, u, n) ==
    \A i \in Tests(events, l, n) :
        /\ u.IsTest
        /\ events[i].kind = "TestSummary" /\ (\A j \in Tests(events, l, n) : j <= i)
             => u.Success = (events[i].status = "PASSED")

(* In Bazel's order, the next event keeps it.                              *)
LEMMA VerdictStep ==
    ASSUME NEW S, NEW events \in Seq(S), NEW l, InBazelOrder(events, l), NEW n \in Nat, n < Len(events),
           NEW t, AreTargets(t), NEW sets, NEW r, r = Report(t, events[n+1], sets),
           Verdict(events, l, TargetOf(t, l), n)
    PROVE  Verdict(events, l, TargetOf(r, l), n + 1)
  <1>1. PICK e : e = events[n+1]
    OBVIOUS
  <1>2. n + 1 \in DOMAIN events /\ \A i \in 1..n : i \in DOMAIN events /\ i < n + 1
    OBVIOUS
  <1>3. PICK old : old = Tests(events, l, n)
    OBVIOUS
  <1>4. PICK new : new = Tests(events, l, n + 1)
    OBVIOUS
  <1>5. PICK u, v : u = TargetOf(t, l) /\ v = TargetOf(r, l)
    OBVIOUS
  <1>6. old \subseteq 1..n /\ new = old \cup (IF e.kind \in {"TestSummary", "TestResult"} /\ AboutTarget(e) /\ e.label = l
                                      THEN {n+1} ELSE {})
    BY <1>1, <1>3, <1>4 DEF Tests
  <1>7. \A i \in old : u.IsTest /\ (events[i].kind = "TestSummary" /\ (\A j \in old : j <= i)
                                       => u.Success = (events[i].status = "PASSED"))
    BY <1>3, <1>5 DEF Verdict
  <1> SUFFICES \A i \in new : v.IsTest /\ (events[i].kind = "TestSummary" /\ (\A j \in new : j <= i)
                                              => v.Success = (events[i].status = "PASSED"))
    BY <1>4, <1>5 DEF Verdict
  <1>8. /\ AreTargets(r) /\ (~AboutTarget(e) => r = t)
        /\ AboutTarget(e) => /\ DOMAIN r.byLabel = DOMAIN t.byLabel \cup {e.label}
                             /\ r.byLabel[e.label] = Update(TargetOf(t, e.label), e, sets)
                             /\ \A x \in DOMAIN t.byLabel : x # e.label => r.byLabel[x] = t.byLabel[x]
    BY <1>1, ReportStep
  <1>9. CASE ~(AboutTarget(e) /\ e.label = l)
    <2>1. v = u
      BY <1>5, <1>8, <1>9 DEF TargetOf
    <2>2. new = old
      BY <1>6, <1>9 DEF AboutTarget
    <2> QED BY <1>7, <2>1, <2>2
  <1>10. CASE AboutTarget(e) /\ e.label = l
    <2>1. v = Update(u, e, sets)
      BY <1>5, <1>8, <1>10 DEF TargetOf
    <2>2. IsTarget(u)
      BY <1>5, NewIsTarget DEF TargetOf, AreTargets
    <2>3. /\ e.kind \in {"TestSummary", "TestResult"} => v.IsTest
          /\ e.kind = "TestSummary" => v.Success = (e.status = "PASSED")
      BY <1>10, <2>1, <2>2, UpdateVerdict
    <2>4. CASE e.kind \in {"Configured", "Completed"}
      <3>1. ASSUME NEW i \in old PROVE FALSE
        <4>1. i \in 1..n /\ events[i].kind \in {"TestSummary", "TestResult"} /\ AboutTarget(events[i]) /\ events[i].label = l
          BY <1>3, <3>1 DEF Tests
        <4>2. AboutTarget(events[i])
          BY <4>1 DEF AboutTarget
        <4>3. Stage[events[i].kind] <= Stage[e.kind]
          BY <1>1, <1>2, <1>10, <4>1, <4>2 DEF InBazelOrder
        <4> QED BY <2>4, <4>1, <4>3 DEF Stage
      <3>2. new = {}
        BY <1>6, <2>4, <3>1
      <3> QED BY <3>2
    <2>5. CASE e.kind \in {"TestSummary", "TestResult"}
      <3>1. n + 1 \in new /\ \A j \in old : j < n + 1
        BY <1>6, <1>10, <2>5
      <3>2. ASSUME NEW i \in new, \A j \in new : j <= i PROVE i = n + 1
        BY <1>6, <3>1, <3>2
      <3> QED BY <1>1, <2>3, <2>5, <3>2
    <2> QED BY <1>10, <2>4, <2>5 DEF AboutTarget
  <1> QED BY <1>9, <1>10

(* Over any sequence of events in which Bazel's order holds for a label,   *)
(* whatever happens to the other labels.                                   *)
LEMMA VerdictsStand == ASSUME NEW S, NEW events \in Seq(S) PROVE TestVerdictStands(events)
  <1>0. PICK sets : sets = parseNamedSets(events)
    OBVIOUS
  <1>1. PICK N \in Nat : N = Len(events)
    OBVIOUS
  <1>2. PICK a : /\ a[0] = NoTargets /\ \A k \in 1..N : a[k] = Report(a[k-1], events[k], sets)
                 /\ TargetsAfter(events, sets, N) = a[N]
    BY TargetsUnfold
  <1>3. \A k \in 0..N : AreTargets(a[k])
    BY <1>2, TargetsAreTargets
  <1>4. ASSUME NEW l, InBazelOrder(events, l) PROVE Verdict(events, l, TargetOf(a[N], l), N)
    <2>1. PICK P : P = {k \in Nat : Verdict(events, l, TargetOf(a[k], l), k)}
      OBVIOUS
    <2>2. 0 \in P
      BY <2>1 DEF Verdict, Tests
    <2>3. ASSUME NEW n \in Nat, n < N, n \in P PROVE n + 1 \in P
      <3>1. PICK t, r : t = a[n] /\ r = a[n+1]
        OBVIOUS
      <3>2. AreTargets(t) /\ r = Report(t, events[n+1], sets) /\ Verdict(events, l, TargetOf(t, l), n)
        BY <1>2, <1>3, <2>1, <2>3, <3>1
      <3>3. Verdict(events, l, TargetOf(r, l), n + 1)
        BY <1>1, <1>4, <2>3, <3>2, VerdictStep
      <3> QED BY <2>1, <3>1, <3>3
    <2>4. 0..N \subseteq P
      BY <2>2, <2>3, LoopInduction
    <2> QED BY <2>1, <2>4
  <1>5. PICK t : t = ParseTargets(events) /\ t = a[N]
    BY <1>0, <1>1, <1>2 DEF ParseTargets
  <1>6. ASSUME NEW l \in DOMAIN t.byLabel, InBazelOrder(events, l)
        PROVE  LET mine == {i \in DOMAIN events : events[i].kind \in {"TestSummary", "TestResult"} /\ AboutTarget(events[i]) /\ events[i].label = l}
               IN  \A i \in mine :
                      /\ t.byLabel[l].IsTest
                      /\ events[i].kind = "TestSummary" /\ (\A j \in mine : j <= i)
                           => t.byLabel[l].Success = (events[i].status = "PASSED")
    <2>1. TargetOf(a[N], l) = t.byLabel[l]
      BY <1>5, <1>6 DEF TargetOf
    <2>2. {i \in DOMAIN events : events[i].kind \in {"TestSummary", "TestResult"} /\ AboutTarget(events[i]) /\ events[i].label = l} = Tests(events, l, N)
      BY <1>1 DEF Tests
    <2>3. Verdict(events, l, t.byLabel[l], N)
      BY <1>4, <1>6, <2>1
    <2> QED BY <2>2, <2>3 DEF Verdict
  <1> QED BY <1>5, <1>6 DEF TestVerdictStands

(* On the details page of every stream, in Bazel's order, a test shows the *)
(* verdict of its last summary: a success only if it PASSED                *)
(* (targets.go:148-188).                                                   *)
THEOREM VerdictOfLastSummary == ParserSpec => []DetailTestVerdictStands
  <1>1. IndInv => DetailTestVerdictStands
    BY VerdictsStand DEF IndInv, DetailTestVerdictStands
  <1> QED BY <1>1, Invariance, PTL
=============================================================================
