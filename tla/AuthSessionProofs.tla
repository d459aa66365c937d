------------------------- MODULE AuthSessionProofs -------------------------
(***************************************************************************)
(* The invariants of AuthSession for any browsers, users and numbers of    *)
(* logins and requests.                                                    *)
(***************************************************************************)
EXTENDS AuthSession, SequenceTheorems, TLAPS

(* The sets the fields of a call take their values from.                   *)
PCs         == {"sent", "exchange", "answered", "over"}
Statuses    == {0, 200, 302, 400, 401, 500}
SetStates   == Logins \cup {None, Keep}
SetSessions == Session \cup {None, Keep}
Flags       == BOOLEAN
Clock       == Nat

(* Assigning a field a value of its type.                                  *)
LEMMA PcField ==
    ASSUME NEW q \in Call, NEW v \in PCs PROVE [q EXCEPT !.pc = v] \in Call
  BY DEF Call, PCs

LEMMA StatusField ==
    ASSUME NEW q \in Call, NEW v \in Statuses PROVE [q EXCEPT !.status = v] \in Call
  BY DEF Call, Statuses

LEMMA SetStateField ==
    ASSUME NEW q \in Call, NEW v \in SetStates PROVE [q EXCEPT !.setState = v] \in Call
  BY DEF Call, SetStates

LEMMA SetSessionField ==
    ASSUME NEW q \in Call, NEW v \in SetSessions PROVE [q EXCEPT !.setSession = v] \in Call
  BY DEF Call, SetSessions

LEMMA PassedField ==
    ASSUME NEW q \in Call, NEW v \in Flags PROVE [q EXCEPT !.passed = v] \in Call
  BY DEF Call, Flags

LEMMA ServedField ==
    ASSUME NEW q \in Call, NEW v \in Flags PROVE [q EXCEPT !.served = v] \in Call
  BY DEF Call, Flags

LEMMA AtField ==
    ASSUME NEW q \in Call, NEW v \in Clock PROVE [q EXCEPT !.at = v] \in Call
  BY DEF Call, Clock

(* Constants of those sets.                                                *)
LEMMA Constants ==
    /\ "sent" \in PCs /\ "exchange" \in PCs /\ "answered" \in PCs /\ "over" \in PCs
    /\ TRUE \in Flags /\ None \in SetStates /\ Keep \in SetStates /\ None \in SetSessions /\ Keep \in SetSessions
    /\ 200 \in Statuses /\ 302 \in Statuses /\ 400 \in Statuses /\ 401 \in Statuses /\ 500 \in Statuses
  BY DEF PCs, Flags, SetStates, SetSessions, Statuses

(* An answer to a request.                                                 *)
Answered(q, status, setState, setSession) ==
    [q EXCEPT !.pc = "answered", !.status = status, !.setState = setState, !.setSession = setSession]

LEMMA AnsweredTyped ==
    ASSUME NEW q \in Call, NEW status \in Statuses, NEW setState \in SetStates, NEW setSession \in SetSessions
    PROVE  Answered(q, status, setState, setSession) \in Call
  <1>1. [q EXCEPT !.pc = "answered"] \in Call
    BY PcField, Constants, Zenon
  <1>2. [q EXCEPT !.pc = "answered", !.status = status] \in Call
    BY <1>1, StatusField, Zenon
  <1>3. [q EXCEPT !.pc = "answered", !.status = status, !.setState = setState] \in Call
    BY <1>2, SetStateField, Zenon
  <1>4. [q EXCEPT !.pc = "answered", !.status = status, !.setState = setState, !.setSession = setSession] \in Call
    BY <1>3, SetSessionField, Zenon
  <1> QED BY <1>4, Zenon DEF Answered

(* What a handler leaves alone of a call.                                  *)
SameRequest(p, q) ==
    /\ p.browser = q.browser /\ p.kind = q.kind /\ p.state = q.state /\ p.session = q.session
    /\ p.url = q.url /\ p.late = q.late /\ p.after = q.after

LEMMA AnsweredFields ==
    ASSUME NEW q \in Call, NEW status, NEW setState, NEW setSession
    PROVE  LET p == Answered(q, status, setState, setSession) IN
           /\ SameRequest(p, q) /\ p.passed = q.passed /\ p.served = q.served /\ p.at = q.at
           /\ p.pc = "answered" /\ p.status = status /\ p.setState = setState /\ p.setSession = setSession
  BY DEF Answered, Call, SameRequest

(* The answer that issues a session.                                       *)
Issued(q, at, session) ==
    [q EXCEPT !.pc = "answered", !.status = 302, !.at = at, !.setState = None, !.setSession = session]

LEMMA IssuedTyped ==
    ASSUME NEW q \in Call, NEW at \in Clock, NEW session \in SetSessions
    PROVE  Issued(q, at, session) \in Call
  <1>1. [q EXCEPT !.pc = "answered"] \in Call
    BY PcField, Constants, Zenon
  <1>2. [q EXCEPT !.pc = "answered", !.status = 302] \in Call
    BY <1>1, StatusField, Constants, Zenon
  <1>3. [q EXCEPT !.pc = "answered", !.status = 302, !.at = at] \in Call
    BY <1>2, AtField, Zenon
  <1>4. [q EXCEPT !.pc = "answered", !.status = 302, !.at = at, !.setState = None] \in Call
    BY <1>3, SetStateField, Constants, Zenon
  <1>5. [q EXCEPT !.pc = "answered", !.status = 302, !.at = at, !.setState = None,
                  !.setSession = session] \in Call
    BY <1>4, SetSessionField, Zenon
  <1> QED BY <1>5, Zenon DEF Issued

LEMMA IssuedFields ==
    ASSUME NEW q \in Call, NEW at, NEW session
    PROVE  LET p == Issued(q, at, session) IN
           /\ SameRequest(p, q) /\ p.passed = q.passed /\ p.served = q.served /\ p.at = at
           /\ p.pc = "answered" /\ p.status = 302 /\ p.setState = None /\ p.setSession = session
  BY DEF Issued, Call, SameRequest

(* The callback's state is accepted.                                       *)
Accepted(q) == [q EXCEPT !.pc = "exchange", !.passed = TRUE]

LEMMA AcceptedTyped ==
    ASSUME NEW q \in Call PROVE Accepted(q) \in Call
  <1>1. [q EXCEPT !.pc = "exchange"] \in Call
    BY PcField, Constants, Zenon
  <1>2. [q EXCEPT !.pc = "exchange", !.passed = TRUE] \in Call
    BY <1>1, PassedField, Constants, Zenon
  <1> QED BY <1>2, Zenon DEF Accepted

LEMMA AcceptedFields ==
    ASSUME NEW q \in Call
    PROVE  LET p == Accepted(q) IN
           /\ SameRequest(p, q) /\ p.served = q.served /\ p.at = q.at /\ p.passed = TRUE
           /\ p.pc = "exchange" /\ p.status = q.status /\ p.setState = q.setState /\ p.setSession = q.setSession
  BY DEF Accepted, Call, SameRequest

(* A handler has looked for a session.                                     *)
Looked(q, at, ok, status) ==
    [q EXCEPT !.pc = "answered", !.at = at, !.served = ok, !.status = status]

LEMMA LookedTyped ==
    ASSUME NEW q \in Call, NEW at \in Clock, NEW ok \in Flags, NEW status \in Statuses
    PROVE  Looked(q, at, ok, status) \in Call
  <1>1. [q EXCEPT !.pc = "answered"] \in Call
    BY PcField, Constants, Zenon
  <1>2. [q EXCEPT !.pc = "answered", !.at = at] \in Call
    BY <1>1, AtField, Zenon
  <1>3. [q EXCEPT !.pc = "answered", !.at = at, !.served = ok] \in Call
    BY <1>2, ServedField, Zenon
  <1>4. [q EXCEPT !.pc = "answered", !.at = at, !.served = ok, !.status = status] \in Call
    BY <1>3, StatusField, Zenon
  <1> QED BY <1>4, Zenon DEF Looked

LEMMA LookedFields ==
    ASSUME NEW q \in Call, NEW at, NEW ok \in BOOLEAN, NEW status
    PROVE  LET p == Looked(q, at, ok, status) IN
           /\ SameRequest(p, q) /\ p.passed = q.passed /\ p.served = ok /\ p.at = at
           /\ p.pc = "answered" /\ p.status = status /\ p.setState = q.setState /\ p.setSession = q.setSession
  BY DEF Looked, Call, SameRequest

(* An answer has arrived.                                                  *)
LEMMA OverFields ==
    ASSUME NEW q \in Call
    PROVE  LET p == [q EXCEPT !.pc = "over"] IN
           /\ p \in Call /\ SameRequest(p, q) /\ p.passed = q.passed /\ p.served = q.served /\ p.at = q.at
           /\ p.pc = "over" /\ p.status = q.status /\ p.setState = q.setState /\ p.setSession = q.setSession
  <1>1. [q EXCEPT !.pc = "over"] \in Call
    BY PcField, Constants, Zenon
  <1> QED BY <1>1 DEF Call, SameRequest

-----------------------------------------------------------------------------
(* The inductive invariant.                                                *)

Own(bg, b, l) == l <= Len(bg) /\ bg[l] = b

OwnSession(bg, granted, b, s) == Own(bg, b, s.login) /\ s.user = granted[s.login]

JarOwn(bg, granted, b, j) ==
    /\ j.state # None => Own(bg, b, j.state)
    /\ j.session # None => OwnSession(bg, granted, b, j.session)

JarInv == \A b \in Browsers : JarOwn(begun, idp.granted, b, jar[b])

(* Whose cookies a request carries and its answer sets.                    *)
CallOwn(bg, granted, q) ==
    /\ q.state # None => Own(bg, q.browser, q.state)
    /\ q.session # None => OwnSession(bg, granted, q.browser, q.session)
    /\ q.setState \notin {None, Keep} => Own(bg, q.browser, q.setState)
    /\ q.setSession \notin {None, Keep} => OwnSession(bg, granted, q.browser, q.setSession)
    /\ q.url.code # None => granted[q.url.code] # None
    /\ q.kind = "callback" => q.url.state # None /\ q.url.state <= Len(bg)

(* How far a call has come.                                                *)
Progress(q) ==
    /\ q.pc \in {"sent", "exchange"} => q.setState = Keep /\ q.setSession = Keep /\ q.status = 0
    /\ q.pc = "exchange" => q.passed
    /\ q.passed => /\ q.kind = "callback" /\ q.pc # "sent" /\ q.state # None
                   /\ q.state = q.url.state /\ q.url.code # None
                   /\ q.pc # "exchange" => q.setState = None
    /\ q.setState = None => q.kind = "callback"
    /\ q.kind = "callback" /\ q.status = 400 => \/ q.state = None \/ q.state # q.url.state
                                                \/ q.url.code = None
    /\ q.served => q.kind # "callback" /\ q.session # None /\ q.at <= q.session.expiry
    /\ q.setSession \notin {None, Keep} => /\ q.kind = "callback"
                                          /\ q.setSession.expiry = q.at + SessionLifetime

CallInv == \A c \in DOMAIN calls : CallOwn(begun, idp.granted, calls[c]) /\ Progress(calls[c])

IsLogin(v) == v \notin {None, Keep}

(* One answer sets the cookie of a login, and it has arrived before the    *)
(* cookie is anywhere.                                                     *)
OneSetter == \A c, d \in DOMAIN calls :
    IsLogin(calls[c].setState) /\ calls[c].setState = calls[d].setState => c = d

SetBefore == \A c \in DOMAIN calls : IsLogin(calls[c].setState) =>
    /\ \A b \in Browsers : jar[b].state = calls[c].setState => calls[c].pc = "over"
    /\ \A d \in DOMAIN calls : calls[d].state = calls[c].setState => calls[c].pc = "over"

(* The answer to a callback takes the cookie away for good.                *)
Cleared == \A c \in DOMAIN calls :
    calls[c].passed /\ calls[c].pc = "over" => jar[calls[c].browser].state # calls[c].state

AfterInv == \A d \in DOMAIN calls : \A c \in calls[d].after :
    /\ c \in DOMAIN calls /\ calls[c].pc = "over"
    /\ calls[c].passed => calls[c].state # calls[d].state

(* e, an answer that has arrived, took the cookie of login l from b.       *)
Took(e, b, l) ==
    /\ e.browser = b /\ e.pc = "over"
    /\ e.kind = "callback" \/ e.setState \notin {Keep, None, l}

(* A cookie that was set is there until another answer takes it away, and  *)
(* then travels with a callback unless it has expired.                     *)
Kept == \A d \in DOMAIN calls :
    calls[d].pc = "over" /\ IsLogin(calls[d].setState) =>
        \/ jar[calls[d].browser].state = calls[d].setState
        \/ \E e \in DOMAIN calls : Took(calls[e], calls[d].browser, calls[d].setState)

Came(c) ==
    \/ calls[c].late \/ calls[c].state = calls[c].url.state
    \/ \E e \in DOMAIN calls : e # c /\ Took(calls[e], calls[c].browser, calls[c].url.state)

CameInv == \A c \in DOMAIN calls :
    calls[c].kind = "callback" /\ begun[calls[c].url.state] = calls[c].browser
    /\ (\E d \in calls[c].after : calls[d].setState = calls[c].url.state) => Came(c)

(* d, an answer that has arrived, brought b the session s.                 *)
Brought(d, b, s) == d.browser = b /\ d.pc = "over" /\ d.setSession = s /\ s # Keep

(* Whoever has a session was answered with it, and a request that carries  *)
(* one was sent after that answer.                                         *)
JarBrought == \A b \in Browsers :
    jar[b].session # None => \E d \in DOMAIN calls : Brought(calls[d], b, jar[b].session)

CallBrought == \A c \in DOMAIN calls :
    calls[c].session # None =>
        \E d \in calls[c].after : Brought(calls[d], calls[c].browser, calls[c].session)

IndInv ==
    /\ TypeOK /\ JarInv /\ CallInv /\ OneSetter /\ SetBefore /\ Cleared /\ AfterInv /\ Kept /\ CameInv
    /\ JarBrought /\ CallBrought

-----------------------------------------------------------------------------
(* What a step of a handler comes to: q is the call it leaves.             *)

Handled(c, q) ==
    /\ q \in Call /\ calls' = [calls EXCEPT ![c] = q] /\ SameRequest(q, calls[c])
    /\ calls[c].pc \in {"sent", "exchange"} /\ q.pc \in {"exchange", "answered"}
    /\ now' = now /\ jar' = jar /\ idp' \in [granted: {idp.granted}, redeemed: SUBSET Logins]

Unread(c, q) == q.served = calls[c].served /\ q.at = calls[c].at

(* handleLogin makes a new state.                                          *)
Begins(c, q) ==
    /\ calls[c].kind = "login" /\ calls[c].pc = "sent" /\ Len(begun) < MaxLogins
    /\ begun' = Append(begun, calls[c].browser)
    /\ q.pc = "answered" /\ q.setState = Len(begun) + 1 /\ q.setSession = Keep /\ q.status = 302
    /\ q.passed = calls[c].passed /\ Unread(c, q)

(* handleCallback accepts the state.                                       *)
Accepts(c, q) ==
    /\ calls[c].kind = "callback" /\ calls[c].pc = "sent" /\ begun' = begun
    /\ calls[c].state # None /\ calls[c].state = calls[c].url.state /\ calls[c].url.code # None
    /\ q.pc = "exchange" /\ q.setState = calls[c].setState /\ q.setSession = calls[c].setSession
    /\ q.status = calls[c].status /\ q.passed = TRUE /\ Unread(c, q)

(* handleCallback issues a session.                                        *)
Issues(c, q) ==
    /\ calls[c].pc = "exchange" /\ calls[c].url.code = calls[c].state /\ begun' = begun
    /\ q.pc = "answered" /\ q.setState = None /\ q.status = 302 /\ q.passed = calls[c].passed
    /\ q.served = calls[c].served /\ q.at = now
    /\ q.setSession = [user |-> idp.granted[calls[c].url.code], login |-> calls[c].url.code,
                       expiry |-> now + SessionLifetime]

(* Any other answer.                                                       *)
Replies(c, q) ==
    /\ begun' = begun /\ q.pc = "answered" /\ q.passed = calls[c].passed
    /\ q.setState = IF calls[c].kind = "callback" THEN None ELSE Keep
    /\ q.setSession \in {None, Keep}
    /\ q.status = 400 => \/ calls[c].state = None \/ calls[c].state # calls[c].url.state
                         \/ calls[c].url.code = None
    /\ \/ Unread(c, q)
       \/ calls[c].kind # "callback" /\ calls[c].session # None /\ q.at <= calls[c].session.expiry
       \/ ~q.served

Outcome(c, q) == Handled(c, q) /\ (Begins(c, q) \/ Accepts(c, q) \/ Issues(c, q) \/ Replies(c, q))

LEMMA CallTyped ==
    ASSUME TypeOK, NEW c \in DOMAIN calls
    PROVE  calls[c] \in Call
  BY DEF TypeOK

(* A login leaves one of the outcomes above, and so do the handlers below. *)
LEMMA LoginOutcome ==
    ASSUME IndInv, NEW c \in DOMAIN calls, HandleLogin(c)
    PROVE  \E q : Outcome(c, q)
  <1> DEFINE q == Answered(calls[c], 302, Len(begun) + 1, Keep)
  <1>1. calls[c] \in Call /\ idp \in [granted: {idp.granted}, redeemed: SUBSET Logins]
    BY CallTyped DEF IndInv, TypeOK
  <1>2. Len(begun) + 1 \in SetStates
    BY AuthAssumption DEF HandleLogin, SetStates, Logins, IndInv, TypeOK
  <1>3. q \in Call
    BY <1>1, <1>2, AnsweredTyped, Constants, Zenon
  <1>4. /\ SameRequest(q, calls[c]) /\ q.passed = calls[c].passed /\ q.served = calls[c].served
        /\ q.at = calls[c].at /\ q.pc = "answered" /\ q.status = 302 /\ q.setState = Len(begun) + 1
        /\ q.setSession = Keep
    BY <1>1, AnsweredFields
  <1>5. calls' = [calls EXCEPT ![c] = q]
    BY Zenon DEF HandleLogin, Answer, Answered
  <1> HIDE DEF q
  <1>6. Outcome(c, q)
    BY <1>1, <1>3, <1>4, <1>5 DEF Outcome, Handled, Begins, Unread, HandleLogin
  <1> QED BY <1>6

(* An answer that sets neither a login's cookie nor a session.             *)
LEMMA ReplyOutcome ==
    ASSUME IndInv, NEW c \in DOMAIN calls, calls[c].pc \in {"sent", "exchange"}, NEW status \in Statuses,
           NEW setState, setState = (IF calls[c].kind = "callback" THEN None ELSE Keep),
           NEW setSession \in {None, Keep}, Answer(c, status, setState, setSession),
           status = 400 => \/ calls[c].state = None \/ calls[c].state # calls[c].url.state
                           \/ calls[c].url.code = None,
           now' = now, jar' = jar, begun' = begun, idp' \in [granted: {idp.granted}, redeemed: SUBSET Logins]
    PROVE  \E q : Outcome(c, q)
  <1> DEFINE q == Answered(calls[c], status, setState, setSession)
  <1>1. calls[c] \in Call
    BY CallTyped DEF IndInv
  <1>2. setState \in SetStates /\ setSession \in SetSessions
    BY DEF SetStates, SetSessions
  <1>3. q \in Call
    BY <1>1, <1>2, AnsweredTyped, Zenon
  <1>4. /\ SameRequest(q, calls[c]) /\ q.passed = calls[c].passed /\ q.served = calls[c].served
        /\ q.at = calls[c].at /\ q.pc = "answered" /\ q.status = status /\ q.setState = setState
        /\ q.setSession = setSession
    BY <1>1, AnsweredFields
  <1>5. calls' = [calls EXCEPT ![c] = q]
    BY Zenon DEF Answer, Answered
  <1> HIDE DEF q
  <1>6. Outcome(c, q)
    BY <1>3, <1>4, <1>5 DEF Outcome, Handled, Replies, Unread
  <1> QED BY <1>6

(* The provider redeems a code and changes nothing it granted.             *)
LEMMA Redeeming ==
    ASSUME TypeOK, NEW code \in Logins, Redeem(code)
    PROVE  idp' \in [granted: {idp.granted}, redeemed: SUBSET Logins]
  BY DEF TypeOK, Redeem

LEMMA CallbackOutcome ==
    ASSUME IndInv, NEW c \in DOMAIN calls, HandleCallback(c)
    PROVE  \E q : Outcome(c, q)
  <1>1. /\ calls[c] \in Call /\ idp' \in [granted: {idp.granted}, redeemed: SUBSET Logins]
        /\ calls[c].pc = "sent" /\ calls[c].kind = "callback" /\ now' = now /\ jar' = jar /\ begun' = begun
    BY CallTyped DEF IndInv, TypeOK, HandleCallback
  <1> DEFINE bad == \/ calls[c].state = None \/ calls[c].state # calls[c].url.state
                    \/ calls[c].url.code = None
  <1>2. CASE bad
    <2>1. Answer(c, 400, None, Keep)
      BY <1>2 DEF HandleCallback, LoginStateFromRequest, ClearsState
    <2>2. 400 \in Statuses
      BY Constants
    <2> QED BY <1>1, <1>2, <2>1, <2>2, ReplyOutcome
  <1>3. CASE ~bad
    <2> DEFINE q == Accepted(calls[c])
    <2>1. calls' = [calls EXCEPT ![c] = q]
      BY <1>3, Zenon DEF HandleCallback, LoginStateFromRequest, Accepted
    <2>2. /\ q \in Call /\ SameRequest(q, calls[c]) /\ q.served = calls[c].served /\ q.at = calls[c].at
          /\ q.passed = TRUE /\ q.pc = "exchange" /\ q.status = calls[c].status
          /\ q.setState = calls[c].setState /\ q.setSession = calls[c].setSession
      BY <1>1, AcceptedTyped, AcceptedFields
    <2> HIDE DEF q
    <2>3. Outcome(c, q)
      BY <1>1, <1>3, <2>1, <2>2 DEF Outcome, Handled, Accepts, Unread
    <2> QED BY <2>3
  <1> QED BY <1>2, <1>3

LEMMA ExchangeOutcome ==
    ASSUME IndInv, NEW c \in DOMAIN calls, Exchange(c) \/ ExchangeFails(c) \/ SessionNotSet(c)
    PROVE  \E q : Outcome(c, q)
  <1>1. calls[c] \in Call /\ calls[c].pc = "exchange" /\ TypeOK
    BY CallTyped DEF IndInv, Exchange, ExchangeFails, SessionNotSet
  <1>2. /\ calls[c].kind = "callback" /\ calls[c].url.code # None /\ idp.granted[calls[c].url.code] # None
    BY <1>1 DEF IndInv, CallInv, Progress, CallOwn
  <1>3. calls[c].url.code \in Logins
    BY <1>1, <1>2 DEF Call
  <1>4. /\ now' = now /\ jar' = jar /\ begun' = begun
    BY DEF Exchange, ExchangeFails, SessionNotSet
  <1>5. idp \in [granted: {idp.granted}, redeemed: SUBSET Logins]
    BY <1>1 DEF TypeOK
  <1>6. idp' \in [granted: {idp.granted}, redeemed: SUBSET Logins]
    BY <1>1, <1>3, <1>5, Redeeming DEF Exchange, ExchangeFails, SessionNotSet
  <1>7. ASSUME NEW status \in {401, 500}, Answer(c, status, None, Keep) PROVE \E q : Outcome(c, q)
    <2>1. status \in Statuses /\ status # 400
      BY <1>7 DEF Statuses
    <2> QED BY <1>1, <1>2, <1>4, <1>6, <1>7, <2>1, ReplyOutcome
  <1>8. CASE ExchangeFails(c)
    BY <1>7, <1>8 DEF ExchangeFails, ClearsState
  <1>9. CASE SessionNotSet(c)
    BY <1>7, <1>9 DEF SessionNotSet, ClearsState
  <1>10. CASE Exchange(c) /\ ~NonceMatches(calls[c])
    BY <1>7, <1>10 DEF Exchange, ClearsState
  <1>11. CASE Exchange(c) /\ NonceMatches(calls[c])
    <2> DEFINE s == [user |-> idp.granted[calls[c].url.code], login |-> calls[c].url.code,
                     expiry |-> now + SessionLifetime]
               q == Issued(calls[c], now, s)
    <2>1. s \in Session
      BY <1>1, <1>2, <1>3, AuthAssumption DEF Session, TypeOK
    <2>2. s \in SetSessions
      BY <2>1 DEF SetSessions
    <2>3. calls' = [calls EXCEPT ![c] = q]
      BY <1>11, Zenon DEF Exchange, Issue, Issued, ClearsState
    <2>4. calls[c].url.code = calls[c].state
      BY <1>11 DEF NonceMatches
    <2> HIDE DEF s
    <2>5. q \in Call
      <3>1. now \in Clock
        BY <1>1, AuthAssumption DEF TypeOK, Clock
      <3> QED BY <1>1, <2>2, <3>1, IssuedTyped, Zenon
    <2>6. /\ SameRequest(q, calls[c]) /\ q.passed = calls[c].passed /\ q.served = calls[c].served
          /\ q.at = now /\ q.pc = "answered" /\ q.status = 302 /\ q.setState = None /\ q.setSession = s
      BY <1>1, IssuedFields
    <2> HIDE DEF q
    <2>7. Issues(c, q)
      BY <1>1, <1>4, <2>4, <2>6 DEF Issues, s
    <2>8. Outcome(c, q)
      BY <1>1, <1>4, <1>6, <2>3, <2>5, <2>6, <2>7 DEF Outcome, Handled
    <2> QED BY <2>8
  <1> QED BY <1>8, <1>9, <1>10, <1>11

LEMMA ServeOutcome ==
    ASSUME IndInv, NEW c \in DOMAIN calls, RequireSession(c) \/ HandleMe(c)
    PROVE  \E q : Outcome(c, q)
  <1>1. PICK refusal \in {200, 401} : Serve(c, refusal)
    BY DEF RequireSession, HandleMe
  <1>2. /\ calls[c] \in Call /\ calls[c].pc = "sent" /\ calls[c].kind # "callback"
        /\ now \in Nat /\ idp \in [granted: {idp.granted}, redeemed: SUBSET Logins]
    BY CallTyped, AuthAssumption DEF IndInv, TypeOK, RequireSession, HandleMe
  <1>3. calls[c].setState = Keep /\ calls[c].setSession = Keep
    BY <1>2 DEF IndInv, CallInv, Progress
  <1> DEFINE ok == SessionFromRequest(calls[c])
             status == IF ok THEN 200 ELSE refusal
             q == Looked(calls[c], now, ok, status)
  <1>4. ok \in BOOLEAN /\ status \in Statuses /\ status # 400
    BY <1>1 DEF SessionFromRequest, Statuses
  <1>5. calls' = [calls EXCEPT ![c] = q]
    BY <1>1 DEF Serve, Looked
  <1>6. ok => calls[c].session # None /\ now <= calls[c].session.expiry
    BY DEF SessionFromRequest, decodeSession
  <1>7. now' = now /\ jar' = jar /\ begun' = begun /\ idp' = idp
    BY <1>1 DEF Serve
  <1> HIDE DEF ok, status
  <1>a. ok \in Flags /\ now \in Clock /\ status \in Statuses /\ calls[c] \in Call
    BY <1>2, <1>4 DEF Flags, Clock
  <1>8. q \in Call
    BY <1>a, LookedTyped
  <1>9. /\ SameRequest(q, calls[c]) /\ q.passed = calls[c].passed /\ q.served = ok /\ q.at = now
        /\ q.pc = "answered" /\ q.status = status /\ q.setState = calls[c].setState
        /\ q.setSession = calls[c].setSession
    BY <1>2, <1>4, LookedFields
  <1> HIDE DEF q
  <1>10. Replies(c, q)
    BY <1>2, <1>3, <1>4, <1>6, <1>7, <1>9 DEF Replies
  <1>11. Outcome(c, q)
    BY <1>2, <1>5, <1>7, <1>8, <1>9, <1>10 DEF Outcome, Handled
  <1> QED BY <1>11

(* Every step of a handler is one of the outcomes.                         *)
LEMMA HandleOutcome ==
    ASSUME IndInv, NEW c \in DOMAIN calls, Handle(c)
    PROVE  \E q : Outcome(c, q)
  <1>1. idp \in [granted: {idp.granted}, redeemed: SUBSET Logins]
    BY DEF IndInv, TypeOK
  <1>2. CASE HandleLoginFails(c)
    BY <1>1, <1>2, ReplyOutcome, Constants DEF HandleLoginFails
  <1>3. CASE HandleLogout(c)
    BY <1>1, <1>3, ReplyOutcome, Constants DEF HandleLogout
  <1> QED BY <1>2, <1>3, LoginOutcome, CallbackOutcome, ExchangeOutcome, ServeOutcome DEF Handle

-----------------------------------------------------------------------------
(* Logins are only added, and each is signed in for once.                  *)
Grows(bg, granted, bg2, granted2) ==
    /\ bg \in Seq(Browsers) /\ bg2 \in Seq(Browsers) /\ Len(bg) <= Len(bg2)
    /\ \A l \in 1..Len(bg) : bg2[l] = bg[l]
    /\ \A l \in Logins : granted[l] # None => granted2[l] = granted[l]

(* What is a browser's own stays its own.                                  *)
LEMMA OwnGrows ==
    ASSUME NEW bg, NEW granted, NEW bg2, NEW granted2, Grows(bg, granted, bg2, granted2)
    PROVE  /\ \A b : \A l \in Logins : Own(bg, b, l) => Own(bg2, b, l)
           /\ \A b : \A s \in Session : OwnSession(bg, granted, b, s) => OwnSession(bg2, granted2, b, s)
  <1>1. \A b : \A l \in Logins : Own(bg, b, l) => Own(bg2, b, l)
    BY AuthAssumption DEF Grows, Own, Logins
  <1>2. ASSUME NEW b, NEW s \in Session, OwnSession(bg, granted, b, s)
        PROVE  OwnSession(bg2, granted2, b, s)
    <2>1. s.login \in Logins /\ s.user # None
      BY AuthAssumption DEF Session
    <2>2. granted2[s.login] = granted[s.login]
      BY <1>2, <2>1 DEF OwnSession, Grows
    <2> QED BY <1>1, <1>2, <2>1, <2>2 DEF OwnSession
  <1> QED BY <1>1, <1>2

(* So a jar's cookies stay its browser's own,                              *)
LEMMA JarGrows ==
    ASSUME NEW bg, NEW granted, NEW bg2, NEW granted2, Grows(bg, granted, bg2, granted2),
           NEW b, NEW j \in Jar, JarOwn(bg, granted, b, j)
    PROVE  JarOwn(bg2, granted2, b, j)
  <1>1. j.state # None => j.state \in Logins
    BY DEF Jar
  <1>2. j.session # None => j.session \in Session
    BY DEF Jar
  <1> QED BY <1>1, <1>2, OwnGrows DEF JarOwn

(* and so do a request's.                                                  *)
LEMMA CallGrows ==
    ASSUME NEW bg, NEW granted, NEW bg2, NEW granted2, Grows(bg, granted, bg2, granted2),
           NEW q \in Call, CallOwn(bg, granted, q)
    PROVE  CallOwn(bg2, granted2, q)
  <1>1. /\ q.state # None => q.state \in Logins
        /\ q.session # None => q.session \in Session
        /\ q.setState \notin {None, Keep} => q.setState \in Logins
        /\ q.setSession \notin {None, Keep} => q.setSession \in Session
        /\ q.url.code # None => q.url.code \in Logins
        /\ q.url.state # None => q.url.state \in Logins
    BY DEF Call
  <1>2. q.url.code # None => granted2[q.url.code] # None
    BY <1>1 DEF CallOwn, Grows
  <1>3. q.kind = "callback" => q.url.state # None /\ q.url.state <= Len(bg2)
    <2>1. Len(bg) \in Nat /\ Len(bg2) \in Nat /\ Len(bg) <= Len(bg2)
      BY DEF Grows
    <2> QED BY <1>1, <2>1 DEF CallOwn, Logins
  <1> QED BY <1>1, <1>2, <1>3, OwnGrows DEF CallOwn

(* Every action leaves logins and grants as Grows says.                    *)
LEMMA OutcomeGrows ==
    ASSUME IndInv, NEW c \in DOMAIN calls, NEW q, Outcome(c, q)
    PROVE  /\ Grows(begun, idp.granted, begun', idp'.granted) /\ begun' \in Seq(Browsers)
           /\ Len(begun') <= MaxLogins /\ idp'.granted = idp.granted
  <1>1. idp'.granted = idp.granted
    BY DEF Outcome, Handled
  <1>2. calls[c].browser \in Browsers /\ begun \in Seq(Browsers) /\ Len(begun) <= MaxLogins
    BY CallTyped DEF IndInv, TypeOK, Call
  <1>3. CASE begun' = begun
    BY <1>1, <1>2, <1>3 DEF Grows
  <1>4. CASE Begins(c, q)
    <2>1. begun' = Append(begun, calls[c].browser) /\ Len(begun) < MaxLogins
      BY <1>4 DEF Begins
    <2> QED BY <1>1, <1>2, <2>1, AuthAssumption DEF Grows
  <1> QED BY <1>3, <1>4 DEF Outcome, Accepts, Issues, Replies

(* A handler's step on one call.                                           *)
LEMMA OutcomeCalls ==
    ASSUME IndInv, NEW c \in DOMAIN calls, NEW q, Outcome(c, q)
    PROVE  /\ calls' \in Seq(Call) /\ DOMAIN calls' = DOMAIN calls /\ calls'[c] = q
           /\ \A d \in DOMAIN calls : d # c => calls'[d] = calls[d]
  <1>1. calls \in Seq(Call) /\ q \in Call /\ calls' = [calls EXCEPT ![c] = q]
    BY DEF IndInv, TypeOK, Outcome, Handled
  <1> QED BY <1>1

(* A handler keeps the types.                                              *)
LEMMA OutcomeType ==
    ASSUME IndInv, NEW c \in DOMAIN calls, NEW q, Outcome(c, q)
    PROVE  TypeOK'
  <1>1. now' = now /\ jar' = jar /\ idp' \in [granted: {idp.granted}, redeemed: SUBSET Logins]
    BY DEF Outcome, Handled
  <1>2. idp.granted \in [Logins -> Users \cup {None}]
    BY DEF IndInv, TypeOK
  <1>3. idp' \in [granted: [Logins -> Users \cup {None}], redeemed: SUBSET Logins]
    BY <1>1, <1>2
  <1> QED BY <1>1, <1>3, OutcomeGrows, OutcomeCalls DEF IndInv, TypeOK

(* A handler sets only cookies that are the browser's own.                 *)
LEMMA OutcomeCallInv ==
    ASSUME IndInv, NEW c \in DOMAIN calls, NEW q, Outcome(c, q)
    PROVE  CallInv'
  <1>1. /\ calls[c] \in Call /\ q \in Call /\ SameRequest(q, calls[c]) /\ calls[c].pc \in {"sent", "exchange"}
    BY CallTyped DEF IndInv, Outcome, Handled
  <1>2. CallOwn(begun, idp.granted, calls[c]) /\ Progress(calls[c])
    BY DEF IndInv, CallInv
  <1>3. CallOwn(begun', idp'.granted, calls[c])
    BY <1>1, <1>2, OutcomeGrows, CallGrows
  <1>4. calls[c].setState = Keep /\ calls[c].setSession = Keep /\ calls[c].status = 0
    BY <1>1, <1>2 DEF Progress
  <1>5. CallOwn(begun', idp'.granted, q)
    <2>1. CASE Begins(c, q)
      <3>1. begun \in Seq(Browsers) /\ calls[c].browser \in Browsers
        BY <1>1 DEF IndInv, TypeOK, Call
      <3>2. Own(begun', q.browser, q.setState)
        BY <1>1, <2>1, <3>1 DEF Begins, Own, SameRequest
      <3>3. q.setSession = Keep
        BY <2>1 DEF Begins
      <3> QED BY <1>1, <1>3, <3>2, <3>3 DEF CallOwn, SameRequest
    <2>2. CASE Accepts(c, q) \/ Replies(c, q)
      <3>1. q.setState \in {None, Keep} /\ q.setSession \in {None, Keep}
        BY <1>4, <2>2 DEF Accepts, Replies
      <3> QED BY <1>1, <1>3, <3>1 DEF CallOwn, SameRequest
    <2>3. CASE Issues(c, q)
      <3>1. calls[c].state # None /\ calls[c].url.code = calls[c].state
        BY <1>2, <2>3 DEF Issues, Progress
      <3>2. Own(begun', calls[c].browser, calls[c].url.code) /\ idp'.granted = idp.granted
        BY <1>3, <3>1, OutcomeGrows DEF CallOwn
      <3>3. /\ q.setState = None /\ q.setSession.login = calls[c].url.code
            /\ q.setSession.user = idp.granted[calls[c].url.code]
        BY <2>3 DEF Issues
      <3>4. OwnSession(begun', idp'.granted, calls[c].browser, q.setSession)
        BY <3>2, <3>3 DEF OwnSession
      <3> QED BY <1>1, <1>3, <3>3, <3>4 DEF CallOwn, SameRequest
    <2> QED BY <2>1, <2>2, <2>3 DEF Outcome
  <1>6. Progress(q)
    <2>1. CASE Begins(c, q)
      <3>1. q.setState # None
        BY <2>1, AuthAssumption DEF Begins, Logins, IndInv, TypeOK
      <3> QED BY <1>1, <1>2, <2>1, <3>1 DEF Begins, Progress, SameRequest, Unread
    <2>2. CASE Accepts(c, q)
      BY <1>1, <1>2, <1>4, <2>2, AuthAssumption DEF Accepts, Progress, SameRequest, Unread
    <2>3. CASE Issues(c, q)
      BY <1>1, <1>2, <2>3 DEF Issues, Progress, SameRequest
    <2>4. CASE Replies(c, q)
      BY <1>1, <1>2, <2>4, AuthAssumption DEF Replies, Progress, SameRequest, Unread
    <2> QED BY <2>1, <2>2, <2>3, <2>4 DEF Outcome
  <1>7. ASSUME NEW d \in DOMAIN calls, d # c
        PROVE  CallOwn(begun', idp'.granted, calls[d]) /\ Progress(calls[d])
    BY <1>7, CallTyped, OutcomeGrows, CallGrows DEF IndInv, CallInv
  <1> QED BY <1>5, <1>6, <1>7, OutcomeCalls DEF CallInv

(* Types that comparisons of logins need.                                  *)
LEMMA LoginTypes ==
    ASSUME IndInv
    PROVE  /\ Len(begun) \in Nat /\ None \notin Logins /\ Keep \notin Logins /\ Logins \subseteq Nat
           /\ \A c \in DOMAIN calls : /\ calls[c].browser \in Browsers
                                      /\ calls[c].state # None => calls[c].state \in Logins
                                      /\ IsLogin(calls[c].setState) => calls[c].setState \in Logins
           /\ \A b \in Browsers : jar[b].state # None => jar[b].state \in Logins
  <1>1. ASSUME NEW c \in DOMAIN calls
        PROVE  /\ calls[c].browser \in Browsers
               /\ calls[c].state # None => calls[c].state \in Logins
               /\ IsLogin(calls[c].setState) => calls[c].setState \in Logins
    BY CallTyped DEF IndInv, Call, IsLogin
  <1>2. ASSUME NEW b \in Browsers PROVE jar[b].state # None => jar[b].state \in Logins
    BY DEF IndInv, TypeOK, Jar
  <1> QED BY <1>1, <1>2, AuthAssumption DEF Logins, IndInv, TypeOK

(* No cookie is that of a login not begun yet.                             *)
LEMMA FreshLogin ==
    ASSUME IndInv, Len(begun) < MaxLogins
    PROVE  /\ \A c \in DOMAIN calls : /\ calls[c].state # Len(begun) + 1
                                      /\ calls[c].setState # Len(begun) + 1
           /\ \A b \in Browsers : jar[b].state # Len(begun) + 1
  <1>1. \A c \in DOMAIN calls : /\ calls[c].state # None => calls[c].state <= Len(begun)
                                /\ IsLogin(calls[c].setState) => calls[c].setState <= Len(begun)
    BY DEF IndInv, CallInv, CallOwn, Own, IsLogin
  <1>2. \A b \in Browsers : jar[b].state # None => jar[b].state <= Len(begun)
    BY DEF IndInv, JarInv, JarOwn, Own
  <1>3. Len(begun) \in Nat /\ Len(begun) + 1 \in Logins
    BY LoginTypes, AuthAssumption DEF Logins
  <1>4. Len(begun) + 1 # None /\ Len(begun) + 1 # Keep
    BY <1>3, AuthAssumption
  <1>5. ASSUME NEW c \in DOMAIN calls
        PROVE  calls[c].state # Len(begun) + 1 /\ calls[c].setState # Len(begun) + 1
    BY <1>1, <1>3, <1>4 DEF IsLogin
  <1>6. ASSUME NEW b \in Browsers PROVE jar[b].state # Len(begun) + 1
    BY <1>2, <1>3, <1>4
  <1> QED BY <1>5, <1>6

(* What the other parts of the invariant see of a handler's step.          *)
LEMMA OutcomeView ==
    ASSUME IndInv, NEW c \in DOMAIN calls, NEW q, Outcome(c, q)
    PROVE  /\ DOMAIN calls' = DOMAIN calls /\ jar' = jar
           /\ \A d \in DOMAIN calls : /\ SameRequest(calls'[d], calls[d])
                                      /\ calls[d].pc = "over" => calls'[d] = calls[d]
                                      /\ calls'[d].pc = "over" => calls'[d] = calls[d]
           /\ \A d \in DOMAIN calls : IsLogin(calls'[d].setState) =>
                  \/ calls'[d] = calls[d]
                  \/ d = c /\ Len(begun) < MaxLogins /\ calls'[d].setState = Len(begun) + 1
  <1>1. /\ DOMAIN calls' = DOMAIN calls /\ calls'[c] = q
        /\ \A d \in DOMAIN calls : d # c => calls'[d] = calls[d]
    BY OutcomeCalls
  <1>2. jar' = jar /\ SameRequest(q, calls[c]) /\ calls[c].pc # "over" /\ q.pc # "over"
    BY DEF Outcome, Handled
  <1>3. \A d \in DOMAIN calls : SameRequest(calls[d], calls[d])
    BY DEF SameRequest
  <1>4. calls[c].setState = Keep
    BY DEF Outcome, Handled, IndInv, CallInv, Progress
  <1>5. IsLogin(q.setState) => Len(begun) < MaxLogins /\ q.setState = Len(begun) + 1
    BY <1>4 DEF Outcome, Begins, Accepts, Issues, Replies, IsLogin
  <1> QED BY <1>1, <1>2, <1>3, <1>5

(* Only handleLogin sets the cookie of a login, and of a new one.          *)
LEMMA OutcomeSetters ==
    ASSUME IndInv, NEW c \in DOMAIN calls, NEW q, Outcome(c, q)
    PROVE  OneSetter' /\ SetBefore'
  <1>1. /\ DOMAIN calls' = DOMAIN calls /\ jar' = jar
        /\ \A d \in DOMAIN calls : /\ calls'[d].state = calls[d].state
                                   /\ calls[d].pc = "over" => calls'[d] = calls[d]
        /\ \A d \in DOMAIN calls : IsLogin(calls'[d].setState) =>
               \/ calls'[d] = calls[d]
               \/ d = c /\ Len(begun) < MaxLogins /\ calls'[d].setState = Len(begun) + 1
    BY OutcomeView DEF SameRequest
  <1>2. OneSetter'
    <2>1. ASSUME NEW d \in DOMAIN calls, NEW e \in DOMAIN calls, IsLogin(calls'[d].setState),
                 calls'[d].setState = calls'[e].setState
          PROVE  d = e
      <3>1. CASE calls'[d] = calls[d] /\ calls'[e] = calls[e]
        BY <2>1, <3>1 DEF IndInv, OneSetter
      <3>2. CASE calls'[d] = calls[d] /\ e = c /\ Len(begun) < MaxLogins /\ calls'[e].setState = Len(begun) + 1
        BY <2>1, <3>2, FreshLogin
      <3>3. CASE calls'[e] = calls[e] /\ d = c /\ Len(begun) < MaxLogins /\ calls'[d].setState = Len(begun) + 1
        BY <2>1, <3>3, FreshLogin
      <3> QED BY <1>1, <2>1, <3>1, <3>2, <3>3
    <2> QED BY <1>1, <2>1 DEF OneSetter
  <1>3. SetBefore'
    <2>1. ASSUME NEW d \in DOMAIN calls, IsLogin(calls'[d].setState)
          PROVE  /\ \A b \in Browsers : jar[b].state = calls'[d].setState => calls'[d].pc = "over"
                 /\ \A e \in DOMAIN calls : calls[e].state = calls'[d].setState => calls'[d].pc = "over"
      <3>1. CASE calls'[d] = calls[d]
        BY <2>1, <3>1 DEF IndInv, SetBefore
      <3>2. CASE Len(begun) < MaxLogins /\ calls'[d].setState = Len(begun) + 1
        BY <3>2, FreshLogin
      <3> QED BY <1>1, <2>1, <3>1, <3>2
    <2> QED BY <1>1, <2>1 DEF SetBefore
  <1> QED BY <1>2, <1>3

(* No handler brings back a cookie that was taken away.                    *)
LEMMA OutcomeCleared ==
    ASSUME IndInv, NEW c \in DOMAIN calls, NEW q, Outcome(c, q)
    PROVE  Cleared' /\ AfterInv'
  <1>1. /\ DOMAIN calls' = DOMAIN calls /\ jar' = jar
        /\ \A d \in DOMAIN calls : /\ calls'[d].state = calls[d].state /\ calls'[d].after = calls[d].after
                                   /\ calls[d].pc = "over" => calls'[d] = calls[d]
                                   /\ calls'[d].pc = "over" => calls'[d] = calls[d]
    BY OutcomeView DEF SameRequest
  <1>2. Cleared'
    BY <1>1 DEF IndInv, Cleared
  <1>3. AfterInv'
    BY <1>1 DEF IndInv, AfterInv
  <1> QED BY <1>2, <1>3

(* A handler takes no cookie from a jar.                                   *)
LEMMA OutcomeKept ==
    ASSUME IndInv, NEW c \in DOMAIN calls, NEW q, Outcome(c, q)
    PROVE  Kept' /\ CameInv'
  <1>1. /\ DOMAIN calls' = DOMAIN calls /\ jar' = jar
        /\ \A d \in DOMAIN calls : /\ SameRequest(calls'[d], calls[d])
                                   /\ calls[d].pc = "over" => calls'[d] = calls[d]
                                   /\ calls'[d].pc = "over" => calls'[d] = calls[d]
    BY OutcomeView
  <1>2. \A e \in DOMAIN calls : \A b, l : Took(calls[e], b, l) => Took(calls'[e], b, l)
    BY <1>1 DEF Took
  <1>3. Kept'
    BY <1>1, <1>2 DEF IndInv, Kept
  <1>4. CameInv'
    <2> SUFFICES ASSUME NEW d \in DOMAIN calls, calls'[d].kind = "callback",
                        begun'[calls'[d].url.state] = calls'[d].browser,
                        NEW e \in calls'[d].after, calls'[e].setState = calls'[d].url.state
                 PROVE  Came(d)'
      BY <1>1 DEF CameInv
    <2>1. /\ calls[d].kind = "callback" /\ calls'[d].url = calls[d].url /\ calls'[d].browser = calls[d].browser
          /\ e \in calls[d].after /\ calls'[d].late = calls[d].late /\ calls'[d].state = calls[d].state
      BY <1>1 DEF SameRequest
    <2>2. calls'[e] = calls[e]
      BY <1>1, <2>1 DEF IndInv, AfterInv
    <2>3. begun[calls[d].url.state] = calls[d].browser
      <3>1. calls[d].url.state \in Logins /\ calls[d].url.state <= Len(begun)
        BY <2>1, CallTyped DEF IndInv, CallInv, CallOwn, Call
      <3>2. begun'[calls[d].url.state] = begun[calls[d].url.state]
        BY <3>1, OutcomeGrows DEF Grows, Logins
      <3> QED BY <2>1, <3>2
    <2>4. Came(d)
      BY <2>1, <2>2, <2>3 DEF IndInv, CameInv
    <2> QED BY <1>1, <1>2, <2>1, <2>4 DEF Came
  <1> QED BY <1>3, <1>4

(* and no session it was answered with becomes another.                    *)
LEMMA OutcomeBrought ==
    ASSUME IndInv, NEW c \in DOMAIN calls, NEW q, Outcome(c, q)
    PROVE  JarBrought' /\ CallBrought'
  <1>1. /\ DOMAIN calls' = DOMAIN calls /\ jar' = jar
        /\ \A d \in DOMAIN calls : /\ SameRequest(calls'[d], calls[d])
                                   /\ calls[d].pc = "over" => calls'[d] = calls[d]
    BY OutcomeView
  <1>2. \A d \in DOMAIN calls : \A b, s : Brought(calls[d], b, s) => Brought(calls'[d], b, s)
    BY <1>1 DEF Brought
  <1>3. JarBrought'
    BY <1>1, <1>2 DEF IndInv, JarBrought
  <1>4. \A d \in DOMAIN calls : /\ calls'[d].session = calls[d].session /\ calls'[d].after = calls[d].after
                                /\ calls'[d].browser = calls[d].browser
    BY <1>1 DEF SameRequest
  <1>5. \A d \in DOMAIN calls : \A e \in calls[d].after : e \in DOMAIN calls
    BY DEF IndInv, AfterInv
  <1>6. CallBrought'
    BY <1>1, <1>2, <1>4, <1>5 DEF IndInv, CallBrought
  <1> QED BY <1>3, <1>6

(* So a handler keeps the invariant.                                       *)
LEMMA OutcomeInv ==
    ASSUME IndInv, NEW c \in DOMAIN calls, NEW q, Outcome(c, q)
    PROVE  IndInv'
  <1>1. JarInv'
    <2>1. jar' = jar
      BY DEF Outcome, Handled
    <2>2. \A b \in Browsers : jar[b] \in Jar
      BY DEF IndInv, TypeOK
    <2>3. \A b \in Browsers : JarOwn(begun', idp'.granted, b, jar[b])
      BY <2>2, OutcomeGrows, JarGrows DEF IndInv, JarInv
    <2> QED BY <2>1, <2>3 DEF JarInv
  <1> QED BY <1>1, OutcomeType, OutcomeCallInv, OutcomeSetters, OutcomeCleared, OutcomeKept,
           OutcomeBrought DEF IndInv

-----------------------------------------------------------------------------
(* A request is sent.                                                      *)

Sent(b, kind, url, q) ==
    /\ q \in Call /\ calls' = Append(calls, q) /\ now' = now /\ jar' = jar /\ begun' = begun /\ idp' = idp
    /\ q.browser = b /\ q.kind = kind /\ q.url = url /\ q.pc = "sent"
    /\ q.state = (IF now <= jar[b].until THEN jar[b].state ELSE None)
    /\ q.session = None \/ q.session = jar[b].session
    /\ q.status = 0 /\ q.setState = Keep /\ q.setSession = Keep /\ q.passed = FALSE /\ q.served = FALSE
    /\ q.late <=> jar[b].state # None /\ now > jar[b].until
    /\ q.after = {c \in DOMAIN calls : calls[c].pc = "over"}

URL == [state: Logins \cup {None}, code: Logins \cup {None}]

(* A request carries the cookies its browser has and that have not expired. *)
LEMMA SendSent ==
    ASSUME IndInv, NEW b \in Browsers, NEW kind \in Kinds \cup {"callback"}, NEW url \in URL, Send(b, kind, url)
    PROVE  \E q : Sent(b, kind, url, q)
  <1> DEFINE state == IF now <= jar[b].until THEN jar[b].state ELSE None
             session == IF jar[b].session # None /\ now <= jar[b].session.expiry THEN jar[b].session ELSE None
             late == jar[b].state # None /\ now > jar[b].until
             after == {c \in DOMAIN calls : calls[c].pc = "over"}
             q == [browser |-> b, kind |-> kind, pc |-> "sent", url |-> url, state |-> state,
                   session |-> session, status |-> 0, setState |-> Keep, setSession |-> Keep,
                   passed |-> FALSE, served |-> FALSE, at |-> 0, late |-> late, after |-> after]
  <1>1. calls' = Append(calls, q) /\ now' = now /\ jar' = jar /\ begun' = begun /\ idp' = idp
    BY DEF Send
  <1>2. state \in Logins \cup {None} /\ session \in Session \cup {None}
    <2>1. jar[b].state \in Logins \cup {None} /\ jar[b].session \in Session \cup {None}
      BY DEF IndInv, TypeOK, Jar
    <2> QED BY <2>1
  <1>3. after \in SUBSET (1..MaxRequests)
    BY AuthAssumption DEF Send, IndInv, TypeOK
  <1>4. late \in BOOLEAN
    OBVIOUS
  <1>5. session = None \/ session = jar[b].session
    OBVIOUS
  <1>6. /\ q.browser = b /\ q.kind = kind /\ q.url = url /\ q.pc = "sent" /\ q.state = state
        /\ q.session = session /\ q.status = 0 /\ q.setState = Keep /\ q.setSession = Keep
        /\ q.passed = FALSE /\ q.served = FALSE /\ q.late = late /\ q.after = after
    OBVIOUS
  <1> HIDE DEF state, session, late, after
  <1>7. q \in Call
    BY <1>2, <1>3, <1>4 DEF Call, URL
  <1> HIDE DEF q
  <1>8. Sent(b, kind, url, q)
    BY <1>1, <1>5, <1>6, <1>7 DEF Sent, state, late, after
  <1> QED BY <1>8

(* Sending it keeps the invariant.                                         *)
LEMMA SentInv ==
    ASSUME IndInv, NEW b \in Browsers, NEW kind, NEW url \in URL, NEW q, Sent(b, kind, url, q),
           kind = "callback" => url.state # None /\ url.state <= Len(begun),
           url.code # None => idp.granted[url.code] # None
    PROVE  IndInv'
  <1>1. calls \in Seq(Call) /\ q \in Call /\ calls' = Append(calls, q)
    BY DEF IndInv, TypeOK, Sent
  <1>n. PICK n : n = Len(calls) + 1
    OBVIOUS
  <1>2. /\ calls' \in Seq(Call) /\ DOMAIN calls' = DOMAIN calls \cup {n} /\ n \notin DOMAIN calls
        /\ calls'[n] = q /\ \A c \in DOMAIN calls : calls'[c] = calls[c]
    BY <1>1, <1>n
  <1>3. now' = now /\ jar' = jar /\ begun' = begun /\ idp' = idp
    BY DEF Sent
  <1>4. TypeOK' /\ JarInv'
    BY <1>2, <1>3 DEF IndInv, TypeOK, JarInv
  <1>5. CallOwn(begun, idp.granted, q)
    <2>1. JarOwn(begun, idp.granted, b, jar[b])
      BY DEF IndInv, JarInv
    <2> QED BY <2>1 DEF JarOwn, CallOwn, Sent
  <1>6. Progress(q)
    BY AuthAssumption DEF Progress, Sent
  <1>7. CallInv'
    BY <1>2, <1>3, <1>5, <1>6 DEF IndInv, CallInv
  <1>8. ~IsLogin(q.setState) /\ ~q.passed /\ q.pc # "over"
    BY DEF IsLogin, Sent
  <1>9. OneSetter'
    BY <1>2, <1>8 DEF IndInv, OneSetter
  <1>10. SetBefore'
    <2>1. q.state = None \/ q.state = jar[b].state
      BY DEF Sent
    <2>2. ASSUME NEW c \in DOMAIN calls, IsLogin(calls[c].setState), q.state = calls[c].setState
          PROVE  calls[c].pc = "over"
      BY <2>1, <2>2 DEF IndInv, SetBefore, IsLogin
    <2> QED BY <1>2, <1>3, <1>8, <2>2 DEF IndInv, SetBefore
  <1>11. Cleared'
    BY <1>2, <1>3, <1>8 DEF IndInv, Cleared
  <1>12. AfterInv'
    <2>1. ASSUME NEW c \in q.after
          PROVE  c \in DOMAIN calls /\ calls[c].pc = "over" /\ (calls[c].passed => calls[c].state # q.state)
      <3>1. c \in DOMAIN calls /\ calls[c].pc = "over"
        BY DEF Sent
      <3>2. ASSUME calls[c].passed PROVE calls[c].state # q.state
        <4>1. calls[c].state # None /\ Own(begun, calls[c].browser, calls[c].state)
          BY <3>1, <3>2 DEF IndInv, CallInv, Progress, CallOwn
        <4>2. jar[calls[c].browser].state # calls[c].state
          BY <3>1, <3>2 DEF IndInv, Cleared
        <4>3. q.state # None => q.state = jar[b].state /\ Own(begun, b, q.state)
          BY <1>5 DEF Sent, CallOwn
        <4> QED BY <4>1, <4>2, <4>3 DEF Own
      <3> QED BY <3>1, <3>2
    <2> QED BY <1>2, <2>1 DEF IndInv, AfterInv
  <1>13. Kept'
    BY <1>2, <1>3, <1>8 DEF IndInv, Kept
  <1>14. CameInv'
    <2>1. ASSUME NEW c \in DOMAIN calls, Came(c) PROVE Came(c)'
      BY <1>2, <2>1 DEF Came
    <2>2. ASSUME NEW c \in DOMAIN calls
          PROVE \A d \in calls[c].after : d \in DOMAIN calls
      BY DEF IndInv, AfterInv
    <2>3. ASSUME q.kind = "callback", begun[q.url.state] = q.browser,
                 NEW d \in q.after, calls[d].setState = q.url.state
          PROVE  Came(n)'
      <3>1. d \in DOMAIN calls /\ calls[d].pc = "over" /\ q.browser = b /\ q.url = url
        BY DEF Sent
      <3>2. url.state \in Logins
        BY <2>3 DEF Sent, URL
      <3>3. IsLogin(calls[d].setState) /\ Own(begun, calls[d].browser, calls[d].setState)
        BY <2>3, <3>1, <3>2, AuthAssumption DEF IsLogin, IndInv, CallInv, CallOwn
      <3>4. calls[d].browser = b
        BY <2>3, <3>1, <3>3 DEF Own
      <3>5. CASE jar[b].state = url.state
        <4>1. q.late \/ q.state = url.state
          <5>1. now \in Nat /\ jar[b].until \in Nat /\ url.state # None
            BY <3>2, AuthAssumption DEF IndInv, TypeOK, Jar
          <5> QED BY <3>5, <5>1 DEF Sent
        <4> QED BY <1>2, <3>1, <4>1 DEF Came
      <3>6. CASE \E e \in DOMAIN calls : Took(calls[e], b, url.state)
        BY <1>2, <3>1, <3>6 DEF Came
      <3> QED BY <2>3, <3>1, <3>3, <3>4, <3>5, <3>6 DEF IndInv, Kept
    <2>4. \A d \in q.after : d \in DOMAIN calls
      BY DEF Sent
    <2>5. ASSUME NEW c \in DOMAIN calls', calls'[c].kind = "callback",
                 begun[calls'[c].url.state] = calls'[c].browser,
                 NEW d \in calls'[c].after, calls'[d].setState = calls'[c].url.state
          PROVE  Came(c)'
      <3>1. CASE c \in DOMAIN calls
        <4>1. calls'[c] = calls[c] /\ calls'[d] = calls[d]
          BY <1>2, <2>2, <2>5, <3>1
        <4>2. Came(c)
          BY <2>5, <3>1, <4>1 DEF IndInv, CameInv
        <4> QED BY <2>1, <3>1, <4>2
      <3>2. CASE c = n
        <4>1. calls'[c] = q /\ calls'[d] = calls[d]
          BY <1>2, <2>4, <2>5, <3>2
        <4> QED BY <2>3, <2>5, <3>2, <4>1
      <3> QED BY <1>2, <3>1, <3>2
    <2> QED BY <1>3, <2>5 DEF CameInv
  <1>15. JarBrought'
    BY <1>2, <1>3 DEF IndInv, JarBrought
  <1>16. CallBrought'
    <2>1. \A c \in DOMAIN calls : \A d \in calls[c].after : d \in DOMAIN calls
      BY DEF IndInv, AfterInv
    <2>2. ASSUME q.session # None PROVE \E d \in q.after : Brought(calls[d], q.browser, q.session)
      <3>1. q.session = jar[b].session /\ q.browser = b
        BY <2>2 DEF Sent
      <3>2. PICK d \in DOMAIN calls : Brought(calls[d], b, jar[b].session)
        BY <2>2, <3>1 DEF IndInv, JarBrought
      <3>3. d \in q.after
        BY <3>2 DEF Sent, Brought
      <3> QED BY <3>1, <3>2, <3>3
    <2>3. \A d \in q.after : d \in DOMAIN calls
      BY DEF Sent
    <2> QED BY <1>2, <2>1, <2>2, <2>3 DEF IndInv, CallBrought
  <1> QED BY <1>4, <1>7, <1>9, <1>10, <1>11, <1>12, <1>13, <1>14, <1>15, <1>16 DEF IndInv

-----------------------------------------------------------------------------
(* An answer arrives: j is the jar it leaves.                              *)
LEMMA ArriveInv ==
    ASSUME IndInv, NEW c \in DOMAIN calls, Arrive(c)
    PROVE  IndInv'
  <1> DEFINE a == calls[c]
             q == [a EXCEPT !.pc = "over"]
             j == [state   |-> IF a.setState = Keep THEN jar[a.browser].state ELSE a.setState,
                   until   |-> IF a.setState = Keep THEN jar[a.browser].until ELSE now + LoginStateLifetime,
                   session |-> IF a.setSession = Keep THEN jar[a.browser].session ELSE a.setSession]
  <1>1. a \in Call /\ a.pc = "answered" /\ a.browser \in Browsers
    BY CallTyped DEF IndInv, Arrive, Call
  <1>2. /\ q \in Call /\ SameRequest(q, a) /\ q.passed = a.passed /\ q.served = a.served /\ q.at = a.at
        /\ q.pc = "over" /\ q.status = a.status /\ q.setState = a.setState /\ q.setSession = a.setSession
    BY <1>1, OverFields
  <1>3. calls' = [calls EXCEPT ![c] = q] /\ jar' = [jar EXCEPT ![a.browser] = j]
    BY Zenon DEF Arrive
  <1>4. now' = now /\ begun' = begun /\ idp' = idp
    BY DEF Arrive
  <1>5. j \in Jar
    <2>1. /\ jar[a.browser].state \in Logins \cup {None} /\ jar[a.browser].until \in Nat
          /\ jar[a.browser].session \in Session \cup {None}
      BY <1>1 DEF IndInv, TypeOK, Jar
    <2>2. a.setState \in Logins \cup {None, Keep} /\ a.setSession \in Session \cup {None, Keep}
      BY <1>1 DEF Call
    <2>3. now + LoginStateLifetime \in Nat
      BY AuthAssumption DEF IndInv, TypeOK
    <2> QED BY <2>1, <2>2, <2>3 DEF Jar
  <1>6. /\ j.state = (IF a.setState = Keep THEN jar[a.browser].state ELSE a.setState)
        /\ j.session = (IF a.setSession = Keep THEN jar[a.browser].session ELSE a.setSession)
    OBVIOUS
  <1>7. CallOwn(begun, idp.granted, a) /\ Progress(a)
    BY DEF IndInv, CallInv
  <1> HIDE DEF q, j
  <1>8. /\ calls' \in Seq(Call) /\ DOMAIN calls' = DOMAIN calls /\ calls'[c] = q
        /\ \A d \in DOMAIN calls : d # c => calls'[d] = calls[d]
    BY <1>2, <1>3 DEF IndInv, TypeOK
  <1>9. /\ jar' \in [Browsers -> Jar] /\ jar'[a.browser] = j
        /\ \A b \in Browsers : b # a.browser => jar'[b] = jar[b]
    BY <1>1, <1>3, <1>5 DEF IndInv, TypeOK
  <1>10. TypeOK'
    BY <1>4, <1>8, <1>9 DEF IndInv, TypeOK
  <1>11. JarInv'
    <2>1. JarOwn(begun, idp.granted, a.browser, jar[a.browser])
      BY <1>1 DEF IndInv, JarInv
    <2>2. JarOwn(begun, idp.granted, a.browser, j)
      BY <1>6, <1>7, <2>1 DEF JarOwn, CallOwn
    <2> QED BY <1>4, <1>9, <2>2 DEF IndInv, JarInv
  <1>12. CallInv'
    <2>1. CallOwn(begun, idp.granted, q)
      BY <1>2, <1>7 DEF CallOwn, SameRequest
    <2>2. Progress(q)
      BY <1>1, <1>2, <1>7 DEF Progress, SameRequest
    <2> QED BY <1>4, <1>8, <2>1, <2>2 DEF IndInv, CallInv
  <1>13. \A d \in DOMAIN calls : /\ SameRequest(calls'[d], calls[d]) /\ calls'[d].setState = calls[d].setState
                                 /\ calls'[d].passed = calls[d].passed
                                 /\ calls'[d].pc = "over" <=> calls[d].pc = "over" \/ d = c
    BY <1>1, <1>2, <1>8 DEF SameRequest
  <1>14. \A d \in DOMAIN calls : /\ calls'[d].state = calls[d].state /\ calls'[d].browser = calls[d].browser
                                 /\ calls'[d].after = calls[d].after /\ calls'[d].kind = calls[d].kind
                                 /\ calls'[d].url = calls[d].url /\ calls'[d].late = calls[d].late
    BY <1>13 DEF SameRequest
  <1>15. OneSetter'
    BY <1>8, <1>13 DEF IndInv, OneSetter
  <1>16. \A b \in Browsers : \/ jar'[b].state = jar[b].state
                             \/ b = a.browser /\ a.setState # Keep /\ jar'[b].state = a.setState
    BY <1>6, <1>9
  <1>17. SetBefore'
    <2>1. ASSUME NEW d \in DOMAIN calls, IsLogin(calls[d].setState), NEW b \in Browsers,
                 jar'[b].state = calls[d].setState
          PROVE  calls[d].pc = "over" \/ d = c
      BY <1>16, <2>1 DEF IndInv, SetBefore, OneSetter
    <2> QED BY <1>8, <1>13, <1>14, <2>1 DEF IndInv, SetBefore
  <1>18. Cleared'
    <2>1. ASSUME NEW d \in DOMAIN calls, calls[d].passed, calls[d].pc = "over" \/ d = c
          PROVE  jar'[calls[d].browser].state # calls[d].state
      <3>1. calls[d].state # None /\ calls[d].browser \in Browsers /\ calls[d].state # Keep
        BY <2>1, LoginTypes DEF IndInv, CallInv, Progress
      <3>2. CASE d = c
        <4>1. a.setState = None
          BY <1>1, <1>7, <2>1, <3>2 DEF Progress
        <4>2. jar'[a.browser].state = None
          BY <1>6, <1>9, <4>1, AuthAssumption
        <4> QED BY <3>1, <3>2, <4>2
      <3>3. CASE calls[d].pc = "over"
        <4>1. jar[calls[d].browser].state # calls[d].state
          BY <2>1, <3>3 DEF IndInv, Cleared
        <4>2. a.setState # calls[d].state
          BY <1>1, <3>1 DEF IndInv, SetBefore, IsLogin
        <4> QED BY <1>16, <3>1, <4>1, <4>2
      <3> QED BY <2>1, <3>2, <3>3
    <2> QED BY <1>8, <1>13, <1>14, <2>1 DEF Cleared
  <1>19. AfterInv'
    BY <1>8, <1>13, <1>14 DEF IndInv, AfterInv
  <1>20. \A e \in DOMAIN calls : \A b, l : Took(calls[e], b, l) => Took(calls'[e], b, l)
    BY <1>13, <1>14 DEF Took
  <1>21. Kept'
    <2>1. ASSUME NEW d \in DOMAIN calls, calls[d].pc = "over" \/ d = c, IsLogin(calls[d].setState)
          PROVE  \/ jar'[calls[d].browser].state = calls[d].setState
                 \/ \E e \in DOMAIN calls : Took(calls'[e], calls[d].browser, calls[d].setState)
      <3>1. CASE d = c
        BY <1>6, <1>9, <2>1, <3>1 DEF IsLogin
      <3>2. CASE calls[d].pc = "over" /\ jar[calls[d].browser].state = calls[d].setState
        <4>1. CASE jar'[calls[d].browser].state = jar[calls[d].browser].state
          BY <3>2, <4>1
        <4>2. CASE calls[d].browser = a.browser /\ a.setState # Keep /\ a.setState # calls[d].setState
          <5>1. a.setState = None => a.kind = "callback"
            BY <1>7 DEF Progress
          <5>2. Took(calls'[c], calls[d].browser, calls[d].setState)
            BY <1>13, <1>14, <4>2, <5>1 DEF Took
          <5> QED BY <5>2
        <4>3. calls[d].browser \in Browsers
          BY LoginTypes
        <4> QED BY <1>16, <3>2, <4>1, <4>2, <4>3
      <3>3. CASE \E e \in DOMAIN calls : Took(calls[e], calls[d].browser, calls[d].setState)
        BY <1>20, <3>3
      <3> QED BY <2>1, <3>1, <3>2, <3>3 DEF IndInv, Kept
    <2> QED BY <1>8, <1>13, <1>14, <2>1 DEF Kept
  <1>22. CameInv'
    <2>1. \A d \in DOMAIN calls : \A e \in calls[d].after : e \in DOMAIN calls
      BY DEF IndInv, AfterInv
    <2>2. ASSUME NEW d \in DOMAIN calls, Came(d) PROVE Came(d)'
      BY <1>8, <1>14, <1>20, <2>2 DEF Came
    <2>3. ASSUME NEW d \in DOMAIN calls, calls[d].kind = "callback",
                 begun[calls[d].url.state] = calls[d].browser,
                 NEW e \in calls[d].after, calls'[e].setState = calls[d].url.state
          PROVE  Came(d)'
      BY <1>13, <2>1, <2>2, <2>3 DEF IndInv, CameInv
    <2> QED BY <1>4, <1>8, <1>14, <2>3 DEF CameInv
  <1>23. \A d \in DOMAIN calls : \A b, s : Brought(calls[d], b, s) => Brought(calls'[d], b, s)
    <2>1. \A d \in DOMAIN calls : calls'[d].setSession = calls[d].setSession
      BY <1>2, <1>8
    <2> QED BY <1>13, <1>14, <2>1 DEF Brought
  <1>24. JarBrought'
    <2>1. ASSUME NEW b \in Browsers, jar'[b].session # None
          PROVE  \E d \in DOMAIN calls : Brought(calls'[d], b, jar'[b].session)
      <3>1. CASE b = a.browser /\ a.setSession # Keep
        <4>1. jar'[b].session = a.setSession
          BY <1>6, <1>9, <3>1
        <4>2. Brought(calls'[c], b, jar'[b].session)
          BY <1>1, <1>2, <1>8, <3>1, <4>1 DEF Brought, SameRequest
        <4> QED BY <4>2
      <3>2. CASE b # a.browser \/ a.setSession = Keep
        <4>1. jar'[b].session = jar[b].session
          BY <1>6, <1>9, <3>2
        <4>2. PICK d \in DOMAIN calls : Brought(calls[d], b, jar[b].session)
          BY <2>1, <4>1 DEF IndInv, JarBrought
        <4> QED BY <1>23, <4>1, <4>2
      <3> QED BY <3>1, <3>2
    <2> QED BY <1>8, <2>1 DEF JarBrought
  <1>25. CallBrought'
    <2>1. \A d \in DOMAIN calls : \A e \in calls[d].after : e \in DOMAIN calls
      BY DEF IndInv, AfterInv
    <2>2. \A d \in DOMAIN calls : calls'[d].session = calls[d].session
      BY <1>13 DEF SameRequest
    <2> QED BY <1>8, <1>14, <1>23, <2>1, <2>2 DEF IndInv, CallBrought
  <1> QED BY <1>10, <1>11, <1>12, <1>15, <1>17, <1>18, <1>19, <1>21, <1>22, <1>24, <1>25 DEF IndInv

(* The clock and the provider: browsers and requests are left alone.       *)
LEMMA OutsideInv ==
    ASSUME IndInv, Tick \/ \E l \in Logins, u \in Users : SignIn(l, u)
    PROVE  IndInv'
  <1>1. jar' = jar /\ calls' = calls /\ begun' = begun
    BY DEF Tick, SignIn
  <1>2. now' \in 0..MaxTime
    BY AuthAssumption DEF Tick, SignIn, IndInv, TypeOK
  <1>3. /\ idp' \in [granted: [Logins -> Users \cup {None}], redeemed: SUBSET Logins]
        /\ \A l \in Logins : idp.granted[l] # None => idp'.granted[l] = idp.granted[l]
    BY DEF Tick, SignIn, IndInv, TypeOK
  <1>4. TypeOK'
    BY <1>1, <1>2, <1>3 DEF IndInv, TypeOK
  <1>5. Grows(begun, idp.granted, begun, idp'.granted)
    BY <1>3 DEF Grows, IndInv, TypeOK
  <1>6. ASSUME NEW b \in Browsers PROVE JarOwn(begun, idp'.granted, b, jar[b])
    <2>1. jar[b] \in Jar /\ JarOwn(begun, idp.granted, b, jar[b])
      BY DEF IndInv, TypeOK, JarInv
    <2> QED BY <1>5, <2>1, JarGrows
  <1>7. ASSUME NEW c \in DOMAIN calls PROVE CallOwn(begun, idp'.granted, calls[c]) /\ Progress(calls[c])
    <2>1. calls[c] \in Call /\ CallOwn(begun, idp.granted, calls[c]) /\ Progress(calls[c])
      BY CallTyped DEF IndInv, CallInv
    <2> QED BY <1>5, <2>1, CallGrows
  <1>8. JarInv' /\ CallInv'
    BY <1>1, <1>6, <1>7 DEF JarInv, CallInv
  <1>9. /\ OneSetter' /\ SetBefore' /\ Cleared' /\ AfterInv' /\ Kept' /\ CameInv'
        /\ JarBrought' /\ CallBrought'
    BY <1>1 DEF IndInv, OneSetter, SetBefore, Cleared, AfterInv, Kept, CameInv, Came, JarBrought, CallBrought
  <1> QED BY <1>4, <1>8, <1>9 DEF IndInv

-----------------------------------------------------------------------------
(* No cookie and no request at first.                                      *)
LEMMA InitInv == Init => IndInv
  <1> SUFFICES ASSUME Init PROVE IndInv
    OBVIOUS
  <1>1. TypeOK
    BY AuthAssumption DEF Init, TypeOK, Jar
  <1>2. JarInv
    BY DEF Init, JarInv, JarOwn
  <1>3. DOMAIN calls = {}
    BY DEF Init
  <1>4. JarBrought
    BY DEF Init, JarBrought
  <1> QED BY <1>1, <1>2, <1>3, <1>4
          DEF IndInv, CallInv, OneSetter, SetBefore, Cleared, AfterInv, Kept, CameInv, CallBrought

(* Every step keeps the invariant.                                         *)
LEMMA NextInv == IndInv /\ [Next]_vars => IndInv'
  <1> SUFFICES ASSUME IndInv, [Next]_vars PROVE IndInv'
    OBVIOUS
  <1>1. CASE UNCHANGED vars
    BY <1>1 DEF vars, IndInv, TypeOK, JarInv, CallInv, OneSetter, SetBefore, Cleared, AfterInv, Kept, CameInv,
                Came, JarBrought, CallBrought
  <1>2. CASE Tick \/ \E l \in Logins, u \in Users : SignIn(l, u)
    BY <1>2, OutsideInv
  <1>3. ASSUME NEW b \in Browsers, NEW kind \in Kinds, Visit(b, kind) PROVE IndInv'
    <2>1. NoURL \in URL /\ NoURL.code = None /\ kind # "callback" /\ kind \in Kinds \cup {"callback"}
      BY DEF NoURL, URL, Kinds
    <2>2. \E q : Sent(b, kind, NoURL, q)
      BY <1>3, <2>1, SendSent DEF Visit
    <2> QED BY <2>1, <2>2, SentInv
  <1>4. ASSUME NEW b \in Browsers, NEW s \in Logins, NEW code \in Logins \cup {None}, OpenCallback(b, s, code)
        PROVE  IndInv'
    <2> DEFINE url == [state |-> s, code |-> code]
    <2>1. url \in URL /\ url.state = s /\ url.code = code /\ s # None
      BY AuthAssumption DEF URL
    <2>2. s <= Len(begun) /\ (code # None => idp.granted[code] # None) /\ Send(b, "callback", url)
      BY <1>4 DEF OpenCallback
    <2> HIDE DEF url
    <2>3. \E q : Sent(b, "callback", url, q)
      BY <2>1, <2>2, SendSent
    <2> QED BY <2>1, <2>2, <2>3, SentInv
  <1>5. ASSUME NEW c \in DOMAIN calls, Handle(c) PROVE IndInv'
    BY <1>5, HandleOutcome, OutcomeInv
  <1>6. ASSUME NEW c \in DOMAIN calls, Arrive(c) PROVE IndInv'
    BY <1>6, ArriveInv
  <1> QED BY <1>1, <1>2, <1>3, <1>4, <1>5, <1>6 DEF Next

(* The invariant holds in every behaviour, however requests and answers    *)
(* cross.                                                                  *)
THEOREM Invariance == Spec => []IndInv
  BY InitInv, NextInv, PTL DEF Spec

(* Whatever callback URLs are opened, in whichever browser: a session is   *)
(* that of a login the browser began (middleware.go:192-266).              *)
THEOREM SessionsOwn == Spec => []SessionIsOwn
  <1>1. IndInv => SessionIsOwn
    BY DEF IndInv, JarInv, JarOwn, OwnSession, Own, SessionIsOwn
  <1> QED BY <1>1, Invariance, PTL

(* A request is served only on a session its browser was answered with by  *)
(* a callback, within SessionLifetime of it (middleware.go:245-266,        *)
(* session.go:119-128).                                                    *)
THEOREM ExpiryKept == Spec => []ServedInTime
  <1>1. IndInv => ServedInTime
    <2> SUFFICES ASSUME IndInv, NEW c \in DOMAIN calls, calls[c].served
                 PROVE  \E d \in calls[c].after :
                            /\ calls[d].kind = "callback" /\ calls[d].browser = calls[c].browser
                            /\ calls[d].setSession = calls[c].session
                            /\ calls[c].at <= calls[d].at + SessionLifetime
      BY DEF ServedInTime
    <2>1. calls[c].session # None /\ calls[c].at <= calls[c].session.expiry
      BY DEF IndInv, CallInv, Progress
    <2>2. PICK d \in calls[c].after : Brought(calls[d], calls[c].browser, calls[c].session)
      BY <2>1 DEF IndInv, CallBrought
    <2>3. d \in DOMAIN calls
      BY DEF IndInv, AfterInv
    <2>4. calls[d].setSession = calls[c].session /\ calls[d].setSession \notin {None, Keep}
      BY <2>1, <2>2 DEF Brought
    <2>5. calls[d].kind = "callback" /\ calls[d].setSession.expiry = calls[d].at + SessionLifetime
      BY <2>3, <2>4 DEF IndInv, CallInv, Progress
    <2> QED BY <2>1, <2>2, <2>4, <2>5 DEF Brought
  <1> QED BY <1>1, Invariance, PTL

(* A state that was accepted is never accepted again once the answer has   *)
(* cleared the cookie (middleware.go:194-196).                             *)
THEOREM SingleUse == Spec => []StateSingleUse
  <1>1. IndInv => StateSingleUse
    BY DEF IndInv, AfterInv, StateSingleUse
  <1> QED BY <1>1, Invariance, PTL

(* A login is refused only when another request of the browser took its    *)
(* state cookie, it expired, or it had not come yet (middleware.go:193).   *)
THEOREM RefusalsExplained == Spec => []RefusedForAReason
  <1>1. IndInv => RefusedForAReason
    <2> SUFFICES ASSUME IndInv, NEW c \in DOMAIN calls, calls[c].kind = "callback", calls[c].status = 400,
                        begun[calls[c].url.state] = calls[c].browser, calls[c].url.code = calls[c].url.state,
                        NEW d \in calls[c].after, calls[d].setState = calls[c].url.state, ~calls[c].late
                 PROVE  \E e \in DOMAIN calls : Disturbs(c, e)
      BY DEF RefusedForAReason
    <2>1. Came(c)
      BY DEF IndInv, CameInv
    <2>2. calls[c].url.state # None
      BY DEF IndInv, CallInv, CallOwn
    <2>3. calls[c].state # calls[c].url.state
      BY <2>2 DEF IndInv, CallInv, Progress
    <2>4. PICK e \in DOMAIN calls : e # c /\ Took(calls[e], calls[c].browser, calls[c].url.state)
      BY <2>1, <2>3 DEF Came
    <2>5. Disturbs(c, e)
      BY <2>4 DEF Took, Disturbs
    <2> QED BY <2>5
  <1> QED BY <1>1, Invariance, PTL
=============================================================================
