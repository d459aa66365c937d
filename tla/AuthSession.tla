---------------------------- MODULE AuthSession ----------------------------
(***************************************************************************)
(* Single sign-on: the handlers of src/auth/middleware.go, the two cookies *)
(* of src/auth/session.go, the browsers that hold them and the identity    *)
(* provider.  The server keeps no state: what it knows of a browser is in  *)
(* the cookies a request carries.                                          *)
(*                                                                         *)
(* Requests and their answers travel independently: a request carries the  *)
(* cookies the browser had when it was sent, and an answer's Set-Cookie    *)
(* headers take effect when it arrives.  A login stands for the random     *)
(* state and nonce handleLogin makes for it.  Cookies are authenticated    *)
(* (AES-GCM), so a request carries what a handler once set, or nothing.    *)
(***************************************************************************)
EXTENDS Naturals, Sequences, FiniteSets

CONSTANTS
    Browsers, Users,
    MaxLogins,           \* bound on the logins begun
    MaxRequests,         \* bound on the requests sent
    MaxTime,             \* bound on the clock
    SessionLifetime,     \* 24 hours
    LoginStateLifetime,  \* 10 minutes, kept by the browser alone
    None,
    Keep                 \* an answer that leaves a cookie alone

Logins == 1..MaxLogins

ASSUME AuthAssumption ==
    /\ MaxLogins \in Nat /\ MaxRequests \in Nat /\ MaxTime \in Nat
    /\ SessionLifetime \in Nat /\ LoginStateLifetime \in Nat
    /\ None \notin Logins \cup Users /\ Keep \notin Logins /\ None # Keep

VARIABLES
    now,    \* the clock
    jar,    \* the cookies of each browser
    calls,  \* requests sent, with their answers
    begun,  \* history: the browser each login was begun by, in order
    idp     \* the provider: who signed in for a login, and the codes redeemed

vars == <<now, jar, calls, begun, idp>>

(* login: history, the login a session was issued for.                     *)
Session == [user: Users, login: Logins, expiry: Nat]

Jar == [state: Logins \cup {None}, until: Nat, session: Session \cup {None}]

Kinds == {"login", "logout", "page", "api", "me"}

(* url: the state and code of a callback.  set: what the answer makes of   *)
(* the two cookies.  passed: the callback's state was accepted.  served: a *)
(* session was found.  at: history, the clock when the handler looked for  *)
(* the session or issued one.  after: the calls whose answers had arrived  *)
(* when this one was sent; late: the state cookie had expired by then.     *)
Call ==
    [browser: Browsers, kind: Kinds \cup {"callback"}, pc: {"sent", "exchange", "answered", "over"},
     state: Logins \cup {None}, session: Session \cup {None},
     url: [state: Logins \cup {None}, code: Logins \cup {None}],
     status: {0, 200, 302, 400, 401, 500}, setState: Logins \cup {None, Keep},
     setSession: Session \cup {None, Keep}, passed: BOOLEAN, served: BOOLEAN,
     at: Nat, late: BOOLEAN, after: SUBSET (1..MaxRequests)]

TypeOK ==
    /\ now \in 0..MaxTime /\ jar \in [Browsers -> Jar] /\ calls \in Seq(Call)
    /\ begun \in Seq(Browsers) /\ Len(begun) <= MaxLogins
    /\ idp \in [granted: [Logins -> Users \cup {None}], redeemed: SUBSET Logins]

Init ==
    /\ now = 0 /\ calls = <<>> /\ begun = <<>>
    /\ jar = [b \in Browsers |-> [state |-> None, until |-> 0, session |-> None]]
    /\ idp = [granted |-> [l \in Logins |-> None], redeemed |-> {}]

Tick == now < MaxTime /\ now' = now + 1 /\ UNCHANGED <<jar, calls, begun, idp>>

-----------------------------------------------------------------------------
(* Browsers.  A cookie past its time is not sent.                          *)

Send(b, kind, url) ==
    /\ Len(calls) < MaxRequests
    /\ calls' = Append(calls,
          [browser |-> b, kind |-> kind, pc |-> "sent", url |-> url,
           state |-> IF now <= jar[b].until THEN jar[b].state ELSE None,
           session |-> IF jar[b].session # None /\ now <= jar[b].session.expiry THEN jar[b].session ELSE None,
           status |-> 0, setState |-> Keep, setSession |-> Keep, passed |-> FALSE, served |-> FALSE,
           at |-> 0, late |-> jar[b].state # None /\ now > jar[b].until,
           after |-> {c \in DOMAIN calls : calls[c].pc = "over"}])
    /\ UNCHANGED <<now, jar, begun, idp>>

NoURL == [state |-> None, code |-> None]

Visit(b, kind) == Send(b, kind, NoURL)

(* A callback URL is opened: after signing in, from the history, from a    *)
(* link; in the browser that began the login or in another one.  Code None *)
(* is the provider's error redirect.                                       *)
OpenCallback(b, s, code) ==
    /\ s <= Len(begun)
    /\ code # None => idp.granted[code] # None
    /\ Send(b, "callback", [state |-> s, code |-> code])

(* The user signs in at the provider.                                      *)
SignIn(l, u) ==
    /\ l <= Len(begun) /\ idp.granted[l] = None
    /\ idp' = [idp EXCEPT !.granted[l] = u]
    /\ UNCHANGED <<now, jar, calls, begun>>

(* An answer arrives and its cookies are set or cleared.                   *)
Arrive(c) ==
    /\ calls[c].pc = "answered"
    /\ LET a == calls[c] IN
       jar' = [jar EXCEPT ![a.browser] =
                  [state   |-> IF a.setState = Keep THEN @.state ELSE a.setState,
                   until   |-> IF a.setState = Keep THEN @.until ELSE now + LoginStateLifetime,
                   session |-> IF a.setSession = Keep THEN @.session ELSE a.setSession]]
    /\ calls' = [calls EXCEPT ![c].pc = "over"]
    /\ UNCHANGED <<now, begun, idp>>

-----------------------------------------------------------------------------
(* Handlers.                                                               *)

Answer(c, status, setState, setSession) ==
    calls' = [calls EXCEPT ![c] = [@ EXCEPT !.pc = "answered", !.status = status,
                                            !.setState = setState, !.setSession = setSession]]

HandleLogin(c) ==
    /\ calls[c].pc = "sent" /\ calls[c].kind = "login" /\ Len(begun) < MaxLogins
    /\ begun' = Append(begun, calls[c].browser)
    /\ Answer(c, 302, Len(begun) + 1, Keep)
    /\ UNCHANGED <<now, jar, idp>>

(* No randomness, or the cookie cannot be encoded.                         *)
HandleLoginFails(c) ==
    /\ calls[c].pc = "sent" /\ calls[c].kind = "login"
    /\ Answer(c, 500, Keep, Keep)
    /\ UNCHANGED <<now, jar, begun, idp>>

(* The cookie is cleared only by the answer that refuses (mutation).       *)
ClearsStateIfRefused(refused) == IF refused THEN None ELSE Keep

(* The state cookie is cleared however the callback turns out.             *)
ClearsState(refused) == None

(* Looks for the state cookie under another name (mutation).               *)
LoginStateMisnamed(call) == None

LoginStateFromRequest(call) == call.state

(* The first half of handleCallback, up to the code exchange.              *)
HandleCallback(c) ==
    /\ calls[c].pc = "sent" /\ calls[c].kind = "callback"
    /\ LET ls == LoginStateFromRequest(calls[c])
       IN  IF ls = None \/ ls # calls[c].url.state \/ calls[c].url.code = None
           THEN Answer(c, 400, ClearsState(TRUE), Keep)
           ELSE calls' = [calls EXCEPT ![c].pc = "exchange", ![c].passed = TRUE]
    /\ UNCHANGED <<now, jar, begun, idp>>

Redeem(code) == idp' = [idp EXCEPT !.redeemed = @ \cup {code}]

(* The provider refuses the code, as it does one it redeemed before, or    *)
(* the ID token is missing, does not verify or has no readable claims.     *)
ExchangeFails(c) ==
    /\ calls[c].pc = "exchange"
    /\ Answer(c, 401, ClearsState(TRUE), Keep)
    /\ UNCHANGED idp \/ Redeem(calls[c].url.code)
    /\ UNCHANGED <<now, jar, begun>>

(* The nonce is not compared (mutation).                                   *)
NonceIgnored(call) == TRUE

NonceMatches(call) == call.url.code = call.state

(* The answer that issues a session.                                       *)
Issue(c, session) ==
    calls' = [calls EXCEPT ![c] = [@ EXCEPT !.pc = "answered", !.status = 302, !.at = now,
                                            !.setState = ClearsState(FALSE), !.setSession = session]]

(* The ID token carries the nonce and user of the login its code was       *)
(* granted for.                                                            *)
Exchange(c) ==
    /\ calls[c].pc = "exchange" /\ calls[c].url.code \notin idp.redeemed
    /\ LET code == calls[c].url.code
       IN  /\ Redeem(code)
           /\ IF NonceMatches(calls[c])
              THEN Issue(c, [user |-> idp.granted[code], login |-> code, expiry |-> now + SessionLifetime])
              ELSE Answer(c, 401, ClearsState(TRUE), Keep)
    /\ UNCHANGED <<now, jar, begun>>

(* The session cookie cannot be encoded.                                   *)
SessionNotSet(c) ==
    /\ calls[c].pc = "exchange" /\ calls[c].url.code \notin idp.redeemed /\ NonceMatches(calls[c])
    /\ Redeem(calls[c].url.code)
    /\ Answer(c, 500, ClearsState(TRUE), Keep)
    /\ UNCHANGED <<now, jar, begun>>

HandleLogout(c) ==
    /\ calls[c].pc = "sent" /\ calls[c].kind = "logout"
    /\ Answer(c, 200, Keep, None)
    /\ UNCHANGED <<now, jar, begun, idp>>

decodeSession(session) == now <= session.expiry

(* Trusts the browser to drop an expired session (mutation).               *)
SessionPresent(call) == call.session # None

SessionFromRequest(call) == call.session # None /\ decodeSession(call.session)

(* The handler looks for a session once; refusal is the status without.    *)
Serve(c, refusal) ==
    /\ LET ok == SessionFromRequest(calls[c])
       IN  calls' = [calls EXCEPT ![c].pc = "answered", ![c].at = now, ![c].served = ok,
                                  ![c].status = IF ok THEN 200 ELSE refusal]
    /\ UNCHANGED <<now, jar, begun, idp>>

(* Without a session the API answers 401, a page load the sign-in page.    *)
RequireSession(c) ==
    /\ calls[c].pc = "sent" /\ calls[c].kind \in {"page", "api"}
    /\ Serve(c, IF calls[c].kind = "api" THEN 401 ELSE 200)

HandleMe(c) ==
    /\ calls[c].pc = "sent" /\ calls[c].kind = "me"
    /\ Serve(c, 401)

Handle(c) ==
    \/ HandleLogin(c) \/ HandleLoginFails(c) \/ HandleCallback(c) \/ Exchange(c) \/ ExchangeFails(c)
    \/ SessionNotSet(c) \/ HandleLogout(c) \/ RequireSession(c) \/ HandleMe(c)

Next ==
    \/ Tick
    \/ \E b \in Browsers : \/ \E kind \in Kinds : Visit(b, kind)
                           \/ \E s \in Logins, code \in Logins \cup {None} : OpenCallback(b, s, code)
    \/ \E l \in Logins, u \in Users : SignIn(l, u)
    \/ \E c \in DOMAIN calls : Handle(c) \/ Arrive(c)

Spec == Init /\ [][Next]_vars

-----------------------------------------------------------------------------
(* A browser's session is that of a login this browser began, for the user *)
(* who signed in for it: whatever callback URL it opens, with whatever     *)
(* code, another login's never becomes its session (middleware.go:192-266).*)
SessionIsOwn ==
    \A b \in Browsers : jar[b].session # None =>
        LET s == jar[b].session
        IN  s.login <= Len(begun) /\ begun[s.login] = b /\ s.user = idp.granted[s.login]

(* A request is served only on a session that a callback of the same       *)
(* browser was answered with before the request was sent, and no later     *)
(* than SessionLifetime after that callback issued it, however long        *)
(* answers and requests were on their way (middleware.go:245-266, 127-139, *)
(* 291-302, session.go:119-128).                                           *)
ServedInTime ==
    \A c \in DOMAIN calls : calls[c].served =>
        \E d \in calls[c].after :
            /\ calls[d].kind = "callback" /\ calls[d].browser = calls[c].browser
            /\ calls[d].setSession = calls[c].session
            /\ calls[c].at <= calls[d].at + SessionLifetime

(* "The state cookie is single-use" (middleware.go:194-196): of two        *)
(* callbacks whose state was accepted for the same login, the later was    *)
(* sent before the answer to the earlier had arrived.                      *)
StateSingleUse ==
    \A c, d \in DOMAIN calls :
        calls[c].passed /\ calls[d].passed /\ calls[c].state = calls[d].state => c \notin calls[d].after

(* Another request of the browser that can take its state cookie away:     *)
(* a callback, or a later login.                                           *)
Disturbs(c, d) ==
    /\ calls[d].browser = calls[c].browser /\ d # c
    /\ calls[d].kind = "callback" \/ calls[d].setState \notin {Keep, None, calls[c].url.state}

(* A browser that signs in for a login of its own and comes back with its  *)
(* code is refused with 400 only for a reason: it has opened a callback or *)
(* begun another login besides, or let the login's cookie expire, or came  *)
(* back before the cookie did (middleware.go:193-205).                     *)
RefusedForAReason ==
    \A c \in DOMAIN calls :
        LET l == calls[c].url.state IN
        /\ calls[c].kind = "callback" /\ calls[c].status = 400
        /\ begun[l] = calls[c].browser /\ calls[c].url.code = l
        => \/ \E d \in DOMAIN calls : Disturbs(c, d)
           \/ calls[c].late
           \/ ~\E d \in calls[c].after : calls[d].setState = l
=============================================================================
