--------------------------- MODULE ClientSession ---------------------------
(***************************************************************************)
(* The browser's side of a session: the stored token, the requests of      *)
(* ApiClient with their retries, the refresh that AuthService shares       *)
(* between them, SessionManager's watch over the token and App's sign-in,  *)
(* sign-out and reload.  JavaScript runs to completion between awaits, so  *)
(* an action is what runs between two answers of the network or timers.    *)
(* The server is what module Session proves of it: a set of tokens it      *)
(* accepts, each opened once.                                              *)
(***************************************************************************)
EXTENDS Naturals, FiniteSets

CONSTANTS
  Requests,      \* calls a user's actions can have open at once
  Interval,      \* the call of SessionManager's interval
  Tokens,        \* names of tokens; a name nobody holds is used again
  None,
  Uses,          \* what the user does in this instance
  MaxRetries,    \* ApiClient.retryConfig.maxRetries
  MaxLogins,     \* bound on the sign-ins of a behaviour
  MaxExpiries,   \* bound on the tokens that expire in a behaviour
  ServerFails    \* whether answers are lost and calls fail

ASSUME ClientAssumption ==
  /\ None \notin Requests \cup Tokens \cup {Interval}
  /\ Interval \notin Requests
  /\ MaxRetries \in Nat /\ MaxLogins \in Nat /\ MaxExpiries \in Nat
  /\ Uses \subseteq {"data", "password", "logout", "logoutNow", "stay", "reload"}
  /\ ServerFails \in BOOLEAN

Kinds == {"data", "password", "login", "check", "boot", "stay", "logout", "refresh"}
Answers == {"ok", "unauthorized", "unavailable", "failed"}

(* What stands for an absent kind or answer is none of them *)
ASSUME NoneAssumption == None \notin Kinds \cup Answers

Parts == {"own", "refresh"}      \* a request, and the refresh it may have started
Slots == Requests \cup {Interval}
Calls == Slots \X Parts

VARIABLES
  stored,       \* sessionStorage "auth_token"
  refreshing,   \* AuthService.refreshPromise: the request that started it
  call,         \* [Calls -> Call]
  view,         \* what App renders
  live,         \* tokens the server accepts
  expired,      \* tokens past their exp
  logins,       \* sign-ins so far
  expiries      \* tokens expired so far

vars == <<stored, refreshing, call, view, live, expired, logins, expiries>>
server == <<live, expired, logins, expiries>>

Token == Tokens \cup {None}
Call == [pc : {"idle", "sent", "answered", "waiting", "timer"},
         kind : Kinds \cup {None},
         attempt : 0 .. MaxRetries,
         bearer : Token,                  \* the Authorization header sent
         header : Token,                  \* the header the caller's options carry
         answer : Answers \cup {None},
         issued : Token,                  \* the token an answer brings
         awaits : Slots \cup {None}]   \* whose refresh it waits for

Idle == [pc |-> "idle", kind |-> None, attempt |-> 0, bearer |-> None, header |-> None,
         answer |-> None, issued |-> None, awaits |-> None]

Own(r) == <<r, "own">>
Refresh(r) == <<r, "refresh">>
Free(r) == call[Own(r)].pc = "idle"

(* makeRequestWithRetry up to its await: the stored token wins over the header *)
Sent(kind, attempt, token, header) ==
  [Idle EXCEPT !.pc = "sent", !.kind = kind, !.attempt = attempt, !.header = header,
               !.bearer = IF token # None THEN token ELSE header]

(* The caller waits for o's refresh; only its kind and its header matter later *)
Waiting(k, o) == [pc |-> "waiting", kind |-> k.kind, attempt |-> 0, bearer |-> None,
                  header |-> k.header, answer |-> None, issued |-> None, awaits |-> o]

Init ==
  /\ stored = None
  /\ refreshing = None
  /\ call = [c \in Calls |-> Idle]
  /\ view = "login"
  /\ live = {} /\ expired = {}
  /\ logins = 0 /\ expiries = 0

------------------------------------------------------------------------------
(* The server and the network                                                *)

(* Names no part of the client holds: a token it forgot cannot matter to it  *)
Held == {stored} \cup UNION {{call[c].bearer, call[c].header, call[c].issued} : c \in Calls}
FreshTokens == Tokens \ Held

(* logout_user checks the signature and exp only; the others need the Redis keys *)
Accepted(k) ==
  CASE k.kind = "login" -> TRUE
    [] k.kind = "logout" -> k.bearer # None /\ k.bearer \notin expired
    [] OTHER -> k.bearer \in live

Answered(c, answer, issued) ==
  call' = [call EXCEPT ![c].pc = "answered", ![c].answer = answer, ![c].issued = issued,
                       ![c].bearer = None]

(* The server does what is asked; the answer may be lost on its way *)
Process(c) ==
  LET k == call[c] IN
  /\ k.pc = "sent" /\ Accepted(k)
  /\ \E lost \in {FALSE, ServerFails}, t \in FreshTokens \cup {None} :
       /\ (t # None) <=> k.kind \in {"login", "refresh"}
       /\ Answered(c, IF lost THEN "unavailable" ELSE "ok", IF lost THEN None ELSE t)
       /\ live' = CASE k.kind \in {"login", "refresh"} -> live \cup {t}
                    [] k.kind \in {"logout", "password"} -> live \ {k.bearer}
                    [] OTHER -> live
       /\ expired' = expired \ {t}
  /\ UNCHANGED <<stored, refreshing, view, logins, expiries>>

(* 401: the token is not accepted, or the password of a login or a change is wrong *)
Refuse(c) ==
  /\ call[c].pc = "sent"
  /\ ~Accepted(call[c]) \/ call[c].kind \in {"login", "password"}
  /\ Answered(c, "unauthorized", None)
  /\ UNCHANGED <<stored, refreshing, view, server>>

(* 502, 503, 504, 429 and "Failed to fetch" are retried, other errors are not *)
FailToServe(c) ==
  /\ ServerFails /\ call[c].pc = "sent"
  /\ \E answer \in {"unavailable", "failed"} : Answered(c, answer, None)
  /\ UNCHANGED <<stored, refreshing, view, server>>

Expire(t) ==
  /\ t \in live /\ expiries < MaxExpiries
  /\ live' = live \ {t} /\ expired' = expired \cup {t} /\ expiries' = expiries + 1
  /\ UNCHANGED <<stored, refreshing, call, view, logins>>

------------------------------------------------------------------------------
(* AuthService.refreshToken, for the caller r whose call now reads k          *)

JoinRefresh(r, k) ==
  /\ refreshing # None
  /\ call' = [call EXCEPT ![Own(r)] = Waiting(k, refreshing)]
  /\ UNCHANGED refreshing

(* Mutant: the check of refreshPromise is dropped *)
StartRefreshAnyway(r, k) ==
  /\ stored # None /\ call[Refresh(r)] = Idle
  /\ refreshing' = r
  /\ call' = [call EXCEPT ![Own(r)] = Waiting(k, r),
                          ![Refresh(r)] = Sent("refresh", 0, stored, None)]

StartRefresh(r, k) ==
  /\ refreshing = None /\ stored # None
  /\ refreshing' = r
  /\ call' = [call EXCEPT ![Own(r)] = Waiting(k, r),
                          ![Refresh(r)] = Sent("refresh", 0, stored, None)]

(* clearToken; the refresh in flight, if any, is forgotten but goes on *)
ClearToken == stored' = None /\ refreshing' = None

(* Mutant: App.handleLogout without its try around AuthService.logout *)
ViewAfterChecks(kinds) == IF kinds \cap {"check", "boot"} # {} THEN "login" ELSE view

(* What a rejected call does to the view: App shows the login screen after
   any logout and after a failed check of the stored session               *)
ViewAfter(kinds) == IF kinds \cap {"logout", "check", "boot"} # {} THEN "login" ELSE view

(* SessionManager ends the session when "stay logged in" fails *)
Rejected(k) == IF k.kind = "stay" THEN Sent("logout", 0, None, None) ELSE Idle

(* "No token": handleAuthenticationError and its callers clear and reject *)
NoTokenToRefresh(r, k) ==
  /\ refreshing = None /\ stored = None
  /\ call' = [call EXCEPT ![Own(r)] = Rejected(k)]
  /\ view' = ViewAfter({k.kind})
  /\ ClearToken

RefreshToken(r, k) ==
  \/ /\ JoinRefresh(r, k) \/ StartRefresh(r, k)
     /\ UNCHANGED <<stored, view>>
  \/ NoTokenToRefresh(r, k)

------------------------------------------------------------------------------
(* An answer arrives                                                         *)

(* Mutant: attempts are not counted *)
RetriedForever(k) == k.answer = "unavailable"

Retried(k) == k.answer = "unavailable" /\ k.attempt < MaxRetries

(* After the delay of calculateBackoffDelay, with the token stored by then *)
Resend(c) ==
  /\ call[c].pc = "answered" /\ Retried(call[c])
  /\ call' = [call EXCEPT ![c] = Sent(@.kind, @.attempt + 1, stored, @.header)]
  /\ UNCHANGED <<stored, refreshing, view, server>>

(* A refused first attempt refreshes the token and waits for it *)
Unauthorized(r) ==
  LET k == call[Own(r)] IN
  /\ k.pc = "answered" /\ k.answer = "unauthorized" /\ k.attempt = 0
  /\ RefreshToken(r, k)
  /\ UNCHANGED server

Succeed(r) ==
  LET k == call[Own(r)] IN
  /\ k.pc = "answered" /\ k.answer = "ok"
  /\ \/ /\ k.kind = "data"
        /\ call' = [call EXCEPT ![Own(r)] = Idle]
        /\ UNCHANGED <<stored, refreshing, view>>
     \/ /\ k.kind = "password"
        /\ call' = [call EXCEPT ![Own(r)] = [Idle EXCEPT !.pc = "timer", !.kind = "password"]]
        /\ UNCHANGED <<stored, refreshing, view>>
     \/ /\ k.kind = "login"
        /\ call' = [call EXCEPT ![Own(r)] = Idle]
        /\ stored' = k.issued /\ view' = "app" /\ logins' = logins + 1
        /\ UNCHANGED refreshing
     \/ /\ k.kind = "check"                 \* the session is valid: refresh it
        /\ RefreshToken(r, [k EXCEPT !.kind = "boot"])
     \/ /\ k.kind = "logout"
        /\ call' = [call EXCEPT ![Own(r)] = Idle]
        /\ view' = "login"
        /\ ClearToken
  /\ k.kind # "login" => logins' = logins
  /\ UNCHANGED <<live, expired, expiries>>

(* Any other error goes to the caller, who clears the token after a logout,
   whatever came of it, and after a check refused with 401                  *)
Fail(r) ==
  LET k == call[Own(r)] IN
  /\ k.pc = "answered" /\ k.answer # "ok" /\ ~Retried(k)
  /\ k.answer = "unauthorized" => k.attempt > 0
  /\ call' = [call EXCEPT ![Own(r)] = Idle]
  /\ view' = ViewAfter({k.kind})
  /\ IF k.kind = "logout" \/ (k.kind = "check" /\ k.answer = "unauthorized")
       THEN ClearToken ELSE UNCHANGED <<stored, refreshing>>
  /\ UNCHANGED server

Waiters(o) == {r \in Slots : call[Own(r)].pc = "waiting" /\ call[Own(r)].awaits = o}

(* Mutant: refreshToken without its finally *)
RefreshedKeepsPromise(o) ==
  LET t == call[Refresh(o)].issued IN
  /\ call[Refresh(o)].pc = "answered" /\ call[Refresh(o)].answer = "ok"
  /\ call' = [c \in Calls |-> IF c = Refresh(o) THEN Idle
                              ELSE IF c[2] = "own" /\ c[1] \in Waiters(o)
                                   THEN Sent(call[c].kind, 0, t, t)
                              ELSE call[c]]
  /\ stored' = t
  /\ UNCHANGED <<view, refreshing, server>>

(* The refresh of o resolves: every waiter stores the token and goes on *)
Refreshed(o) ==
  LET t == call[Refresh(o)].issued
      Resumed(k) == IF k.kind \in {"boot", "stay"} THEN Idle
                    ELSE Sent(k.kind, 0, t, t)
  IN
  /\ call[Refresh(o)].pc = "answered" /\ call[Refresh(o)].answer = "ok"
  /\ call' = [c \in Calls |-> IF c = Refresh(o) THEN Idle
                              ELSE IF c[2] = "own" /\ c[1] \in Waiters(o) THEN Resumed(call[c])
                              ELSE call[c]]
  /\ stored' = t
  /\ view' = IF \E r \in Waiters(o) : call[Own(r)].kind = "boot" THEN "app" ELSE view
  /\ refreshing' = None
  /\ UNCHANGED server

(* Mutant: a refused refresh refreshes like any request, and joins itself *)
RefreshFailedJoinsItself(o) ==
  /\ call[Refresh(o)].pc = "answered" /\ call[Refresh(o)].answer = "unauthorized"
  /\ refreshing # None
  /\ call' = [call EXCEPT ![Refresh(o)] = Waiting(call[Refresh(o)], refreshing)]
  /\ UNCHANGED <<stored, refreshing, view, server>>

(* It rejects: every waiter clears the token and rejects *)
RefreshFailed(o) ==
  LET k == call[Refresh(o)] IN
  /\ k.pc = "answered" /\ k.answer # "ok" /\ ~Retried(k)
  /\ call' = [c \in Calls |-> IF c = Refresh(o) THEN Idle
                              ELSE IF c[2] = "own" /\ c[1] \in Waiters(o) THEN Rejected(call[c])
                              ELSE call[c]]
  /\ view' = ViewAfter({call[Own(r)].kind : r \in Waiters(o)})
  /\ ClearToken
  /\ UNCHANGED server

------------------------------------------------------------------------------
(* The user, the timers and the browser                                      *)

Issue(r, kind, token) ==
  /\ Free(r)
  /\ call' = [call EXCEPT ![Own(r)] = Sent(kind, 0, token, None)]

SignIn(r) ==
  /\ view = "login"
  /\ logins + Cardinality({c \in Calls : call[c].kind = "login"}) < MaxLogins
  /\ Issue(r, "login", stored)
  /\ UNCHANGED <<stored, refreshing, view, server>>

Use(r) ==
  /\ view = "app"
  /\ \E kind \in Uses \cap {"data", "password"} : Issue(r, kind, stored)
  /\ UNCHANGED <<stored, refreshing, view, server>>

Logout(r) ==
  /\ view = "app" /\ "logout" \in Uses
  /\ Issue(r, "logout", stored)
  /\ UNCHANGED <<stored, refreshing, view, server>>

(* "Logout now" in the expiry dialog empties sessionStorage, then logs out *)
LogoutNow(r) ==
  /\ view = "app" /\ "logoutNow" \in Uses /\ stored # None /\ stored \notin expired
  /\ stored' = None
  /\ Issue(r, "logout", None)
  /\ UNCHANGED <<refreshing, view, server>>

Stay(r) ==
  /\ view = "app" /\ "stay" \in Uses /\ stored # None /\ Free(r)
  /\ RefreshToken(r, [Idle EXCEPT !.kind = "stay"])
  /\ UNCHANGED server

(* checkSessionExpiry, every second: no token, or an expired one, logs out.
   One such logout is open at a time here                                  *)
Watch ==
  /\ view = "app" /\ stored \in {None} \cup expired
  /\ stored' = None
  /\ Issue(Interval, "logout", None)
  /\ UNCHANGED <<refreshing, view, server>>

(* Two seconds after a password change: clearToken, then the logout *)
LeaveAfterPassword(r) ==
  /\ call[Own(r)].pc = "timer"
  /\ call' = [call EXCEPT ![Own(r)] = Sent("logout", 0, None, None)]
  /\ ClearToken
  /\ UNCHANGED <<view, server>>

(* The page is loaded again: everything but sessionStorage is lost.  App
   checks a stored token, and forgets an expired one                       *)
Reload(r) ==
  /\ "reload" \in Uses
  /\ refreshing' = None
  /\ IF stored \in {None} \cup expired
       THEN /\ stored' = None /\ view' = "login"
            /\ call' = [c \in Calls |-> Idle]
       ELSE /\ stored' = stored /\ view' = "loading"
            /\ call' = [[c \in Calls |-> Idle] EXCEPT ![Own(r)] = Sent("check", 0, stored, None)]
  /\ UNCHANGED server

------------------------------------------------------------------------------
ServerStep(c) == Process(c) \/ Refuse(c) \/ FailToServe(c)

Answer(r) ==
  \/ Unauthorized(r) \/ Succeed(r) \/ Fail(r)
  \/ Refreshed(r) \/ RefreshFailed(r)
  \/ LeaveAfterPassword(r)

UserStep(r) ==
  SignIn(r) \/ Use(r) \/ Logout(r) \/ LogoutNow(r) \/ Stay(r) \/ Reload(r)

Next ==
  \/ \E c \in Calls : ServerStep(c) \/ Resend(c)
  \/ \E r \in Slots : Answer(r)
  \/ Watch
  \/ \E r \in Requests : UserStep(r)
  \/ \E t \in Tokens : Expire(t)

(* Every request is answered or fails in the end, continuations and timers
   run, and the interval of SessionManager fires                            *)
Fairness ==
  /\ \A c \in Calls : WF_vars(ServerStep(c)) /\ WF_vars(Resend(c))
  /\ \A r \in Slots : WF_vars(Answer(r))
  /\ WF_vars(Watch)

SafetySpec == Init /\ [][Next]_vars
Spec == SafetySpec /\ Fairness

------------------------------------------------------------------------------
(* Properties                                                                *)

(* Every variable keeps its type; attempt stays within the retries allowed.  *)
TypeOK ==
  /\ stored \in Token
  /\ refreshing \in Slots \cup {None}
  /\ call \in [Calls -> Call]
  /\ view \in {"login", "app", "loading"}
  /\ live \subseteq Tokens /\ expired \subseteq Tokens
  /\ logins \in 0 .. MaxLogins /\ expiries \in 0 .. MaxExpiries

InFlight(o) == call[Refresh(o)].pc # "idle"

(* A promise that is kept or waited for is pending: refreshPromise never
   names a refresh that has settled, which every later 401 would join for
   nothing, and whoever waits for a refresh waits for one in flight, also
   when clearToken has forgotten the promise or another one replaced it.   *)
PromisesArePending ==
  /\ refreshing # None => InFlight(refreshing)
  /\ \A r \in Slots :
       call[Own(r)].pc = "waiting" => InFlight(call[Own(r)].awaits)

Refreshing == {o \in Slots : InFlight(o)}

(* However many requests are refused, and however late their refusals
   arrive, a sign-in has at most one refresh in flight: it takes a logout
   that forgets one, and another sign-in, for a second to start.            *)
OneRefreshPerSignIn == Cardinality(Refreshing) <= logins

(* A request for data comes to an end, whatever it meets: refusals, retries,
   a refresh that fails, a logout in between.                               *)
DataRequestsSettle ==
  \A r \in Requests : call[Own(r)].kind = "data" ~> call[Own(r)].kind # "data"

(* Every request comes to an end, a change of password included. *)
RequestsSettle ==
  \A r \in Requests : call[Own(r)].pc # "idle" ~> call[Own(r)].pc = "idle"

(* The application is not shown for ever without a token: SessionManager
   leaves it, unless a refresh brings a token back.                         *)
SignedOutViewCloses == (view = "app" /\ stored = None) ~> (view # "app" \/ stored # None)
=============================================================================
