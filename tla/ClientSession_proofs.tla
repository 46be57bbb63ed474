------------------------ MODULE ClientSession_proofs ------------------------
(***************************************************************************)
(* Proofs about ClientSession, for any number of requests, tokens, retries *)
(* and sign-ins: the variables keep their types, nobody waits for a        *)
(* refresh that has settled, and a sign-in has one refresh in flight.      *)
(***************************************************************************)
EXTENDS ClientSession, FiniteSetTheorems, TLAPS

USE ClientAssumption, NoneAssumption

(***************************************************************************)
(* Whoever waits for a refresh waits for one in flight; so does the        *)
(* promise AuthService keeps.                                              *)
(***************************************************************************)
WaitersPending ==
  \A r \in Slots : call[Own(r)].pc = "waiting" =>
      call[Own(r)].awaits \in Refreshing
PromisePending == refreshing # None => refreshing \in Refreshing

(***************************************************************************)
(* A refresh may start when a token is stored and no promise is kept.  A   *)
(* sign-in is the licence for one refresh: it pays for the one in flight,  *)
(* or for the one that may start.                                          *)
(***************************************************************************)
MayStart == IF stored # None /\ refreshing = None THEN 1 ELSE 0
RefreshesPaid == IsFiniteSet(Refreshing) /\ Cardinality(Refreshing) + MayStart <= logins

\* The sign-ins on their way count against the bound too.
LoginCalls == {c \in Calls : call[c].kind = "login"}
LoginsLeft == IsFiniteSet(LoginCalls) /\ logins + Cardinality(LoginCalls) <= MaxLogins

Inv == TypeOK /\ WaitersPending /\ PromisePending /\ RefreshesPaid /\ LoginsLeft

------------------------------------------------------------------------------
(* The records of a call                                                     *)

LEMMA CallNames ==
  /\ \A r \in Slots : Own(r) \in Calls /\ Refresh(r) \in Calls
  /\ \A r, o \in Slots : Own(r) # Refresh(o)
  /\ \A r, o \in Slots : r # o => Own(r) # Own(o) /\ Refresh(r) # Refresh(o)
  /\ \A c \in Calls : c[1] \in Slots /\ (c = Own(c[1]) \/ c = Refresh(c[1]))
  BY DEF Own, Refresh, Calls, Parts

LEMMA IdleType == Idle \in Call /\ Idle.pc = "idle" /\ Idle.kind = None
  BY DEF Idle, Call, Token

LEMMA SentType ==
  ASSUME NEW kind \in Kinds \cup {None}, NEW attempt \in 0 .. MaxRetries,
         NEW token \in Token, NEW header \in Token
  PROVE  /\ Sent(kind, attempt, token, header) \in Call
         /\ Sent(kind, attempt, token, header).pc = "sent"
         /\ Sent(kind, attempt, token, header).kind = kind
  BY DEF Sent, Idle, Call, Token

LEMMA WaitingType ==
  ASSUME NEW k \in Call, NEW o \in Slots
  PROVE  /\ Waiting(k, o) \in Call
         /\ Waiting(k, o).pc = "waiting" /\ Waiting(k, o).awaits = o
         /\ Waiting(k, o).kind = k.kind
  <1>1. k.kind \in Kinds \cup {None} /\ k.header \in Token
    BY DEF Call
  <1> QED BY <1>1 DEF Waiting, Call, Token

LEMMA RejectedType ==
  ASSUME NEW k \in Call
  PROVE  /\ Rejected(k) \in Call
         /\ Rejected(k).pc # "waiting"
         /\ Rejected(k).kind \in {"logout", None}
  <1>1. "logout" \in Kinds /\ 0 \in 0 .. MaxRetries /\ None \in Token
    BY DEF Kinds, Token
  <1>2. /\ Sent("logout", 0, None, None) \in Call
        /\ Sent("logout", 0, None, None).pc = "sent"
        /\ Sent("logout", 0, None, None).kind = "logout"
    BY <1>1, SentType
  <1> QED BY <1>2, IdleType DEF Rejected
------------------------------------------------------------------------------
(* Steps of the calls                                                        *)

LEMMA InitInv == Init => Inv
  <1> SUFFICES ASSUME Init PROVE Inv
    OBVIOUS
  <1>1. \A c \in Calls : call[c].pc = "idle" /\ call[c].kind = None
    BY IdleType DEF Init
  <1>2. Refreshing = {} /\ LoginCalls = {}
    <2>1. None # "login"
      BY DEF Kinds
    <2> QED BY <1>1, <2>1, CallNames DEF Refreshing, InFlight, LoginCalls
  <1>3. TypeOK
    BY IdleType DEF Init, TypeOK, Token
  <1>4. WaitersPending /\ PromisePending
    BY <1>1, CallNames DEF Init, WaitersPending, PromisePending
  <1>5. RefreshesPaid /\ LoginsLeft
    BY <1>2, FS_EmptySet DEF Init, RefreshesPaid, LoginsLeft, MayStart
  <1> QED BY <1>3, <1>4, <1>5 DEF Inv

(***************************************************************************)
(* A request's own call moves.  No refresh starts or settles, and only a   *)
(* sign-in becomes one.                                                    *)
(***************************************************************************)
LEMMA OwnStep ==
  ASSUME Inv, NEW r \in Slots, NEW k \in Call,
         call' = [call EXCEPT ![Own(r)] = k],
         k.pc = "waiting" => k.awaits \in Refreshing
  PROVE  /\ call' \in [Calls -> Call]
         /\ Refreshing' = Refreshing
         /\ WaitersPending'
         /\ LoginCalls' \subseteq LoginCalls \cup {Own(r)}
         /\ k.kind # "login" => LoginCalls' \subseteq LoginCalls \ {Own(r)}
  <1>1. call \in [Calls -> Call]
    BY DEF Inv, TypeOK
  <1>2. call' \in [Calls -> Call] /\ call'[Own(r)] = k
        /\ \A c \in Calls : c # Own(r) => call'[c] = call[c]
    BY <1>1, CallNames
  <1>3. Refreshing' = Refreshing
    BY <1>2, CallNames DEF Refreshing, InFlight
  <1>4. WaitersPending'
    <2> SUFFICES ASSUME NEW s \in Slots, call'[Own(s)].pc = "waiting"
                 PROVE  call'[Own(s)].awaits \in Refreshing'
      BY DEF WaitersPending
    <2>1. CASE s = r
      BY <1>2, <1>3, <2>1
    <2>2. CASE s # r
      BY <1>2, <1>3, <2>2, CallNames DEF Inv, WaitersPending
    <2> QED BY <2>1, <2>2
  <1>5. LoginCalls' \subseteq LoginCalls \cup {Own(r)}
        /\ (k.kind # "login" => LoginCalls' \subseteq LoginCalls \ {Own(r)})
    BY <1>2 DEF LoginCalls
  <1> QED BY <1>2, <1>3, <1>4, <1>5

\* A call on its way, a request's own or a refresh, stays on its way.
LEMMA OnItsWay ==
  ASSUME Inv, NEW c \in Calls, NEW k \in Call, call' = [call EXCEPT ![c] = k],
         call[c].pc # "idle", k.pc \notin {"idle", "waiting"}, k.kind = call[c].kind
  PROVE  /\ call' \in [Calls -> Call]
         /\ Refreshing' = Refreshing
         /\ WaitersPending'
         /\ LoginCalls' \subseteq LoginCalls
  <1>1. call \in [Calls -> Call]
    BY DEF Inv, TypeOK
  <1>2. call' \in [Calls -> Call] /\ call'[c] = k
        /\ \A d \in Calls : d # c => call'[d] = call[d]
    BY <1>1
  <1>3. Refreshing' = Refreshing
    BY <1>2, CallNames DEF Refreshing, InFlight
  <1>4. WaitersPending'
    <2> SUFFICES ASSUME NEW s \in Slots, call'[Own(s)].pc = "waiting"
                 PROVE  call'[Own(s)].awaits \in Refreshing'
      BY DEF WaitersPending
    <2>1. call'[Own(s)] = call[Own(s)]
      BY <1>2, CallNames
    <2> QED BY <1>3, <2>1 DEF Inv, WaitersPending
  <1>5. LoginCalls' \subseteq LoginCalls
    BY <1>2 DEF LoginCalls
  <1> QED BY <1>2, <1>3, <1>4, <1>5

(***************************************************************************)
(* The refresh of o settles, and everyone who waits for it goes on.        *)
(***************************************************************************)
LEMMA Settles ==
  ASSUME Inv, NEW o \in Slots, call' \in [Calls -> Call],
         call'[Refresh(o)] = Idle,
         \A q \in Slots \ {o} : call'[Refresh(q)] = call[Refresh(q)],
         \A r \in Waiters(o) : /\ call'[Own(r)].pc # "waiting"
                               /\ call'[Own(r)].kind = "login" => call[Own(r)].kind = "login",
         \A r \in Slots \ Waiters(o) : call'[Own(r)] = call[Own(r)]
  PROVE  /\ Refreshing' = Refreshing \ {o}
         /\ WaitersPending'
         /\ LoginCalls' \subseteq LoginCalls
  <1>1. Refreshing' = Refreshing \ {o}
    BY IdleType DEF Refreshing, InFlight
  <1>2. WaitersPending'
    <2> SUFFICES ASSUME NEW s \in Slots, call'[Own(s)].pc = "waiting"
                 PROVE  call'[Own(s)].awaits \in Refreshing'
      BY DEF WaitersPending
    <2>1. s \notin Waiters(o) /\ call'[Own(s)] = call[Own(s)]
      OBVIOUS
    <2>2. call[Own(s)].awaits # o
      BY <2>1 DEF Waiters
    <2> QED BY <1>1, <2>1, <2>2 DEF Inv, WaitersPending
  <1>3. ASSUME NEW c \in Calls, call'[c].kind = "login" PROVE call[c].kind = "login"
    <2>1. PICK r \in Slots : c = Own(r) \/ c = Refresh(r)
      BY CallNames
    <2>2. CASE c = Own(r)
      BY <1>3, <2>1, <2>2 DEF Waiters
    <2>3. CASE c = Refresh(r)
      BY <1>3, <2>1, <2>3, IdleType DEF Kinds
    <2> QED BY <2>1, <2>2, <2>3
  <1> QED BY <1>1, <1>2, <1>3 DEF LoginCalls

------------------------------------------------------------------------------
(* The account of refreshes and sign-ins                                     *)

LEMMA OneMore ==
  ASSUME NEW S, NEW x, IsFiniteSet(S)
  PROVE  IsFiniteSet(S \cup {x}) /\ Cardinality(S \cup {x}) <= Cardinality(S) + 1
  <1>1. Cardinality(S) \in Nat
    BY FS_CardinalityType
  <1>2. IsFiniteSet(S \cup {x})
    BY FS_AddElement
  <1>3. Cardinality(S \cup {x}) = IF x \in S THEN Cardinality(S) ELSE Cardinality(S) + 1
    BY FS_AddElement
  <1> QED BY <1>1, <1>2, <1>3

LEMMA MayStartIs ==
  /\ MayStart \in {0, 1} /\ MayStart' \in {0, 1}
  /\ stored' = None \/ refreshing' # None => MayStart' = 0
  /\ UNCHANGED <<stored, refreshing>> => MayStart' = MayStart
  /\ stored # None /\ refreshing = None => MayStart = 1
  BY DEF MayStart

LEMMA FewerRefreshes ==
  ASSUME Inv, Refreshing' \subseteq Refreshing, MayStart' <= MayStart, logins' = logins
  PROVE  RefreshesPaid'
  <1>1. IsFiniteSet(Refreshing') /\ Cardinality(Refreshing') <= Cardinality(Refreshing)
    BY FS_Subset DEF Inv, RefreshesPaid
  <1>2. Cardinality(Refreshing) \in Nat /\ Cardinality(Refreshing') \in Nat /\ logins \in Nat
    BY <1>1, FS_CardinalityType DEF Inv, RefreshesPaid, TypeOK
  <1> QED BY <1>1, <1>2, MayStartIs DEF Inv, RefreshesPaid

LEMMA FewerLogins ==
  ASSUME Inv, LoginCalls' \subseteq LoginCalls, logins' = logins
  PROVE  LoginsLeft'
  <1>1. IsFiniteSet(LoginCalls') /\ Cardinality(LoginCalls') <= Cardinality(LoginCalls)
    BY FS_Subset DEF Inv, LoginsLeft
  <1>2. Cardinality(LoginCalls) \in Nat /\ Cardinality(LoginCalls') \in Nat /\ logins \in Nat
    BY <1>1, FS_CardinalityType DEF Inv, LoginsLeft, TypeOK
  <1> QED BY <1>1, <1>2 DEF Inv, LoginsLeft

Views == {"login", "app", "loading"}

\* A step that starts no refresh and no sign-in, and licenses no refresh.
LEMMA Kept ==
  ASSUME Inv, call' \in [Calls -> Call], stored' \in Token, view' \in Views,
         live' \subseteq Tokens, expired' \subseteq Tokens,
         logins' = logins, expiries' \in 0 .. MaxExpiries,
         WaitersPending', LoginCalls' \subseteq LoginCalls,
         Refreshing' \subseteq Refreshing, MayStart' <= MayStart,
         \/ refreshing' = None
         \/ (refreshing' = refreshing /\ refreshing \in (Refreshing' \cup {None}))
  PROVE  Inv'
  <1>1. TypeOK'
    BY DEF Inv, TypeOK, Views
  <1>2. PromisePending'
    BY DEF PromisePending
  <1> QED BY <1>1, <1>2, FewerRefreshes, FewerLogins DEF Inv

------------------------------------------------------------------------------
(* The server and the network                                                *)

LEMMA ServerStepInv ==
  ASSUME Inv, NEW c \in Calls, ServerStep(c)
  PROVE  Inv'
  <1>1. call[c] \in Call /\ call[c].pc = "sent"
    BY DEF Inv, TypeOK, ServerStep, Process, Refuse, FailToServe
  <1>2. ASSUME NEW answer \in Answers, NEW issued \in Token, Answered(c, answer, issued)
        PROVE  /\ call' \in [Calls -> Call]
               /\ Refreshing' = Refreshing
               /\ WaitersPending'
               /\ LoginCalls' \subseteq LoginCalls
    <2> DEFINE k == [call[c] EXCEPT !.pc = "answered", !.answer = answer, !.issued = issued,
                                    !.bearer = None]
    <2>1. k \in Call /\ k.pc = "answered" /\ k.kind = call[c].kind
      BY <1>1 DEF Call, Token
    <2>2. call' = [call EXCEPT ![c] = k]
      BY <1>2 DEF Answered
    <2> HIDE DEF k
    <2> QED BY <1>1, <2>1, <2>2, OnItsWay
  <1>3. Answers = {"ok", "unauthorized", "unavailable", "failed"} /\ None \in Token
    BY DEF Answers, Token
  <1>4. \A answer \in Answers, issued \in Token :
           /\ Answered(c, answer, issued)
           /\ UNCHANGED <<stored, refreshing, view, logins>>
           /\ live' \subseteq Tokens /\ expired' \subseteq Tokens /\ expiries' = expiries
           => Inv'
    BY <1>2, Kept, MayStartIs DEF Inv, TypeOK, PromisePending, Views
  <1>5. CASE Process(c)
    <2>1. PICK lost \in {FALSE, ServerFails}, t \in FreshTokens \cup {None} :
             /\ (t # None) <=> call[c].kind \in {"login", "refresh"}
             /\ Answered(c, IF lost THEN "unavailable" ELSE "ok", IF lost THEN None ELSE t)
             /\ live' = CASE call[c].kind \in {"login", "refresh"} -> live \cup {t}
                          [] call[c].kind \in {"logout", "password"} -> live \ {call[c].bearer}
                          [] OTHER -> live
             /\ expired' = expired \ {t}
      BY <1>5 DEF Process
    <2>2. t \in Token
      BY DEF FreshTokens, Token
    <2>3. live' \subseteq Tokens /\ expired' \subseteq Tokens
      <3>1. CASE call[c].kind \in {"login", "refresh"}
        BY <2>1, <2>2, <3>1 DEF Inv, TypeOK, Token
      <3>2. CASE call[c].kind \in {"logout", "password"}
        BY <2>1, <3>2 DEF Inv, TypeOK
      <3>3. CASE call[c].kind \notin {"login", "refresh", "logout", "password"}
        BY <2>1, <3>3 DEF Inv, TypeOK
      <3> QED BY <3>1, <3>2, <3>3
    <2> QED BY <1>3, <1>4, <1>5, <2>1, <2>2, <2>3 DEF Process
  <1>6. CASE Refuse(c)
    BY <1>3, <1>4, <1>6 DEF Refuse, server, Inv, TypeOK
  <1>7. CASE FailToServe(c)
    BY <1>3, <1>4, <1>7 DEF FailToServe, server, Inv, TypeOK
  <1> QED BY <1>5, <1>6, <1>7 DEF ServerStep

LEMMA ResendInv ==
  ASSUME Inv, NEW c \in Calls, Resend(c)
  PROVE  Inv'
  <1> DEFINE k == Sent(call[c].kind, call[c].attempt + 1, stored, call[c].header)
  <1>1. call[c] \in Call /\ call[c].pc = "answered" /\ call[c].attempt < MaxRetries
    BY DEF Inv, TypeOK, Resend, Retried
  <1>2. k \in Call /\ k.pc = "sent" /\ k.kind = call[c].kind
    <2>1. /\ call[c].kind \in Kinds \cup {None} /\ call[c].header \in Token
          /\ call[c].attempt + 1 \in 0 .. MaxRetries
      BY <1>1 DEF Call
    <2> QED BY <2>1, SentType DEF Inv, TypeOK
  <1>3. call' = [call EXCEPT ![c] = k]
    BY DEF Resend
  <1> HIDE DEF k
  <1>4. /\ call' \in [Calls -> Call]
        /\ Refreshing' = Refreshing
        /\ WaitersPending'
        /\ LoginCalls' \subseteq LoginCalls
    BY <1>1, <1>2, <1>3, OnItsWay
  <1> QED BY <1>4, Kept, MayStartIs DEF Resend, server, Inv, TypeOK, PromisePending, Views

LEMMA ExpireInv ==
  ASSUME Inv, NEW t \in Tokens, Expire(t)
  PROVE  Inv'
  <1>1. Refreshing' = Refreshing /\ LoginCalls' = LoginCalls
    BY DEF Expire, Refreshing, InFlight, LoginCalls
  <1>2. WaitersPending'
    BY <1>1 DEF Expire, Inv, WaitersPending
  <1>3. expiries' \in 0 .. MaxExpiries
    BY DEF Expire, Inv, TypeOK
  <1> QED BY <1>1, <1>2, <1>3, Kept, MayStartIs DEF Expire, Inv, TypeOK, PromisePending, Views

------------------------------------------------------------------------------
(* A refresh starts, is joined, or has no token to start with                *)

LEMMA RefreshTokenInv ==
  ASSUME Inv, NEW r \in Slots, NEW k \in Call,
         k.kind = "login" => call[Own(r)].kind = "login",
         RefreshToken(r, k), UNCHANGED server
  PROVE  Inv'
  <1>1. refreshing \in Refreshing \cup {None} /\ Refreshing \subseteq Slots
    BY DEF Inv, PromisePending, Refreshing
  <1>2. \A L : \A j \in Call : j.kind = k.kind =>
           (L \subseteq LoginCalls \cup {Own(r)} /\ (j.kind # "login" => L \subseteq LoginCalls \ {Own(r)})
            => L \subseteq LoginCalls)
    BY CallNames DEF LoginCalls
  <1>3. CASE JoinRefresh(r, k) /\ UNCHANGED <<stored, view>>
    <2> DEFINE j == Waiting(k, refreshing)
    <2>1. refreshing \in Refreshing /\ refreshing \in Slots /\ call' = [call EXCEPT ![Own(r)] = j]
      BY <1>1, <1>3 DEF JoinRefresh
    <2>2. j \in Call /\ j.pc = "waiting" /\ j.awaits = refreshing /\ j.kind = k.kind
      BY <2>1, WaitingType
    <2> HIDE DEF j
    <2>3. call' \in [Calls -> Call] /\ Refreshing' = Refreshing /\ WaitersPending'
          /\ LoginCalls' \subseteq LoginCalls
      BY <1>2, <2>1, <2>2, OwnStep
    <2> QED BY <1>3, <2>1, <2>3, Kept, MayStartIs
            DEF JoinRefresh, server, Inv, TypeOK, Views
  <1>4. CASE StartRefresh(r, k) /\ UNCHANGED <<stored, view>>
    <2> DEFINE j == Waiting(k, r)
               f == Sent("refresh", 0, stored, None)
    <2>1. j \in Call /\ j.pc = "waiting" /\ j.awaits = r /\ j.kind = k.kind
      BY WaitingType
    <2>2. f \in Call /\ f.pc = "sent" /\ f.kind = "refresh"
      <3>1. "refresh" \in Kinds /\ 0 \in 0 .. MaxRetries /\ stored \in Token /\ None \in Token
        BY DEF Kinds, Inv, TypeOK, Token
      <3> QED BY <3>1, SentType
    <2>3. call' = [call EXCEPT ![Own(r)] = j, ![Refresh(r)] = f]
          /\ refreshing = None /\ stored # None /\ refreshing' = r
      BY <1>4 DEF StartRefresh
    <2> HIDE DEF j, f
    <2>4. call \in [Calls -> Call]
      BY DEF Inv, TypeOK
    <2>5. /\ call' \in [Calls -> Call] /\ call'[Own(r)] = j /\ call'[Refresh(r)] = f
          /\ \A c \in Calls \ {Own(r), Refresh(r)} : call'[c] = call[c]
      BY <2>1, <2>2, <2>3, <2>4, CallNames
    <2>6. Refreshing' = Refreshing \cup {r}
      BY <2>2, <2>5, CallNames DEF Refreshing, InFlight
    <2>7. WaitersPending'
      <3> SUFFICES ASSUME NEW s \in Slots, call'[Own(s)].pc = "waiting"
                   PROVE  call'[Own(s)].awaits \in Refreshing'
        BY DEF WaitersPending
      <3>1. CASE s = r
        BY <2>1, <2>5, <2>6, <3>1
      <3>2. CASE s # r
        <4>1. call'[Own(s)] = call[Own(s)]
          BY <2>5, <3>2, CallNames
        <4> QED BY <2>6, <4>1 DEF Inv, WaitersPending
      <3> QED BY <3>1, <3>2
    <2>8. LoginCalls' \subseteq LoginCalls
      BY <2>1, <2>2, <2>5, CallNames DEF LoginCalls
    <2>9. RefreshesPaid'
      <3>1. MayStart = 1 /\ MayStart' = 0
        BY <1>1, <2>3, MayStartIs DEF Slots
      <3>2. IsFiniteSet(Refreshing') /\ Cardinality(Refreshing') <= Cardinality(Refreshing) + 1
        <4>1. IsFiniteSet(Refreshing) /\ Cardinality(Refreshing) \in Nat
          BY FS_CardinalityType DEF Inv, RefreshesPaid
        <4>2. IsFiniteSet(Refreshing \cup {r})
              /\ Cardinality(Refreshing \cup {r}) <= Cardinality(Refreshing) + 1
          BY <4>1, OneMore
        <4> QED BY <2>6, <4>2
      <3>3. Cardinality(Refreshing) \in Nat /\ Cardinality(Refreshing') \in Nat
            /\ logins \in Nat /\ logins' = logins
        BY <3>2, FS_CardinalityType DEF Inv, RefreshesPaid, TypeOK, server
      <3> QED BY <3>1, <3>2, <3>3 DEF Inv, RefreshesPaid
    <2>10. LoginsLeft'
      BY <2>8, FewerLogins DEF server
    <2>11. TypeOK' /\ PromisePending'
      BY <1>4, <2>3, <2>5, <2>6 DEF Inv, TypeOK, PromisePending, server
    <2> QED BY <2>7, <2>9, <2>10, <2>11 DEF Inv
  <1>5. CASE NoTokenToRefresh(r, k)
    <2>1. Rejected(k) \in Call /\ Rejected(k).pc # "waiting" /\ Rejected(k).kind # "login"
      BY RejectedType DEF Kinds
    <2>2. call' = [call EXCEPT ![Own(r)] = Rejected(k)]
      BY <1>5 DEF NoTokenToRefresh
    <2>3. call' \in [Calls -> Call] /\ Refreshing' = Refreshing /\ WaitersPending'
          /\ LoginCalls' \subseteq LoginCalls
      BY <2>1, <2>2, OwnStep
    <2>4. view' \in Views
      BY <1>5 DEF NoTokenToRefresh, ViewAfter, Views, Inv, TypeOK
    <2> QED BY <1>5, <2>3, <2>4, Kept, MayStartIs
            DEF NoTokenToRefresh, ClearToken, server, Inv, TypeOK, Token
  <1> QED BY <1>3, <1>4, <1>5 DEF RefreshToken

------------------------------------------------------------------------------
(* An answer arrives                                                         *)

LEMMA ViewAfterType == \A kinds : view \in Views => ViewAfter(kinds) \in Views
  BY DEF ViewAfter, Views

\* The token of a sign-in's answer is the licence for its refresh.
LEMMA SignedInInv ==
  ASSUME Inv, NEW r \in Slots, Succeed(r), call[Own(r)].kind = "login"
  PROVE  Inv'
  <1>1. /\ call' = [call EXCEPT ![Own(r)] = Idle]
        /\ stored' = call[Own(r)].issued /\ view' = "app" /\ logins' = logins + 1
        /\ UNCHANGED <<refreshing, live, expired, expiries>>
    BY DEF Succeed
  <1>2. call' \in [Calls -> Call] /\ Refreshing' = Refreshing /\ WaitersPending'
        /\ LoginCalls' \subseteq LoginCalls \ {Own(r)}
    <2>1. Idle.kind # "login" /\ Idle.pc # "waiting"
      BY IdleType DEF Kinds
    <2> QED BY <1>1, <2>1, IdleType, OwnStep
  <1>3. stored' \in Token
    BY <1>1, CallNames DEF Inv, TypeOK, Call
  <1>4. Own(r) \in LoginCalls
    BY CallNames DEF LoginCalls
  <1>5. IsFiniteSet(LoginCalls') /\ Cardinality(LoginCalls') <= Cardinality(LoginCalls) - 1
    <2>1. IsFiniteSet(LoginCalls \ {Own(r)})
          /\ Cardinality(LoginCalls \ {Own(r)}) = Cardinality(LoginCalls) - 1
      BY <1>4, FS_RemoveElement DEF Inv, LoginsLeft
    <2>2. IsFiniteSet(LoginCalls') /\ Cardinality(LoginCalls') <= Cardinality(LoginCalls \ {Own(r)})
      BY <1>2, <2>1, FS_Subset
    <2> QED BY <2>1, <2>2
  <1>6. Cardinality(LoginCalls) \in Nat /\ Cardinality(LoginCalls') \in Nat /\ logins \in Nat
        /\ Cardinality(Refreshing) \in Nat
    BY <1>5, FS_CardinalityType DEF Inv, LoginsLeft, RefreshesPaid, TypeOK
  <1>7. LoginsLeft' /\ logins' \in 0 .. MaxLogins
    BY <1>1, <1>5, <1>6 DEF Inv, LoginsLeft
  <1>8. RefreshesPaid'
    BY <1>1, <1>2, <1>6, MayStartIs DEF Inv, RefreshesPaid
  <1>9. TypeOK' /\ PromisePending'
    BY <1>1, <1>2, <1>3, <1>7 DEF Inv, TypeOK, PromisePending
  <1> QED BY <1>2, <1>7, <1>8, <1>9 DEF Inv

\* A request's own call ends or goes on; the token is kept or cleared.
LEMMA OwnEnds ==
  ASSUME Inv, NEW r \in Slots, NEW k \in Call, k.pc # "waiting", k.kind # "login",
         call' = [call EXCEPT ![Own(r)] = k],
         view' \in Views,
         ClearToken \/ UNCHANGED <<stored, refreshing>>
            \/ (stored' = None /\ UNCHANGED refreshing),
         UNCHANGED server
  PROVE  Inv'
  <1>1. call' \in [Calls -> Call] /\ Refreshing' = Refreshing /\ WaitersPending'
        /\ LoginCalls' \subseteq LoginCalls
    BY OwnStep
  <1>2. stored' \in Token /\ MayStart' <= MayStart
    BY MayStartIs DEF ClearToken, Inv, TypeOK, Token
  <1>3. refreshing' = None
        \/ (refreshing' = refreshing /\ refreshing \in (Refreshing' \cup {None}))
    BY <1>1 DEF ClearToken, Inv, PromisePending
  <1> QED BY <1>1, <1>2, <1>3, Kept DEF server, Inv, TypeOK

LEMMA SucceedInv ==
  ASSUME Inv, NEW r \in Slots, Succeed(r)
  PROVE  Inv'
  <1> DEFINE k == call[Own(r)]
  <1>1. k \in Call /\ view \in Views
    BY CallNames DEF Inv, TypeOK, Views
  <1>2. Idle.kind # "login" /\ Idle.pc # "waiting"
    BY IdleType DEF Kinds
  <1>3. k.kind # "login" => UNCHANGED server
    BY DEF Succeed, server
  <1>4. CASE k.kind = "login"
    BY <1>4, SignedInInv
  <1>5. CASE k.kind = "data"
    BY <1>1, <1>2, <1>3, <1>5, IdleType, OwnEnds DEF Succeed
  <1>6. CASE k.kind = "password"
    <2>1. [Idle EXCEPT !.pc = "timer", !.kind = "password"] \in Call
          /\ [Idle EXCEPT !.pc = "timer", !.kind = "password"].pc # "waiting"
          /\ [Idle EXCEPT !.pc = "timer", !.kind = "password"].kind # "login"
      BY IdleType DEF Idle, Call, Kinds
    <2> QED BY <1>1, <1>3, <1>6, <2>1, OwnEnds DEF Succeed
  <1>7. CASE k.kind = "check"
    <2>1. [k EXCEPT !.kind = "boot"] \in Call /\ [k EXCEPT !.kind = "boot"].kind = "boot"
      BY <1>1 DEF Call, Kinds
    <2>2. RefreshToken(r, [k EXCEPT !.kind = "boot"])
      BY <1>7 DEF Succeed
    <2> QED BY <1>3, <1>7, <2>1, <2>2, RefreshTokenInv
  <1>8. CASE k.kind = "logout"
    BY <1>2, <1>3, <1>8, IdleType, OwnEnds DEF Succeed, Views
  <1> QED BY <1>4, <1>5, <1>6, <1>7, <1>8 DEF Succeed

LEMMA RefreshedInv ==
  ASSUME Inv, NEW o \in Slots, Refreshed(o)
  PROVE  Inv'
  <1> DEFINE t == call[Refresh(o)].issued
             Resumed(k) == IF k.kind \in {"boot", "stay"} THEN Idle ELSE Sent(k.kind, 0, t, t)
  <1>1. call \in [Calls -> Call] /\ call[Refresh(o)] \in Call /\ call[Refresh(o)].pc = "answered"
    BY CallNames DEF Inv, TypeOK, Refreshed
  <1>2. t \in Token
    BY <1>1 DEF Call
  <1>3. ASSUME NEW k \in Call
        PROVE  /\ Resumed(k) \in Call /\ Resumed(k).pc # "waiting"
               /\ Resumed(k).kind = "login" => k.kind = "login"
    <2>1. k.kind \in Kinds \cup {None} /\ 0 \in 0 .. MaxRetries
      BY DEF Call
    <2>2. /\ Sent(k.kind, 0, t, t) \in Call /\ Sent(k.kind, 0, t, t).pc = "sent"
          /\ Sent(k.kind, 0, t, t).kind = k.kind
      BY <1>2, <2>1, SentType
    <2> QED BY <2>2, IdleType DEF Kinds
  <1>4. call' = [c \in Calls |-> IF c = Refresh(o) THEN Idle
                                 ELSE IF c[2] = "own" /\ c[1] \in Waiters(o) THEN Resumed(call[c])
                                 ELSE call[c]]
        /\ stored' = t /\ refreshing' = None /\ UNCHANGED server
        /\ view' \in {"app", view}
    BY DEF Refreshed
  <1> HIDE DEF t, Resumed
  <1>5. call' \in [Calls -> Call]
    BY <1>1, <1>3, <1>4, IdleType
  <1>6. /\ call'[Refresh(o)] = Idle
        /\ \A q \in Slots \ {o} : call'[Refresh(q)] = call[Refresh(q)]
        /\ \A r \in Waiters(o) : call'[Own(r)] = Resumed(call[Own(r)]) /\ call[Own(r)] \in Call
        /\ \A r \in Slots \ Waiters(o) : call'[Own(r)] = call[Own(r)]
    BY <1>1, <1>4, CallNames DEF Own, Refresh, Waiters
  <1>7. Refreshing' = Refreshing \ {o} /\ WaitersPending' /\ LoginCalls' \subseteq LoginCalls
    BY <1>3, <1>5, <1>6, Settles
  <1>8. o \in Refreshing
    BY <1>1 DEF Refreshing, InFlight
  \* The new token licenses a refresh in the place of the one that settled.
  <1>9. RefreshesPaid'
    <2>1. IsFiniteSet(Refreshing \ {o})
          /\ Cardinality(Refreshing \ {o}) = Cardinality(Refreshing) - 1
      BY <1>8, FS_RemoveElement DEF Inv, RefreshesPaid
    <2>2. IsFiniteSet(Refreshing') /\ Cardinality(Refreshing') = Cardinality(Refreshing) - 1
      BY <1>7, <2>1
    <2>3. Cardinality(Refreshing) \in Nat /\ logins \in Nat /\ logins' = logins
      BY <1>4, FS_CardinalityType DEF Inv, RefreshesPaid, TypeOK, server
    <2> QED BY <2>2, <2>3, MayStartIs DEF Inv, RefreshesPaid
  <1>10. LoginsLeft'
    BY <1>4, <1>7, FewerLogins DEF server
  <1>11. TypeOK' /\ PromisePending'
    BY <1>2, <1>4, <1>5 DEF Inv, TypeOK, PromisePending, server
  <1> QED BY <1>7, <1>9, <1>10, <1>11 DEF Inv

LEMMA RefreshFailedInv ==
  ASSUME Inv, NEW o \in Slots, RefreshFailed(o)
  PROVE  Inv'
  <1>1. call \in [Calls -> Call] /\ view \in Views
    BY DEF Inv, TypeOK, Views
  <1>2. call' = [c \in Calls |-> IF c = Refresh(o) THEN Idle
                                 ELSE IF c[2] = "own" /\ c[1] \in Waiters(o) THEN Rejected(call[c])
                                 ELSE call[c]]
        /\ view' \in Views /\ ClearToken /\ UNCHANGED server
    BY <1>1, ViewAfterType DEF RefreshFailed
  <1>3. call' \in [Calls -> Call]
    BY <1>1, <1>2, IdleType, RejectedType
  <1>4. /\ call'[Refresh(o)] = Idle
        /\ \A q \in Slots \ {o} : call'[Refresh(q)] = call[Refresh(q)]
        /\ \A r \in Waiters(o) : call'[Own(r)] = Rejected(call[Own(r)]) /\ call[Own(r)] \in Call
        /\ \A r \in Slots \ Waiters(o) : call'[Own(r)] = call[Own(r)]
    BY <1>1, <1>2, CallNames DEF Own, Refresh, Waiters
  <1>5. Refreshing' = Refreshing \ {o} /\ WaitersPending' /\ LoginCalls' \subseteq LoginCalls
    <2>1. \A k \in Call : Rejected(k).kind # "login" /\ Rejected(k).pc # "waiting"
      BY RejectedType DEF Kinds
    <2> QED BY <1>3, <1>4, <2>1, Settles
  <1> QED BY <1>2, <1>3, <1>5, Kept, MayStartIs DEF ClearToken, server, Inv, TypeOK, Token

LEMMA AnswerInv ==
  ASSUME Inv, NEW r \in Slots, Answer(r)
  PROVE  Inv'
  <1>1. call[Own(r)] \in Call /\ view \in Views
    BY CallNames DEF Inv, TypeOK, Views
  <1>2. CASE Unauthorized(r)
    BY <1>1, <1>2, RefreshTokenInv DEF Unauthorized
  <1>3. CASE Fail(r)
    <2>1. Idle.kind # "login" /\ Idle.pc # "waiting"
      BY IdleType DEF Kinds
    <2>2. /\ call' = [call EXCEPT ![Own(r)] = Idle] /\ view' \in Views
          /\ ClearToken \/ UNCHANGED <<stored, refreshing>>
          /\ UNCHANGED server
      BY <1>1, <1>3, ViewAfterType DEF Fail
    <2> QED BY <2>1, <2>2, IdleType, OwnEnds
  <1>4. CASE LeaveAfterPassword(r)
    <2>1. "logout" \in Kinds /\ 0 \in 0 .. MaxRetries /\ None \in Token
      BY DEF Kinds, Token
    <2>2. /\ Sent("logout", 0, None, None) \in Call
          /\ Sent("logout", 0, None, None).pc # "waiting"
          /\ Sent("logout", 0, None, None).kind # "login"
      BY <2>1, SentType
    <2> QED BY <1>1, <1>4, <2>2, OwnEnds DEF LeaveAfterPassword
  <1> QED BY <1>2, <1>3, <1>4, SucceedInv, RefreshedInv, RefreshFailedInv DEF Answer

------------------------------------------------------------------------------
(* The user and the browser                                                  *)

LEMMA IssueInv ==
  ASSUME Inv, NEW r \in Slots, NEW kind \in Kinds \ {"login"}, NEW token \in Token,
         Issue(r, kind, token), view' = view,
         UNCHANGED <<stored, refreshing>> \/ (stored' = None /\ UNCHANGED refreshing),
         UNCHANGED server
  PROVE  Inv'
  <1>1. 0 \in 0 .. MaxRetries /\ None \in Token /\ view \in Views
    BY DEF Token, Inv, TypeOK, Views
  <1>2. /\ Sent(kind, 0, token, None) \in Call
        /\ Sent(kind, 0, token, None).pc # "waiting"
        /\ Sent(kind, 0, token, None).kind # "login"
    BY <1>1, SentType
  <1> QED BY <1>1, <1>2, OwnEnds DEF Issue

LEMMA SignInInv ==
  ASSUME Inv, NEW r \in Slots, SignIn(r)
  PROVE  Inv'
  <1> DEFINE k == Sent("login", 0, stored, None)
  <1>1. k \in Call /\ k.pc # "waiting"
    <2>1. "login" \in Kinds /\ 0 \in 0 .. MaxRetries /\ stored \in Token /\ None \in Token
      BY DEF Kinds, Token, Inv, TypeOK
    <2> QED BY <2>1, SentType
  <1>2. call' = [call EXCEPT ![Own(r)] = k] /\ UNCHANGED <<stored, refreshing, view, server>>
        /\ logins + Cardinality(LoginCalls) < MaxLogins
    BY DEF SignIn, Issue, LoginCalls
  <1> HIDE DEF k
  <1>3. call' \in [Calls -> Call] /\ Refreshing' = Refreshing /\ WaitersPending'
        /\ LoginCalls' \subseteq LoginCalls \cup {Own(r)}
    BY <1>1, <1>2, OwnStep
  <1>4. LoginsLeft'
    <2>1. IsFiniteSet(LoginCalls) /\ Cardinality(LoginCalls) \in Nat
      BY FS_CardinalityType DEF Inv, LoginsLeft
    <2>2. IsFiniteSet(LoginCalls \cup {Own(r)})
          /\ Cardinality(LoginCalls \cup {Own(r)}) <= Cardinality(LoginCalls) + 1
      BY <2>1, OneMore
    <2>3. IsFiniteSet(LoginCalls') /\ Cardinality(LoginCalls') <= Cardinality(LoginCalls \cup {Own(r)})
      BY <1>3, <2>2, FS_Subset
    <2>4. Cardinality(LoginCalls') \in Nat /\ Cardinality(LoginCalls \cup {Own(r)}) \in Nat
          /\ logins \in Nat /\ logins' = logins
      BY <1>2, <2>2, <2>3, FS_CardinalityType DEF Inv, TypeOK, server
    <2> QED BY <1>2, <2>1, <2>2, <2>3, <2>4 DEF LoginsLeft
  <1>5. RefreshesPaid'
    BY <1>2, <1>3, MayStartIs, FewerRefreshes DEF server
  <1>6. TypeOK' /\ PromisePending'
    BY <1>2, <1>3 DEF Inv, TypeOK, PromisePending, server
  <1> QED BY <1>3, <1>4, <1>5, <1>6 DEF Inv

\* A page that has a token when it is loaded again has signed in for it.
LEMMA ReloadInv ==
  ASSUME Inv, NEW r \in Slots, Reload(r)
  PROVE  Inv'
  <1>1. UNCHANGED server /\ refreshing' = None
    BY DEF Reload
  <1>2. "check" \in Kinds /\ 0 \in 0 .. MaxRetries /\ stored \in Token /\ None \in Token
        /\ None # "login" /\ "check" # "login"
    BY DEF Kinds, Token, Inv, TypeOK
  <1>3. /\ Sent("check", 0, stored, None) \in Call
        /\ Sent("check", 0, stored, None).pc = "sent"
        /\ Sent("check", 0, stored, None).kind = "check"
    BY <1>2, SentType
  <1>4. /\ call' \in [Calls -> Call]
        /\ \A o \in Slots : call'[Refresh(o)] = Idle
        /\ \A c \in Calls : call'[c].pc # "waiting" /\ call'[c].kind # "login"
        /\ stored' \in {None, stored} /\ view' \in Views
    <2>1. CASE stored \in {None} \cup expired
      BY <1>2, <2>1, IdleType, CallNames DEF Reload, Views
    <2>2. CASE stored \notin {None} \cup expired
      BY <1>2, <1>3, <2>2, IdleType, CallNames DEF Reload, Views
    <2> QED BY <2>1, <2>2
  <1>5. Refreshing' = {} /\ LoginCalls' = {} /\ WaitersPending'
    BY <1>4, IdleType, CallNames DEF Refreshing, InFlight, LoginCalls, WaitersPending
  <1>6. MayStart' <= logins
    <2>1. CASE stored' = None
      BY <2>1, MayStartIs DEF Inv, TypeOK
    <2>2. CASE stored' # None
      <3>1. MayStart = 1 \/ Refreshing # {}
        BY <1>4, <2>2, MayStartIs DEF Inv, PromisePending
      <3>2. Cardinality(Refreshing) \in Nat /\ (Refreshing # {} => Cardinality(Refreshing) # 0)
        BY FS_EmptySet, FS_CardinalityType DEF Inv, RefreshesPaid
      <3> QED BY <3>1, <3>2, MayStartIs DEF Inv, RefreshesPaid, TypeOK
    <2> QED BY <2>1, <2>2
  <1>7. RefreshesPaid'
    BY <1>1, <1>5, <1>6, MayStartIs, FS_EmptySet DEF RefreshesPaid, server
  <1>8. LoginsLeft'
    BY <1>1, <1>5, FewerLogins DEF server
  <1>9. TypeOK' /\ PromisePending'
    BY <1>1, <1>2, <1>4 DEF Inv, TypeOK, PromisePending, Views, server
  <1> QED BY <1>5, <1>7, <1>8, <1>9 DEF Inv

LEMMA UserStepInv ==
  ASSUME Inv, NEW r \in Slots, UserStep(r)
  PROVE  Inv'
  <1>1. stored \in Token /\ None \in Token /\ "data" \in Kinds \ {"login"}
        /\ "password" \in Kinds \ {"login"} /\ "logout" \in Kinds \ {"login"}
    BY DEF Inv, TypeOK, Token, Kinds
  <1>2. CASE Use(r)
    BY <1>1, <1>2, IssueInv DEF Use
  <1>3. CASE Logout(r)
    BY <1>1, <1>3, IssueInv DEF Logout
  <1>4. CASE LogoutNow(r)
    BY <1>1, <1>4, IssueInv DEF LogoutNow
  <1>5. CASE Stay(r)
    <2>1. [Idle EXCEPT !.kind = "stay"] \in Call /\ [Idle EXCEPT !.kind = "stay"].kind # "login"
      BY IdleType DEF Idle, Call, Kinds
    <2> QED BY <1>5, <2>1, RefreshTokenInv DEF Stay
  <1> QED BY <1>2, <1>3, <1>4, <1>5, SignInInv, ReloadInv DEF UserStep

LEMMA NextInv == Inv /\ [Next]_vars => Inv'
  <1> SUFFICES ASSUME Inv, [Next]_vars PROVE Inv'
    OBVIOUS
  <1>1. CASE Watch
    <2>1. None \in Token /\ "logout" \in Kinds \ {"login"} /\ Interval \in Slots
      BY DEF Token, Kinds, Slots
    <2> QED BY <1>1, <2>1, IssueInv DEF Watch
  <1>2. ASSUME NEW r \in Requests, UserStep(r) PROVE Inv'
    BY <1>2, UserStepInv DEF Slots
  <1>3. CASE UNCHANGED vars
    <2>1. Refreshing' = Refreshing /\ LoginCalls' = LoginCalls
      BY <1>3 DEF vars, Refreshing, InFlight, LoginCalls
    <2> QED BY <1>3, <2>1 DEF vars, Inv, TypeOK, WaitersPending, PromisePending, RefreshesPaid,
                             LoginsLeft, MayStart
  <1> QED BY <1>1, <1>2, <1>3, ServerStepInv, ResendInv, ExpireInv, AnswerInv DEF Next

LEMMA InvHolds == SafetySpec => []Inv
  BY InitInv, NextInv, PTL DEF SafetySpec

------------------------------------------------------------------------------
(***************************************************************************)
(* Every variable of the client's session keeps its type, whatever answers *)
(* arrive in whatever order; no sign-in exceeds the bound.                 *)
(***************************************************************************)
THEOREM ClientTypeCorrect == SafetySpec => []TypeOK
  <1>1. Inv => TypeOK
    BY DEF Inv
  <1> QED BY <1>1, InvHolds, PTL

(***************************************************************************)
(* A promise that is kept or waited for is pending, for any number of      *)
(* requests refused at any time, sign-outs that forget the promise and     *)
(* sign-ins that make another: nobody waits for ever for a refresh that    *)
(* has settled.                                                            *)
(***************************************************************************)
THEOREM NobodyWaitsInVain == SafetySpec => []PromisesArePending
  <1>1. Inv => PromisesArePending
    BY DEF Inv, PromisePending, WaitersPending, PromisesArePending, Refreshing
  <1> QED BY <1>1, InvHolds, PTL

(***************************************************************************)
(* However many requests are refused, a sign-in has at most one refresh in *)
(* flight.                                                                 *)
(***************************************************************************)
THEOREM RefreshesAreShared == SafetySpec => []OneRefreshPerSignIn
  <1>1. Inv => OneRefreshPerSignIn
    <2> SUFFICES ASSUME Inv PROVE OneRefreshPerSignIn
      OBVIOUS
    <2>1. Cardinality(Refreshing) \in Nat /\ logins \in Nat
      BY FS_CardinalityType DEF Inv, RefreshesPaid, TypeOK
    <2> QED BY <2>1, MayStartIs DEF Inv, RefreshesPaid, OneRefreshPerSignIn
  <1> QED BY <1>1, InvHolds, PTL
=============================================================================
