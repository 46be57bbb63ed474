------------------------------ MODULE Session -------------------------------
(***************************************************************************)
(* Sessions of one user: JWTs, the Redis keys {jti}_session_valid,         *)
(* {jti}_session_token and the cached data scoped to a session, and the    *)
(* handlers that create, use and end them.                                 *)
(*                                                                         *)
(* A handler awaits PostgreSQL and Redis, so each await is a step of its   *)
(* own.  Failing Redis calls are mostly logged and ignored by the code.    *)
(* A request a handler refuses at its first step changes nothing and is    *)
(* left out.                                                               *)
(***************************************************************************)
EXTENDS Integers

CONSTANTS
    Jti,           \* JWT ids
    Task,          \* requests in progress
    Password,      \* passwords
    MaxTime,       \* bound on the clock
    Lifetime,      \* TOKEN_EXPIRATION_HOURS
    Grace,         \* the leeway of validate_token_for_refresh
    Fallback,      \* the ttl of cached data whose session token is gone
    RedisFails,    \* whether Redis calls may fail
    NoUser, Deleted, \* the user before registration and after deletion
    NoJti

Time == 0..MaxTime
Never == -1                   \* the claim exp of a token that was not generated
Ttls == 0..(Lifetime + Fallback)
Expiry == 0..(MaxTime + Lifetime + Fallback)   \* expiry of a key; 0 when absent

ASSUME SessionAssumption ==
    /\ MaxTime \in Nat /\ Lifetime \in Nat /\ Grace \in Nat /\ Fallback \in Nat
    /\ Lifetime > 0
    /\ RedisFails \in BOOLEAN
    /\ NoJti \notin Jti
    /\ NoUser \notin Password /\ Deleted \notin Password /\ NoUser # Deleted

\* The kinds of Redis keys that begin with a JWT id.
Kind == {"valid", "token", "data"}

VARIABLES
    now,
    user,        \* the row of users: its password, NoUser or Deleted
    exp,         \* exp[j]: the claim exp of the token with id j, or Never
    key,         \* key[k][j]: when the Redis key of kind k for j expires
    task,        \* the requests
    held,        \* the tokens a client has received
    ended        \* history: sessions ended by an answer, with no Redis call failing

vars == <<now, user, exp, key, task, held, ended>>

Pc == {"idle", "setValid", "setToken", "loadUser", "ttl", "store",
       "verify", "update", "delete", "delToken", "delValid", "scan", "clear"}
Op == {"none", "issue", "overview", "password", "delete", "logout"}

TaskType == [pc : Pc, op : Op,
             jti : Jti \cup {NoJti},   \* the session the request came with
             new : Jti \cup {NoJti},   \* the session it opens
             ttl : Ttls,               \* computed ahead of the call that uses it
             keys : SUBSET Kind,       \* keys a scan found and has not deleted
             clean : BOOLEAN,          \* no Redis call of it failed
             late : BOOLEAN]           \* history: it came after its session's end

Idle == [pc |-> "idle", op |-> "none", jti |-> NoJti, new |-> NoJti, ttl |-> 0,
         keys |-> {}, clean |-> TRUE, late |-> FALSE]

Init ==
    /\ now = 0
    /\ user = NoUser
    /\ exp = [j \in Jti |-> Never]
    /\ key = [k \in Kind |-> [j \in Jti |-> 0]]
    /\ task = [t \in Task |-> Idle]
    /\ held = {} /\ ended = {}

-----------------------------------------------------------------------------
(***************************************************************************)
(* Time, Redis and the helpers of the handlers.                            *)
(***************************************************************************)
NextTick ==
    /\ now < MaxTime
    /\ now' = now + 1
    /\ UNCHANGED <<user, exp, key, task, held, ended>>

Present(k, j) == key[k][j] > now

\* validate_token
TokenAccepted(j) == j \in held /\ now <= exp[j]
\* validate_token_for_refresh
TokenRefreshable(j) == j \in held /\ now <= exp[j] + Grace
\* auth_middleware
Authorized(j) == TokenAccepted(j) /\ Present("valid", j)

SetKey(k, j, until) == key' = [key EXCEPT ![k][j] = until]
TaskStep(t, rec) == task' = [task EXCEPT ![t] = rec]
Begin(t, rec) == task[t].pc = "idle" /\ TaskStep(t, rec)
Goto(t, pc) == TaskStep(t, [task[t] EXCEPT !.pc = pc])
GotoFailed(t, pc) == RedisFails /\ TaskStep(t, [task[t] EXCEPT !.pc = pc, !.clean = FALSE])

\* Whether the user still exists.
UserExists == user \in Password

-----------------------------------------------------------------------------
(***************************************************************************)
(* Opening a session: register_user, login_user, refresh_user_session.     *)
(***************************************************************************)
\* Ids no token has; Uuid::new_v4.
FreshJtis == {j \in Jti : exp[j] = Never}

\* Mutant: the absolute expiry is taken for the remaining time.
TtlAbsolute == now + Lifetime + 1
\* auth_token.expires_at - Utc::now(), right after the token was generated.
Ttl == Lifetime

\* generate_token, and the ttl both keys are going to be written with.
Generate(t, j, from) ==
    /\ exp' = [exp EXCEPT ![j] = now + Lifetime]
    /\ TaskStep(t, [from EXCEPT !.pc = "setValid", !.op = "issue",
                                !.new = j, !.ttl = Ttl])

Register(t, p) ==
    /\ task[t].pc = "idle" /\ user = NoUser
    /\ user' = p
    /\ \E j \in FreshJtis : Generate(t, j, Idle)
    /\ UNCHANGED <<now, key, held, ended>>

\* The row is read, the password verified and the token generated in one go.
Login(t, p) ==
    /\ task[t].pc = "idle" /\ UserExists /\ p = user
    /\ \E j \in FreshJtis : Generate(t, j, Idle)
    /\ UNCHANGED <<now, user, key, held, ended>>

\* Mutant: the session is not looked up.
RefreshAllowedUnchecked(j) == TokenRefreshable(j)
RefreshAllowed(j) == TokenRefreshable(j) /\ Present("valid", j)

RefreshBegin(t, j) ==
    /\ RefreshAllowed(j)
    /\ Begin(t, [Idle EXCEPT !.pc = "loadUser", !.jti = j,
                             !.late = (j \in ended \/ user = Deleted)])
    /\ UNCHANGED <<now, user, exp, key, held, ended>>

\* Mutant: the session is prolonged under its own id.
RefreshJtisReused(t) == {task[t].jti}
\* The new session has an id of its own; the old one stays as it is.
RefreshJtis(t) == FreshJtis

\* get_user_by_id; without a row the request is refused.
RefreshLoadUser(t) ==
    /\ task[t].pc = "loadUser"
    /\ \/ /\ UserExists
          /\ \E j \in RefreshJtis(t) : Generate(t, j, task[t])
       \/ /\ ~UserExists
          /\ TaskStep(t, Idle)
          /\ UNCHANGED exp
    /\ UNCHANGED <<now, user, key, held, ended>>

\* set_session_valid; a failure is only logged.
SetSessionValid(t) ==
    /\ task[t].pc = "setValid"
    /\ \/ SetKey("valid", task[t].new, now + task[t].ttl) /\ Goto(t, "setToken")
       \/ GotoFailed(t, "setToken") /\ UNCHANGED key
    /\ UNCHANGED <<now, user, exp, held, ended>>

\* set_jwt_token, and the answer hands the token out.
SetJwtToken(t) ==
    /\ task[t].pc = "setToken"
    /\ \/ SetKey("token", task[t].new, now + task[t].ttl)
       \/ RedisFails /\ UNCHANGED key
    /\ held' = held \cup {task[t].new}
    /\ TaskStep(t, Idle)
    /\ UNCHANGED <<now, user, exp, ended>>

-----------------------------------------------------------------------------
(***************************************************************************)
(* Using a session: get_authenticated_balances_overview, which caches its  *)
(* answer under the session; the other cached answers do the same.         *)
(***************************************************************************)
OverviewBegin(t, j) ==
    /\ Authorized(j) /\ ~Present("data", j)
    /\ Begin(t, [Idle EXCEPT !.pc = "ttl", !.op = "overview", !.jti = j])
    /\ UNCHANGED <<now, user, exp, key, held, ended>>

\* get_jwt_token: the token's remaining time, or the fallback.
OverviewTtl(t) ==
    LET j == task[t].jti
        known == Present("token", j) /\ exp[j] > now
    IN
    /\ task[t].pc = "ttl"
    /\ \/ TaskStep(t, [task[t] EXCEPT !.pc = "store",
                                      !.ttl = IF known THEN exp[j] - now ELSE Fallback])
       \/ RedisFails /\ TaskStep(t, [task[t] EXCEPT !.pc = "store", !.ttl = Fallback])
    /\ UNCHANGED <<now, user, exp, key, held, ended>>

\* set_with_ttl; nobody looks whether the session is still valid.
OverviewStore(t) ==
    /\ task[t].pc = "store"
    /\ \/ SetKey("data", task[t].jti, now + task[t].ttl)
       \/ RedisFails /\ UNCHANGED key
    /\ TaskStep(t, Idle)
    /\ UNCHANGED <<now, user, exp, held, ended>>

-----------------------------------------------------------------------------
(***************************************************************************)
(* Ending sessions: change_user_password, delete_user_account,             *)
(* logout_user.                                                            *)
(***************************************************************************)
PasswordBegin(t, j) ==
    /\ Authorized(j)
    /\ Begin(t, [Idle EXCEPT !.pc = "verify", !.op = "password", !.jti = j])
    /\ UNCHANGED <<now, user, exp, key, held, ended>>

\* get_user_by_id and verify_password; a wrong password or no user ends it.
PasswordVerify(t) ==
    /\ task[t].pc = "verify"
    /\ \/ UserExists /\ Goto(t, "update")
       \/ TaskStep(t, Idle)
    /\ UNCHANGED <<now, user, exp, key, held, ended>>

\* update_user_password; without a row nothing changes.
PasswordUpdate(t, p) ==
    /\ task[t].pc = "update"
    /\ user' = IF UserExists THEN p ELSE user
    /\ Goto(t, "scan")
    /\ UNCHANGED <<now, exp, key, held, ended>>

\* The connections are disconnected first: see ConnectionSync.
DeleteBegin(t, j) ==
    /\ Authorized(j)
    /\ Begin(t, [Idle EXCEPT !.pc = "delete", !.op = "delete", !.jti = j])
    /\ UNCHANGED <<now, user, exp, key, held, ended>>

\* delete_user
DeleteUser(t) ==
    /\ task[t].pc = "delete"
    /\ user' = Deleted
    /\ Goto(t, "scan")
    /\ UNCHANGED <<now, exp, key, held, ended>>

\* Logging out needs a token that has not expired, and no session.
LogoutBegin(t, j) ==
    /\ TokenAccepted(j)
    /\ Begin(t, [Idle EXCEPT !.pc = "delToken", !.op = "logout", !.jti = j])
    /\ UNCHANGED <<now, user, exp, key, held, ended>>

\* invalidate_session: when the first deletion fails the second is not tried.
LogoutDelToken(t) ==
    /\ task[t].pc = "delToken"
    /\ \/ SetKey("token", task[t].jti, 0) /\ Goto(t, "delValid")
       \/ GotoFailed(t, "scan") /\ UNCHANGED key
    /\ UNCHANGED <<now, user, exp, held, ended>>

LogoutDelValid(t) ==
    /\ task[t].pc = "delValid"
    /\ \/ SetKey("valid", task[t].jti, 0) /\ Goto(t, "scan")
       \/ GotoFailed(t, "scan") /\ UNCHANGED key
    /\ UNCHANGED <<now, user, exp, held, ended>>

\* Mutant: only the cached data is looked for.
ScannedDataOnly(j) == {k \in {"data"} : Present(k, j)}
\* KEYS {jti}*: what invalidate_pattern and clear_jwt_scoped_data delete.
Scanned(j) == {k \in Kind : Present(k, j)}

ScanKeys(t) ==
    /\ task[t].pc = "scan"
    /\ \/ TaskStep(t, [task[t] EXCEPT !.pc = "clear", !.keys = Scanned(task[t].jti)])
       \/ GotoFailed(t, "clear")
    /\ UNCHANGED <<now, user, exp, key, held, ended>>

\* One DEL per key found; a failing one leaves the rest.
ClearKey(t, k) ==
    /\ task[t].pc = "clear" /\ k \in task[t].keys
    /\ \/ /\ SetKey(k, task[t].jti, 0)
          /\ TaskStep(t, [task[t] EXCEPT !.keys = @ \ {k}])
       \/ /\ RedisFails
          /\ TaskStep(t, [task[t] EXCEPT !.keys = {}, !.clean = FALSE])
          /\ UNCHANGED key
    /\ UNCHANGED <<now, user, exp, held, ended>>

\* The answer reports success whatever Redis said.
Answer(t) ==
    /\ task[t].pc = "clear" /\ task[t].keys = {}
    /\ ended' = IF task[t].clean THEN ended \cup {task[t].jti} ELSE ended
    /\ TaskStep(t, Idle)
    /\ UNCHANGED <<now, user, exp, key, held>>

\* A handler stops at an await: its database call fails, the client hangs up
\* or the process restarts.
Dropped(t) ==
    /\ task[t].pc # "idle"
    /\ TaskStep(t, Idle)
    /\ UNCHANGED <<now, user, exp, key, held, ended>>

-----------------------------------------------------------------------------
IssueNext(t) ==
    \/ \E p \in Password : Register(t, p) \/ Login(t, p)
    \/ \E j \in Jti : RefreshBegin(t, j)
    \/ RefreshLoadUser(t) \/ SetSessionValid(t) \/ SetJwtToken(t)

OverviewNext(t) ==
    \/ \E j \in Jti : OverviewBegin(t, j)
    \/ OverviewTtl(t) \/ OverviewStore(t)

EndNext(t) ==
    \/ \E j \in Jti : PasswordBegin(t, j) \/ DeleteBegin(t, j) \/ LogoutBegin(t, j)
    \/ PasswordVerify(t)
    \/ \E p \in Password : PasswordUpdate(t, p)
    \/ DeleteUser(t) \/ LogoutDelToken(t) \/ LogoutDelValid(t)
    \/ ScanKeys(t) \/ \E k \in Kind : ClearKey(t, k)
    \/ Answer(t)

Next ==
    \/ NextTick
    \/ \E t \in Task : IssueNext(t) \/ OverviewNext(t) \/ EndNext(t) \/ Dropped(t)

Spec == Init /\ [][Next]_vars

-----------------------------------------------------------------------------
(***************************************************************************)
(* Properties.                                                             *)
(***************************************************************************)
\* Every variable has its type.
TypeOK ==
    /\ now \in Time
    /\ user \in Password \cup {NoUser, Deleted}
    /\ exp \in [Jti -> 0..(MaxTime + Lifetime) \cup {Never}]
    /\ key \in [Kind -> [Jti -> Expiry]]
    /\ task \in [Task -> TaskType]
    /\ held \subseteq Jti /\ ended \subseteq Jti

(***************************************************************************)
(* A session that a logout, a password change or a deletion ended, without *)
(* a failing Redis call, is refused by auth_middleware for good: no        *)
(* refresh or login in flight brings its key back.                         *)
(***************************************************************************)
EndedStaysEnded == \A j \in ended : ~Present("valid", j)

(***************************************************************************)
(* A refresh that comes after its session was ended, or after the account  *)
(* was deleted, by any session, opens no session.                          *)
(***************************************************************************)
NoSessionAfterTheEnd == \A t \in Task : task[t].late => task[t].op # "issue"

(***************************************************************************)
(* A session opens once and never again: the handlers implement            *)
(* SessionLifecycle.  A session is new while its token is being issued.    *)
(***************************************************************************)
BeingIssued(j) == \E t \in Task : task[t].pc = "setValid" /\ task[t].new = j

Status == [j \in Jti |-> IF exp[j] = Never \/ BeingIssued(j) THEN "new"
                         ELSE IF Present("valid", j) THEN "open" ELSE "over"]

Lifecycle == INSTANCE SessionLifecycle WITH status <- Status
LifecycleSpec == Lifecycle!Spec
=============================================================================
