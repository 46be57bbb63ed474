---------------------------- MODULE TellerLinks -----------------------------
(* The accounts page of a user of Teller: useTellerLinkFlow over the list of *)
(* BankLinks, and useTellerConnect with Teller Connect's script and window   *)
(* (external).  The window opens when the sync of a card fails because the   *)
(* bank wants its user to log in again.                                      *)
EXTENDS BankLinks

CONSTANTS
    MaxRetries,     \* 5 in the code
    NoTimer,
    MaxLogins       \* bound: logins in the window

ASSUME TellerAssumption == NoTimer \notin Nat /\ MaxRetries \in Nat /\ MaxLogins \in Nat

VARIABLES
    script,                 \* Teller's script, and the instance set up when it has loaded
    pendingOpen,            \* pendingOpenRef
    tellerWindow,           \* the bank the window was opened for
    connectionIdRef, pendingReauth,
    blind,                  \* syncs started before there was an instance: their open() has none
    retryAttempts, retryTimeout,
    timers,                 \* the timers that will fire
    mounted, logins,
    crossed                 \* history: open() was called while a window or a store was under way

reauthVars == <<tellerWindow, connectionIdRef, pendingReauth, crossed>>
retryVars == <<retryAttempts, retryTimeout, timers>>
tellerVars == <<script, pendingOpen, reauthVars, blind, retryVars, mounted, logins>>
tellerLinksVars == <<banksVars, tellerVars>>

Storing == \E e \in chains : e.job = "reauth" /\ e.step = "store"

(* The script loads, and an open() that waited for it goes on; a script that *)
(* failed is not asked for again.                                            *)
ScriptLoads ==
    /\ mounted /\ script = "loading" /\ script' = "ready" /\ pendingOpen' = FALSE
    /\ tellerWindow' = IF pendingOpen THEN connectionIdRef ELSE NoBank
    /\ UNCHANGED <<banksVars, connectionIdRef, pendingReauth, crossed, blind, retryVars, mounted, logins>>
ScriptFails ==
    /\ script = "loading" /\ script' = "failed"
    /\ UNCHANGED <<banksVars, pendingOpen, reauthVars, blind, retryVars, mounted, logins>>

(* A click on the page; a sync keeps the open() of its time.                 *)
TellerClicks ==
    /\ mounted /\ tellerWindow = NoBank /\ BanksClicks
    /\ blind' = IF script = "ready" \/ clicks' = clicks THEN blind ELSE blind \cup {clicks}
    /\ UNCHANGED <<script, pendingOpen, reauthVars, retryVars, mounted, logins>>

(* The sync says that the bank wants a login: open(bank).                    *)
\* Mutant: the ref is not set.
SyncOneNeedsAnyLogin(e) ==
    /\ Ended(e, "syncOne", "sync", {"failed"}) /\ mounted /\ Swap(e, {})
    /\ cardLoading' = cardLoading \ {e.bank}
    /\ pendingReauth' = e.bank
    /\ crossed' = (crossed \/ tellerWindow # NoBank \/ Storing \/ pendingOpen)
    /\ IF e.no \in blind
       THEN pendingOpen' = TRUE /\ UNCHANGED tellerWindow
       ELSE tellerWindow' = (IF tellerWindow = NoBank THEN e.bank ELSE tellerWindow) /\ UNCHANGED pendingOpen
    /\ UNCHANGED <<linked, gone, selectedProvider, connections, loading, syncingAll, modal, clicks,
                   unsure, script, connectionIdRef, blind, retryVars, mounted, logins>>
SyncOneNeedsLogin(e) ==
    /\ Ended(e, "syncOne", "sync", {"failed"}) /\ mounted /\ Swap(e, {})
    /\ cardLoading' = cardLoading \ {e.bank}
    /\ pendingReauth' = e.bank /\ connectionIdRef' = e.bank
    /\ crossed' = (crossed \/ tellerWindow # NoBank \/ Storing \/ pendingOpen)
    /\ IF e.no \in blind
       THEN pendingOpen' = TRUE /\ UNCHANGED tellerWindow
       ELSE tellerWindow' = (IF tellerWindow = NoBank THEN e.bank ELSE tellerWindow) /\ UNCHANGED pendingOpen
    /\ UNCHANGED <<linked, gone, selectedProvider, connections, loading, syncingAll, modal, clicks,
                   unsure, script, blind, retryVars, mounted, logins>>

(* The user leaves the window, or has logged in: the enrollment is stored    *)
(* under the connection the ref names then.                                  *)
WindowExit ==
    /\ tellerWindow # NoBank /\ tellerWindow' = NoBank /\ connectionIdRef' = NoBank
    /\ UNCHANGED <<banksVars, script, pendingOpen, pendingReauth, crossed, blind, retryVars, mounted, logins>>
WindowSuccess ==
    /\ mounted /\ tellerWindow # NoBank /\ tellerWindow' = NoBank
    /\ connectionIdRef # NoBank \/ Banks # Linked \cup gone
    /\ logins < MaxLogins /\ logins' = logins + 1
    /\ chains' = chains \cup {[Chain("reauth", "store", connectionIdRef, {tellerWindow})
                               EXCEPT !.no = MaxClicks + logins']}
    /\ UNCHANGED <<linked, gone, selectedProvider, pageList, clicks, unsure, script, pendingOpen,
                   connectionIdRef, pendingReauth, crossed, blind, retryVars, mounted>>

(* handleConnected syncs the bank that asked, if one did, and reads the      *)
(* list; else, or when that sync fails, it reads the list until it shows     *)
(* balances.                                                                 *)
RetryOf(e) == [Step(e, "load") EXCEPT !.job = "retry"]
Stored(e) ==
    /\ Ended(e, "reauth", "store", {"done"}) /\ connectionIdRef' = NoBank /\ pendingReauth' = NoBank
    /\ IF pendingReauth = NoBank
       THEN Swap(e, {RetryOf(e)}) /\ loading' = TRUE
       ELSE Swap(e, {[Step(e, "sync") EXCEPT !.bank = pendingReauth]}) /\ UNCHANGED loading
    /\ UNCHANGED <<linked, gone, selectedProvider, connections, syncingAll, cardLoading, modal,
                   clicks, unsure, script, pendingOpen, tellerWindow, crossed, blind, retryVars, mounted, logins>>
StoreFails(e) ==
    /\ Ended(e, "reauth", "store", {"failed"}) /\ Swap(e, {}) /\ connectionIdRef' = NoBank
    /\ UNCHANGED <<linked, gone, selectedProvider, pageList, clicks, unsure, script, pendingOpen,
                   tellerWindow, pendingReauth, crossed, blind, retryVars, mounted, logins>>
ReauthSynced(e) ==
    /\ \/ Ended(e, "reauth", "sync", {"done"}) /\ Swap(e, {Step(e, "load")})
       \/ Ended(e, "reauth", "sync", {"failed"}) /\ Swap(e, {RetryOf(e)})
    /\ loading' = TRUE
    /\ UNCHANGED <<linked, gone, selectedProvider, connections, syncingAll, cardLoading, modal,
                   clicks, unsure, tellerVars>>
ReauthShown(e) ==
    /\ e.job = "reauth" /\ Shown(e, cardLoading) /\ Swap(e, {})
    /\ UNCHANGED <<linked, gone, selectedProvider, syncingAll, modal, clicks, tellerVars>>

(* loadConnectionsWithRetry: the list has come, with balances or without.    *)
\* Mutant: the timer that was set is not cleared.
RetryShownTwice(e, populated) ==
    /\ e.job = "retry" /\ Shown(e, cardLoading) /\ Swap(e, {})
    /\ populated => e.phase = "done" /\ e.got # <<>>
    /\ IF populated \/ retryAttempts >= MaxRetries
       THEN retryAttempts' = 0 /\ retryTimeout' = NoTimer /\ UNCHANGED timers
       ELSE /\ retryAttempts' = retryAttempts + 1 /\ retryTimeout' = e.no
            /\ timers' = timers \cup {e.no}
    /\ UNCHANGED <<linked, gone, selectedProvider, syncingAll, modal, clicks, script, pendingOpen,
                   reauthVars, blind, mounted, logins>>
\* Mutant: the attempts are not counted.
RetryShownForEver(e, populated) ==
    LET others == timers \ {retryTimeout}
    IN /\ e.job = "retry" /\ Shown(e, cardLoading) /\ Swap(e, {})
       /\ populated => e.phase = "done" /\ e.got # <<>>
       /\ IF populated
          THEN retryTimeout' = NoTimer /\ timers' = others
          ELSE retryTimeout' = e.no /\ timers' = others \cup {e.no}
       /\ UNCHANGED <<linked, gone, selectedProvider, syncingAll, modal, clicks, script, pendingOpen,
                      reauthVars, blind, retryAttempts, mounted, logins>>
RetryShown(e, populated) ==
    LET others == timers \ {retryTimeout}
    IN /\ e.job = "retry" /\ Shown(e, cardLoading) /\ Swap(e, {})
       /\ populated => e.phase = "done" /\ e.got # <<>>
       /\ IF populated \/ retryAttempts >= MaxRetries
          THEN retryAttempts' = 0 /\ retryTimeout' = NoTimer /\ timers' = others
          ELSE /\ retryAttempts' = retryAttempts + 1 /\ retryTimeout' = e.no
               /\ timers' = others \cup {e.no}
       /\ UNCHANGED <<linked, gone, selectedProvider, syncingAll, modal, clicks, script, pendingOpen,
                      reauthVars, blind, mounted, logins>>
TimerFires(n) ==
    /\ n \in timers /\ timers' = timers \ {n} /\ retryTimeout' = NoTimer
    /\ chains' = chains \cup {[Chain("retry", "load", NoBank, {}) EXCEPT !.no = n]} /\ loading' = TRUE
    /\ UNCHANGED <<linked, gone, selectedProvider, connections, syncingAll, cardLoading, modal,
                   clicks, unsure, script, pendingOpen, reauthVars, blind, retryAttempts, mounted, logins>>

(* The page goes away: its timer is cleared and the instance destroyed; the  *)
(* chains go on.                                                             *)
Unmount ==
    /\ mounted /\ mounted' = FALSE /\ tellerWindow' = NoBank
    /\ timers' = timers \ {retryTimeout} /\ retryTimeout' = NoTimer
    /\ UNCHANGED <<banksVars, script, pendingOpen, connectionIdRef, pendingReauth, crossed, blind,
                   retryAttempts, logins>>

TellerParts ==
    /\ script = "loading" /\ pendingOpen = FALSE /\ tellerWindow = NoBank
    /\ connectionIdRef = NoBank /\ pendingReauth = NoBank /\ blind = {} /\ mounted = TRUE
    /\ retryAttempts = 0 /\ retryTimeout = NoTimer /\ timers = {} /\ crossed = FALSE
    /\ logins = 0
TellerInit ==
    /\ TellerParts /\ BanksInit("teller") /\ loading = TRUE
    /\ chains = {[no |-> MaxClicks, job |-> "list", step |-> "load", phase |-> "sent", bank |-> NoBank,
                  left |-> {}, got |-> <<>>, alone |-> TRUE]}
TellerNext ==
    \/ BanksCalls /\ UNCHANGED tellerVars
    \/ TellerClicks \/ ScriptLoads \/ ScriptFails \/ WindowExit \/ WindowSuccess \/ Unmount
    \/ \E e \in chains : \/ SyncOneNeedsLogin(e) \/ Stored(e) \/ StoreFails(e)
                         \/ ReauthSynced(e) \/ ReauthShown(e)
                         \/ \E populated \in BOOLEAN : RetryShown(e, populated)
    \/ \E n \in timers : TimerFires(n)
TellerSpec == TellerInit /\ [][TellerNext]_tellerLinksVars

(* Calls are answered, answers handled, and timers fire.                     *)
RetryReached == \E e \in chains : e.job = "retry" /\ CallReached(e) /\ UNCHANGED tellerVars
RetryHandled == \E e \in chains, populated \in BOOLEAN : RetryShown(e, populated)
SomeTimerFires == \E n \in timers : TimerFires(n)
TellerFairness ==
    /\ WF_tellerLinksVars(RetryReached) /\ WF_tellerLinksVars(RetryHandled)
    /\ WF_tellerLinksVars(SomeTimerFires)
LiveTellerSpec == TellerSpec /\ TellerFairness
-----------------------------------------------------------------------------
(* However many chains read the list until it shows balances, there is one   *)
(* timer at most and the ref knows it, so that leaving the page stops it.    *)
OneRetryTimer == timers = {retryTimeout} \ {NoTimer}

(* The reading does end, also when the balances never come and although two  *)
(* chains share the count.                                                   *)
RetriesEnd == []<>(timers = {} /\ ~\E e \in chains : e.job = "retry")

(* A login is stored under the connection whose login was asked for, unless  *)
(* another bank asked meanwhile.                                             *)
StoredUnderItsBank ==
    \A e \in chains : e.job = "reauth" /\ e.step = "store" /\ ~crossed => e.left = {e.bank}
=============================================================================
