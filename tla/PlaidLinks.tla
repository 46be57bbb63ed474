----------------------------- MODULE PlaidLinks -----------------------------
(* The accounts page of a user of Plaid: the choice of the provider, the     *)
(* hook usePlaidLinkFlow with Plaid Link's window (external), and the list   *)
(* of usePlaidConnections.  A user of Teller who launches Plaid Link becomes *)
(* a user of Plaid first; of Teller's own cards see TellerLinks.             *)
EXTENDS BankLinks

VARIABLES
    pendingConnect,         \* pendingConnectProviderRef names Plaid
    linkToken,              \* the token, and whether Link is ready for it
    linkWindow,
    launching               \* history: a click on Launch Plaid Link is not answered yet

plaidVars == <<pendingConnect, linkToken, linkWindow, launching>>
plaidLinksVars == <<banksVars, plaidVars>>

Selecting == \E e \in chains : e.job = "select"

(* Launch Plaid Link, disabled only while the provider is being chosen.      *)
LaunchPlaidLink ==
    /\ ~Selecting /\ modal = NoModal /\ launching' = TRUE
    /\ IF selectedProvider = "plaid"
       THEN Starts(Chain("connect", "token", NoBank, {})) /\ UNCHANGED pendingConnect
       ELSE Starts(Chain("select", "select", NoBank, {})) /\ pendingConnect' = TRUE
    /\ UNCHANGED <<linked, gone, selectedProvider, pageList, unsure, linkToken, linkWindow>>

(* The choice is stored, or not.  Plaid's hook, enabled by it, loads its     *)
(* list, and an effect does the pending connect.                             *)
\* Mutant: the pending connect is forgotten.
ProviderSelectedOnly(e) ==
    /\ Ended(e, "select", "select", {"done"}) /\ selectedProvider' = "plaid"
    /\ Swap(e, {Chain("list", "load", NoBank, {})})
    /\ loading' = TRUE /\ pendingConnect' = FALSE
    /\ UNCHANGED <<linked, gone, connections, syncingAll, cardLoading, modal, clicks, unsure,
                   linkToken, linkWindow, launching>>
ProviderSelected(e) ==
    /\ Ended(e, "select", "select", {"done"}) /\ selectedProvider' = "plaid"
    /\ Swap(e, {Chain("list", "load", NoBank, {})} \cup
               (IF pendingConnect THEN {Chain("connect", "token", NoBank, {})} ELSE {}))
    /\ loading' = TRUE /\ pendingConnect' = FALSE
    /\ UNCHANGED <<linked, gone, connections, syncingAll, cardLoading, modal, clicks, unsure,
                   linkToken, linkWindow, launching>>
SelectFails(e) ==
    /\ Ended(e, "select", "select", {"failed"}) /\ Swap(e, {}) /\ launching' = FALSE
    /\ UNCHANGED <<linked, gone, selectedProvider, pageList, clicks, unsure, pendingConnect,
                   linkToken, linkWindow>>

(* The token arrives: the window opens when Link is ready for it, and at     *)
(* once while Link is still ready for the token before.                      *)
TokenArrives(e) ==
    /\ Ended(e, "connect", "token", {"done"}) /\ Swap(e, {})
    /\ linkToken' = "waiting"
    /\ linkWindow' = IF linkToken = "ready" THEN "open" ELSE linkWindow
    /\ launching' = (launching /\ linkToken # "ready")
    /\ UNCHANGED <<linked, gone, selectedProvider, pageList, clicks, unsure, pendingConnect>>
TokenFails(e) ==
    /\ Ended(e, "connect", "token", {"failed"}) /\ Swap(e, {}) /\ launching' = FALSE
    /\ UNCHANGED <<linked, gone, selectedProvider, pageList, clicks, unsure, pendingConnect,
                   linkToken, linkWindow>>
LinkReady ==
    /\ linkToken = "waiting" /\ linkToken' = "ready" /\ linkWindow' = "open" /\ launching' = FALSE
    /\ UNCHANGED <<banksVars, pendingConnect>>
LinkExit ==
    /\ linkWindow = "open" /\ linkWindow' = "closed" /\ linkToken' = "none"
    /\ UNCHANGED <<banksVars, pendingConnect, launching>>

(* The user linked a bank: handleSuccess exchanges the public token, reads   *)
(* the list, syncs its first bank and reads the list again, whether or not   *)
(* the sync failed.  A list that fails counts as empty.                      *)
LinkSuccess ==
    /\ linkWindow = "open" /\ linkWindow' = "closed" /\ Banks # Linked \cup gone
    /\ Starts(Chain("link", "exchange", NoBank, {}))
    /\ UNCHANGED <<linked, gone, selectedProvider, pageList, unsure, pendingConnect, linkToken,
                   launching>>
Exchanged(e) ==
    /\ \/ Ended(e, "link", "exchange", {"done"}) /\ Loads(e)
       \/ Ended(e, "link", "exchange", {"failed"}) /\ Swap(e, {}) /\ UNCHANGED loading
    /\ UNCHANGED <<linked, gone, selectedProvider, connections, syncingAll, cardLoading, modal,
                   clicks, unsure, plaidVars>>
LinkListed(e) ==
    /\ e.job = "link" /\ e.left = {} /\ Shown(e, cardLoading)
    /\ IF e.phase = "done" /\ e.got # <<>>
       THEN Swap(e, {[Step(e, "sync") EXCEPT !.left = {Head(e.got)}]})
       ELSE Swap(e, {})
    /\ UNCHANGED <<linked, gone, selectedProvider, syncingAll, modal, clicks, plaidVars>>
LinkSynced(e) ==
    /\ Ended(e, "link", "sync", {"done", "failed"}) /\ Loads(e)
    /\ UNCHANGED <<linked, gone, selectedProvider, connections, syncingAll, cardLoading, modal,
                   clicks, unsure, plaidVars>>
LinkShown(e) ==
    /\ e.job = "link" /\ e.left # {} /\ Shown(e, cardLoading) /\ Swap(e, {})
    /\ UNCHANGED <<linked, gone, selectedProvider, syncingAll, modal, clicks, plaidVars>>

PlaidParts == pendingConnect = FALSE /\ linkToken = "none" /\ linkWindow = "closed" /\ launching = FALSE
PlaidInit ==
    /\ PlaidParts
    /\ \/ /\ BanksInit("plaid") /\ loading = TRUE
          /\ chains = {[no |-> 0, job |-> "list", step |-> "load", phase |-> "sent",
                        bank |-> NoBank, left |-> {}, got |-> <<>>, alone |-> TRUE]}
       \/ BanksInit("teller") /\ loading = FALSE /\ chains = {}
PlaidNext ==
    \/ (BanksClicks \/ BanksCalls) /\ UNCHANGED plaidVars
    \/ LaunchPlaidLink \/ LinkReady \/ LinkExit \/ LinkSuccess
    \/ \E e \in chains : \/ ProviderSelected(e) \/ SelectFails(e) \/ TokenArrives(e) \/ TokenFails(e)
                         \/ Exchanged(e) \/ LinkListed(e) \/ LinkSynced(e) \/ LinkShown(e)
PlaidSpec == PlaidInit /\ [][PlaidNext]_plaidLinksVars

(* Calls are answered, and Link's script becomes ready for a token.          *)
PlaidReached == \E e \in chains : CallReached(e) /\ UNCHANGED plaidVars
PlaidHandled ==
    \E e \in chains : ProviderSelected(e) \/ SelectFails(e) \/ TokenArrives(e) \/ TokenFails(e)
PlaidFairness ==
    WF_plaidLinksVars(LinkReady) /\ WF_plaidLinksVars(PlaidReached) /\ WF_plaidLinksVars(PlaidHandled)
LivePlaidSpec == PlaidSpec /\ PlaidFairness
-----------------------------------------------------------------------------
(* "Loading/syncing existing connections must not block opening Plaid Link"  *)
(* (AccountsPage.tsx:780): a click opens the window or reports an error,     *)
(* also when the provider had to be chosen first.                            *)
LaunchAnswered == launching ~> ~launching
=============================================================================
