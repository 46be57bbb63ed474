--------------------------- MODULE ConnectionSync ---------------------------
(***************************************************************************)
(* Bank connections of one user: linking a provider item, syncing it, and  *)
(* disconnecting it.                                                       *)
(*                                                                         *)
(* Every request handler and the midnight worker is a task that awaits     *)
(* PostgreSQL, Redis or the provider between its steps, so each await is   *)
(* a step of its own and tasks interleave between them.  A database call   *)
(* is one transaction: it happens completely or fails without effect.      *)
(*                                                                         *)
(* A provider item has one account here; merging and de-duplicating rows   *)
(* is outside this module.  Dates are day numbers.                         *)
(***************************************************************************)
EXTENDS Integers

CONSTANTS
    Item,            \* provider items (enrollments); provider_connections.item_id
    Teller,          \* the items of the Teller provider; the others are Plaid's
    ConnId,          \* connection UUIDs
    AcctId,          \* account UUIDs
    Txn,             \* provider transactions
    TxnItem,         \* TxnItem[t]: the item a transaction belongs to
    TxnDate,         \* TxnDate[t]: its booking day
    Session,         \* JWT ids requests arrive with
    Syncer,          \* tasks that sync: request handlers and the midnight worker
    Linker,          \* tasks that link an item
    Remover,         \* tasks that disconnect a connection
    Droppable,       \* the syncers a client that hangs up, or a restart, may end
    MaxDay,          \* bound on the calendar
    PostingLag,      \* days the bank may take to report a booked transaction
    SafetyMarginDays,      \* SAFETY_MARGIN_DAYS
    DefaultFirstSyncDays,  \* DEFAULT_FIRST_SYNC_DAYS
    MaxLookback,           \* 365 * MAX_SYNC_YEARS
    NoRow, NoAcct, NoItem  \* absent rows and values

Days == 0..MaxDay
Never == -1

ASSUME ConstantsAssumption ==
    /\ Teller \subseteq Item
    /\ Droppable \subseteq Syncer
    /\ \A t \in Txn : TxnItem[t] \in Item
    /\ \A t \in Txn : TxnDate[t] \in Int
    /\ MaxDay \in Nat
    /\ NoItem \notin Item

(***************************************************************************)
(* The windows cover what they are meant to: the margin is at least the    *)
(* bank's reporting delay, and the look-back cap is no shorter than the    *)
(* first window (2 days, and 5 years against 730 days, in the source).     *)
(***************************************************************************)
ASSUME WindowAssumption ==
    /\ PostingLag \in Nat
    /\ SafetyMarginDays \in Nat
    /\ DefaultFirstSyncDays \in Nat
    /\ MaxLookback \in Nat
    /\ PostingLag <= SafetyMarginDays
    /\ DefaultFirstSyncDays <= MaxLookback

\* "error" stands for both failing statuses, "needs_reauth" and "error".
Status == {"connected", "error"}

\* The columns of a provider_connections row that decide anything.
ConnRow == [id: ConnId, lastSync: Days \cup {Never}, status: Status]
AcctRow == [id: AcctId, conn: ConnId]

ASSUME NullAssumption ==
    Session # {} /\ NoRow \notin ConnRow /\ NoAcct \notin AcctRow \cup AcctId

VARIABLES
    now,         \* today
    postedOn,    \* postedOn[t]: the day the bank began to report t, or Never
    conn,        \* table provider_connections, keyed by item_id (UNIQUE)
    cred,        \* table plaid_credentials: the items that have a row
    account,     \* table accounts: the row of each item's account
    stored,      \* table transactions: the provider transactions that have a row
    tokenCache,  \* Redis {jti}_access_token_{item}: pairs <<session, item>>
    sync, link, unlink,  \* the tasks
    lost,        \* history: transactions missing after a failed write or a disconnect
    alone,       \* history: disconnects whose item nobody has linked meanwhile
    removed,     \* history: items disconnected with success and not linked since
    gone         \* history: those of removed that no sync was writing to

tables == <<conn, cred, account, stored>>
vars == <<now, postedOn, conn, cred, account, stored, tokenCache,
          sync, link, unlink, lost, alone, removed, gone>>

SyncPc == {"idle", "next", "creds", "accounts", "mapping",
           "fetch", "store"}
LinkPc == {"idle", "storeCreds", "cacheToken", "saveConn", "accounts", "saveAgain"}
UnlinkPc == {"idle", "caches", "transactions", "accounts", "creds", "conn"}

SyncTask == [pc: SyncPc, snap: [Item -> ConnRow \cup {NoRow}],
             item: Item \cup {NoItem}, start: Days,
             acct: AcctId \cup {NoAcct}, batch: SUBSET Txn]
LinkTask == [pc: LinkPc, item: Item \cup {NoItem}, row: ConnRow \cup {NoRow},
             session: Session]
UnlinkTask == [pc: UnlinkPc, item: Item \cup {NoItem}, session: Session]

NoSnap == [i \in Item |-> NoRow]
\* A sync that works on no connection.
Between(pc, snap) == [pc |-> pc, snap |-> snap, item |-> NoItem, start |-> 0,
                      acct |-> NoAcct, batch |-> {}]
SyncIdle == Between("idle", NoSnap)
AnySession == CHOOSE s \in Session : TRUE
LinkIdle == [pc |-> "idle", item |-> NoItem, row |-> NoRow, session |-> AnySession]
UnlinkIdle == [pc |-> "idle", item |-> NoItem, session |-> AnySession]

Init ==
    /\ now = 0
    /\ postedOn = [t \in Txn |-> Never]
    /\ conn = [i \in Item |-> NoRow]
    /\ cred = {}
    /\ account = [i \in Item |-> NoAcct]
    /\ stored = {}
    /\ tokenCache = {}
    /\ sync = [p \in Syncer |-> SyncIdle]
    /\ link = [l \in Linker |-> LinkIdle]
    /\ unlink = [r \in Remover |-> UnlinkIdle]
    /\ lost = {}
    /\ alone = {}
    /\ removed = {}
    /\ gone = {}

(***************************************************************************)
(* Tables.                                                                 *)
(***************************************************************************)
TxnsOf(i) == {t \in Txn : TxnItem[t] = i}
Linked(i) == conn[i] # NoRow
LiveIds == {conn[i].id : i \in {j \in Item : Linked(j)}}

\* Mutant: the conflict clause overwrites the id as well.
SavedReplacesId(i, row) == row
\* save_provider_connection: ON CONFLICT (item_id) every column but the id.
Saved(i, row) == IF Linked(i) THEN [row EXCEPT !.id = conn[i].id] ELSE row

\* The items whose account row points at connection c.
AccountsOf(c) == {i \in Item : account[i] # NoAcct /\ account[i].conn = c}
\* A row of transactions keeps its account from being deleted (no cascade).
Referenced(c) == \E i \in AccountsOf(c) : stored \cap TxnsOf(i) # {}

\* A new UUID is one that neither a table nor a running task remembers.
FreshConnIds ==
    ConnId \ (LiveIds
              \cup (UNION {{sync[p].snap[i].id :
                              i \in {j \in Item : sync[p].snap[j] # NoRow}} : p \in Syncer})
              \cup {link[l].row.id : l \in {k \in Linker : link[k].row # NoRow}})
FreshAcctIds ==
    AcctId \ ({account[i].id : i \in {j \in Item : account[j] # NoAcct}}
              \cup {sync[p].acct : p \in Syncer})

\* Mutant: no foreign key from accounts to provider_connections.
CanUpsertAccountUnchecked(c) == c \in ConnId
\* upsert_account: a foreign key to the connection; the id survives a conflict.
CanUpsertAccount(c) == c \in LiveIds
UpsertAccount(i, c) ==
    /\ CanUpsertAccount(c)
    /\ IF account[i] = NoAcct
       THEN \E a \in FreshAcctIds :
                account' = [account EXCEPT ![i] = [id |-> a, conn |-> c]]
       ELSE account' = [account EXCEPT ![i].conn = c]

(***************************************************************************)
(* The bank and the calendar.                                              *)
(***************************************************************************)
\* The bank reports a booked transaction at most PostingLag days late.
BankPosts(t) ==
    /\ postedOn[t] = Never
    /\ TxnDate[t] <= now /\ now <= TxnDate[t] + PostingLag
    /\ postedOn' = [postedOn EXCEPT ![t] = now]
    /\ UNCHANGED <<now, tables, tokenCache, sync, link, unlink, lost, alone, removed, gone>>

NextDay ==
    /\ now < MaxDay
    /\ now' = now + 1
    /\ UNCHANGED <<postedOn, tables, tokenCache, sync, link, unlink, lost, alone, removed, gone>>

TokenExpires(s, i) ==
    /\ <<s, i>> \in tokenCache
    /\ tokenCache' = tokenCache \ {<<s, i>>}
    /\ UNCHANGED <<now, postedOn, tables, sync, link, unlink, lost, alone, removed, gone>>

(***************************************************************************)
(* calculate_sync_date_range_static.                                       *)
(***************************************************************************)
MaxOf(a, b) == IF a >= b THEN a ELSE b
MinOf(a, b) == IF a <= b THEN a ELSE b
\* Mutant: no safety margin.
StartDateNoMargin(last, today) ==
    IF last = Never
    THEN today - DefaultFirstSyncDays
    ELSE MinOf(MaxOf(last, today - MaxLookback), today)

StartDate(last, today) ==
    IF last = Never
    THEN today - DefaultFirstSyncDays
    ELSE MinOf(MaxOf(last - SafetyMarginDays, today - MaxLookback), today)

\* What the provider answers for a window: the reported transactions in it.
Reported(i, from, to) ==
    {t \in TxnsOf(i) : /\ postedOn[t] # Never
                       /\ from <= TxnDate[t] /\ TxnDate[t] <= to}

(***************************************************************************)
(* Syncing: sync_authenticated_provider_transactions for one connection,   *)
(* sync_all_user_connections for all of them (the endpoint and the         *)
(* midnight worker).  A task works on the row it loaded, not on the table. *)
(***************************************************************************)
SyncStep(p, task) == sync' = [sync EXCEPT ![p] = task]
\* Mutant: the first connection to end ends the whole run.
NextConnectionAborts(p) == Between("next", NoSnap)
NextConnection(p) == Between("next", [sync[p].snap EXCEPT ![sync[p].item] = NoRow])

SyncRequest(p, i) ==
    /\ sync[p].pc = "idle" /\ Linked(i)
    /\ SyncStep(p, [SyncIdle EXCEPT !.pc = "creds", !.snap[i] = conn[i],
                                    !.item = i, !.start = now])
    /\ UNCHANGED <<now, postedOn, tables, tokenCache, link, unlink, lost, alone, removed, gone>>

SyncAll(p) ==
    /\ sync[p].pc = "idle"
    /\ SyncStep(p, Between("next", conn))
    /\ UNCHANGED <<now, postedOn, tables, tokenCache, link, unlink, lost, alone, removed, gone>>

SyncStart(p, i) ==
    /\ sync[p].pc = "next" /\ sync[p].snap[i] # NoRow
    /\ SyncStep(p, [sync[p] EXCEPT !.pc = "creds", !.item = i, !.start = now])
    /\ UNCHANGED <<now, postedOn, tables, tokenCache, link, unlink, lost, alone, removed, gone>>

SyncDone(p) ==
    /\ sync[p].pc = "next" /\ sync[p].snap = NoSnap
    /\ SyncStep(p, SyncIdle)
    /\ UNCHANGED <<now, postedOn, tables, tokenCache, link, unlink, lost, alone, removed, gone>>

\* Mutant: a missing credential is recorded like a provider error.
SyncCredentialsRecorded(p) ==
    LET i == sync[p].item IN
    /\ sync[p].pc = "creds"
    /\ \/ /\ i \in cred
          /\ SyncStep(p, [sync[p] EXCEPT !.pc = "accounts"])
          /\ UNCHANGED conn
       \/ /\ SyncStep(p, NextConnection(p))
          /\ conn' = [conn EXCEPT ![i] = Saved(i, [sync[p].snap[i] EXCEPT !.status = "error"])]
    /\ UNCHANGED <<now, postedOn, cred, account, stored, tokenCache,
                   link, unlink, lost, alone, removed, gone>>

\* A missing row, or a failing read, ends this connection's sync silently.
SyncCredentials(p) ==
    /\ sync[p].pc = "creds"
    /\ \/ /\ sync[p].item \in cred
          /\ SyncStep(p, [sync[p] EXCEPT !.pc = "accounts"])
       \/ SyncStep(p, NextConnection(p))
    /\ UNCHANGED <<now, postedOn, tables, tokenCache, link, unlink, lost, alone, removed, gone>>

\* The provider refuses: record_connection_error saves the whole copy with its
\* new status; a failing save is ignored.
SyncProviderError(p) ==
    LET i == sync[p].item
        row == [sync[p].snap[i] EXCEPT !.status = "error"]
    IN
    /\ sync[p].pc \in {"accounts", "fetch"}
    /\ conn' \in {conn, [conn EXCEPT ![i] = Saved(i, row)]}
    /\ SyncStep(p, NextConnection(p))
    /\ UNCHANGED <<now, postedOn, cred, account, stored, tokenCache,
                   link, unlink, lost, alone, removed, gone>>

\* upsert_account; a failure (of the call or of the foreign key) is logged only.
SyncUpsertAccount(p) ==
    LET i == sync[p].item IN
    /\ sync[p].pc = "accounts"
    /\ UpsertAccount(i, sync[p].snap[i].id) \/ UNCHANGED account
    /\ SyncStep(p, [sync[p] EXCEPT !.pc = "mapping"])
    /\ UNCHANGED <<now, postedOn, conn, cred, stored, tokenCache,
                   link, unlink, lost, alone, removed, gone>>

\* Teller maps only the accounts that hang off the connection it syncs.
Mappable(p) ==
    LET i == sync[p].item IN
    /\ account[i] # NoAcct
    /\ i \in Teller => account[i].conn = sync[p].snap[i].id

\* get_accounts_for_user: the map from provider accounts to account ids.
SyncMapAccounts(p) ==
    /\ sync[p].pc = "mapping"
    /\ \/ SyncStep(p, [sync[p] EXCEPT !.pc = "fetch",
                          !.acct = IF Mappable(p) THEN account[sync[p].item].id
                                                  ELSE NoAcct])
       \/ SyncStep(p, NextConnection(p))
    /\ UNCHANGED <<now, postedOn, tables, tokenCache, link, unlink, lost, alone, removed, gone>>

\* get_transactions.  Teller's window was computed when the sync began,
\* Plaid's is computed again here.
SyncFetchTransactions(p) ==
    LET i == sync[p].item
        today == IF i \in Teller THEN sync[p].start ELSE now
    IN
    /\ sync[p].pc = "fetch"
    /\ SyncStep(p, [sync[p] EXCEPT !.pc = "store",
          !.batch = Reported(i, StartDate(sync[p].snap[i].lastSync, today), today)])
    /\ UNCHANGED <<now, postedOn, tables, tokenCache, link, unlink, lost, alone, removed, gone>>

\* upsert_transaction needs the mapped account row unless the row exists already.
Insertable(p, t) ==
    \/ t \in stored
    \/ /\ sync[p].acct # NoAcct
       /\ account[sync[p].item] # NoAcct
       /\ account[sync[p].item].id = sync[p].acct

\* A failing write is logged and the sync goes on.
SyncStoreTransaction(p, t) ==
    /\ sync[p].pc = "store" /\ t \in sync[p].batch
    /\ SyncStep(p, [sync[p] EXCEPT !.batch = @ \ {t}])
    /\ \/ /\ Insertable(p, t)
          /\ stored' = stored \cup {t}
          /\ lost' = lost \ {t}
       \/ /\ lost' = lost \cup ({t} \ stored)
          /\ UNCHANGED stored
    /\ UNCHANGED <<now, postedOn, conn, cred, account, tokenCache, link, unlink, alone, removed, gone>>

\* Mutant: last_sync_at is one day ahead.
SyncedRowAhead(p) == [sync[p].snap[sync[p].item] EXCEPT !.lastSync = sync[p].start + 1,
                                                        !.status = "connected"]
\* save_provider_connection with last_sync_at = the day the sync began.
SyncedRow(p) == [sync[p].snap[sync[p].item] EXCEPT !.lastSync = sync[p].start,
                                                   !.status = "connected"]
SyncSave(p) ==
    LET i == sync[p].item IN
    /\ sync[p].pc = "store" /\ sync[p].batch = {}
    /\ conn' \in {conn, [conn EXCEPT ![i] = Saved(i, SyncedRow(p))]}
    /\ SyncStep(p, NextConnection(p))
    /\ UNCHANGED <<now, postedOn, cred, account, stored, tokenCache,
                   link, unlink, lost, alone, removed, gone>>

\* The future is dropped at an await: nothing more happens, nothing is undone.
SyncDropped(p) ==
    /\ p \in Droppable /\ sync[p].pc # "idle"
    /\ SyncStep(p, SyncIdle)
    /\ UNCHANGED <<now, postedOn, tables, tokenCache, link, unlink, lost, alone, removed, gone>>

(***************************************************************************)
(* Linking: connect_teller_provider and exchange_public_token.             *)
(***************************************************************************)
LinkStep(l, task) == link' = [link EXCEPT ![l] = task]

LinkBegins(i) ==
    /\ removed' = removed \ {i}
    /\ gone' = gone \ {i}
    /\ alone' = {r \in alone : unlink[r].item # i}

\* Without a connection id the row is new, even when the item has one already.
LinkNew(l, i, s) ==
    /\ link[l].pc = "idle"
    /\ \E c \in FreshConnIds :
          LinkStep(l, [pc |-> "storeCreds", item |-> i, session |-> s,
                       row |-> [id |-> c, lastSync |-> Never, status |-> "connected"]])
    /\ LinkBegins(i)
    /\ UNCHANGED <<now, postedOn, tables, tokenCache, sync, unlink, lost>>

\* A Teller reconnection names the connection and keeps its history.
LinkAgain(l, i, s) ==
    /\ link[l].pc = "idle" /\ i \in Teller /\ Linked(i)
    /\ LinkStep(l, [pc |-> "storeCreds", item |-> i, session |-> s, row |-> conn[i]])
    /\ LinkBegins(i)
    /\ UNCHANGED <<now, postedOn, tables, tokenCache, sync, unlink, lost>>

\* A failing write ends a Teller link and is only logged by a Plaid one.
LinkStoreCredentials(l) ==
    LET i == link[l].item IN
    /\ link[l].pc = "storeCreds"
    /\ \/ /\ cred' = cred \cup {i}
          /\ LinkStep(l, [link[l] EXCEPT !.pc = IF i \in Teller THEN "saveConn"
                                                                ELSE "cacheToken"])
       \/ /\ LinkStep(l, IF i \in Teller THEN LinkIdle
                                         ELSE [link[l] EXCEPT !.pc = "cacheToken"])
          /\ UNCHANGED cred
    /\ UNCHANGED <<now, postedOn, conn, account, stored, tokenCache,
                   sync, unlink, lost, alone, removed, gone>>

\* set_access_token, for Plaid only; best effort.
LinkCacheToken(l) ==
    /\ link[l].pc = "cacheToken"
    /\ tokenCache' \in {tokenCache, tokenCache \cup {<<link[l].session, link[l].item>>}}
    /\ LinkStep(l, [link[l] EXCEPT !.pc = "saveConn"])
    /\ UNCHANGED <<now, postedOn, tables, sync, unlink, lost, alone, removed, gone>>

\* save_provider_connection; Plaid's link is over with it, whatever it returns.
LinkSaveConnection(l) ==
    LET i == link[l].item IN
    /\ link[l].pc = "saveConn"
    /\ \/ /\ conn' = [conn EXCEPT ![i] = Saved(i, link[l].row)]
          /\ LinkStep(l, IF i \in Teller THEN [link[l] EXCEPT !.pc = "accounts"]
                                         ELSE LinkIdle)
       \/ /\ LinkStep(l, LinkIdle)
          /\ UNCHANGED conn
    /\ UNCHANGED <<now, postedOn, cred, account, stored, tokenCache,
                   sync, unlink, lost, alone, removed, gone>>

\* The accounts are written under the id of the row the task made, not the
\* table's; without a written account the link is over.
LinkUpsertAccount(l) ==
    LET i == link[l].item IN
    /\ link[l].pc = "accounts"
    /\ \/ /\ UpsertAccount(i, link[l].row.id)
          /\ LinkStep(l, [link[l] EXCEPT !.pc = "saveAgain"])
       \/ /\ LinkStep(l, LinkIdle)
          /\ UNCHANGED account
    /\ UNCHANGED <<now, postedOn, conn, cred, stored, tokenCache,
                   sync, unlink, lost, alone, removed, gone>>

\* The account count is saved with the whole row as it was read.
LinkSaveAgain(l) ==
    LET i == link[l].item IN
    /\ link[l].pc = "saveAgain"
    /\ conn' \in {conn, [conn EXCEPT ![i] = Saved(i, link[l].row)]}
    /\ LinkStep(l, LinkIdle)
    /\ UNCHANGED <<now, postedOn, cred, account, stored, tokenCache,
                   sync, unlink, lost, alone, removed, gone>>

LinkDropped(l) ==
    /\ link[l].pc # "idle"
    /\ LinkStep(l, LinkIdle)
    /\ UNCHANGED <<now, postedOn, tables, tokenCache, sync, unlink, lost, alone, removed, gone>>

(***************************************************************************)
(* Disconnecting: disconnect_connection_by_id.                             *)
(***************************************************************************)
UnlinkStep(r, task) == unlink' = [unlink EXCEPT ![r] = task]
UnlinkAdvance(r, pc) == UnlinkStep(r, [unlink[r] EXCEPT !.pc = pc])

UnlinkRequest(r, i, s) ==
    /\ unlink[r].pc = "idle" /\ Linked(i)
    /\ UnlinkStep(r, [pc |-> "caches", item |-> i, session |-> s])
    /\ alone' = IF \E l \in Linker : link[l].item = i THEN alone ELSE alone \cup {r}
    /\ UNCHANGED <<now, postedOn, tables, tokenCache, sync, link, lost, removed, gone>>

\* Only the caller's cached token is deleted, and a failure to is ignored.
UnlinkCaches(r) ==
    /\ unlink[r].pc = "caches"
    /\ tokenCache' \in {tokenCache, tokenCache \ {<<unlink[r].session, unlink[r].item>>}}
    /\ UnlinkAdvance(r, "transactions")
    /\ UNCHANGED <<now, postedOn, tables, sync, link, lost, alone, removed, gone>>

\* delete_provider_transactions: through the connection's accounts.
UnlinkTransactions(r) ==
    LET i == unlink[r].item
        rows == {t \in stored : Linked(i) /\ TxnItem[t] \in AccountsOf(conn[i].id)}
    IN
    /\ unlink[r].pc = "transactions"
    /\ stored' = stored \ rows
    /\ lost' = lost \cup rows
    /\ UnlinkAdvance(r, "accounts")
    /\ UNCHANGED <<now, postedOn, conn, cred, account, tokenCache, sync, link, alone, removed, gone>>

\* delete_provider_accounts: refused while a transaction references one.
UnlinkAccounts(r) ==
    LET i == unlink[r].item IN
    /\ unlink[r].pc = "accounts"
    /\ Linked(i) => ~Referenced(conn[i].id)
    /\ account' = [j \in Item |->
                     IF Linked(i) /\ j \in AccountsOf(conn[i].id) THEN NoAcct
                                                                  ELSE account[j]]
    /\ UnlinkAdvance(r, "creds")
    /\ UNCHANGED <<now, postedOn, conn, cred, stored, tokenCache, sync, link, lost, alone, removed, gone>>

\* Mutant: the credentials stay.
UnlinkCredentialsKept(r) ==
    /\ unlink[r].pc = "creds"
    /\ UnlinkAdvance(r, "conn")
    /\ UNCHANGED <<now, postedOn, tables, tokenCache, sync, link, lost, alone, removed, gone>>

UnlinkCredentials(r) ==
    /\ unlink[r].pc = "creds"
    /\ cred' = cred \ {unlink[r].item}
    /\ UnlinkAdvance(r, "conn")
    /\ UNCHANGED <<now, postedOn, conn, account, stored, tokenCache, sync, link, lost, alone, removed, gone>>

\* A sync that has read its credentials may still write the item's rows.
SyncInFlight(i) == \E p \in Syncer : sync[p].item = i /\ sync[p].pc # "creds"

\* delete_provider_connection cascades to the accounts, so it is refused too.
UnlinkConnection(r) ==
    LET i == unlink[r].item IN
    /\ unlink[r].pc = "conn"
    /\ Linked(i) => ~Referenced(conn[i].id)
    /\ conn' = [conn EXCEPT ![i] = NoRow]
    /\ account' = [j \in Item |->
                     IF Linked(i) /\ j \in AccountsOf(conn[i].id) THEN NoAcct
                                                                  ELSE account[j]]
    /\ UnlinkStep(r, UnlinkIdle)
    /\ removed' = IF r \in alone THEN removed \cup {i} ELSE removed
    /\ gone' = IF r \in alone /\ ~SyncInFlight(i) THEN gone \cup {i} ELSE gone
    /\ alone' = alone \ {r}
    /\ UNCHANGED <<now, postedOn, cred, stored, tokenCache, sync, link, lost>>

\* Any call may fail, or the request is dropped; it ends and what it has deleted stays deleted.
UnlinkFail(r) ==
    /\ unlink[r].pc # "idle"
    /\ UnlinkStep(r, UnlinkIdle)
    /\ alone' = alone \ {r}
    /\ UNCHANGED <<now, postedOn, tables, tokenCache, sync, link, lost, removed, gone>>

-----------------------------------------------------------------------------
SyncNext(p) ==
    \/ \E i \in Item : SyncRequest(p, i) \/ SyncStart(p, i)
    \/ SyncAll(p) \/ SyncDone(p) \/ SyncCredentials(p) \/ SyncProviderError(p)
    \/ SyncUpsertAccount(p) \/ SyncMapAccounts(p)
    \/ SyncFetchTransactions(p) \/ SyncSave(p) \/ SyncDropped(p)
    \/ \E t \in Txn : SyncStoreTransaction(p, t)

LinkNext(l) ==
    \/ \E i \in Item, s \in Session : LinkNew(l, i, s) \/ LinkAgain(l, i, s)
    \/ LinkStoreCredentials(l) \/ LinkCacheToken(l) \/ LinkSaveConnection(l)
    \/ LinkUpsertAccount(l) \/ LinkSaveAgain(l) \/ LinkDropped(l)

UnlinkNext(r) ==
    \/ \E i \in Item, s \in Session : UnlinkRequest(r, i, s)
    \/ UnlinkCaches(r) \/ UnlinkTransactions(r) \/ UnlinkAccounts(r)
    \/ UnlinkCredentials(r) \/ UnlinkConnection(r) \/ UnlinkFail(r)

Next ==
    \/ \E t \in Txn : BankPosts(t)
    \/ NextDay
    \/ \E s \in Session, i \in Item : TokenExpires(s, i)
    \/ \E p \in Syncer : SyncNext(p)
    \/ \E l \in Linker : LinkNext(l)
    \/ \E r \in Remover : UnlinkNext(r)

Spec == Init /\ [][Next]_vars

(***************************************************************************)
(* A running sync keeps running: the runtime polls it and every call it    *)
(* awaits returns or times out.  Nobody is obliged to start one.           *)
(***************************************************************************)
SyncProgress(p) ==
    \/ \E i \in Item : SyncStart(p, i)
    \/ SyncDone(p) \/ SyncCredentials(p) \/ SyncProviderError(p)
    \/ SyncUpsertAccount(p) \/ SyncMapAccounts(p)
    \/ SyncFetchTransactions(p) \/ SyncSave(p)
    \/ \E t \in Txn : SyncStoreTransaction(p, t)

FairSpec == Spec /\ \A p \in Syncer : WF_vars(SyncProgress(p))

-----------------------------------------------------------------------------
(***************************************************************************)
(* Properties.                                                             *)
(***************************************************************************)
\* Every variable has its type.
TypeOK ==
    /\ now \in Days
    /\ postedOn \in [Txn -> Days \cup {Never}]
    /\ conn \in [Item -> ConnRow \cup {NoRow}]
    /\ cred \subseteq Item
    /\ account \in [Item -> AcctRow \cup {NoAcct}]
    /\ stored \subseteq Txn
    /\ tokenCache \subseteq Session \X Item
    /\ sync \in [Syncer -> SyncTask]
    /\ link \in [Linker -> LinkTask]
    /\ unlink \in [Remover -> UnlinkTask]
    /\ lost \subseteq Txn
    /\ alone \subseteq Remover
    /\ removed \subseteq Item
    /\ gone \subseteq Item

(***************************************************************************)
(* last_sync_at is a promise about history: everything the bank reported   *)
(* before that day, as far back as the first window reaches from today, is *)
(* in the table, or is missing because a write failed or a disconnect      *)
(* deleted it.  It must survive syncs of one connection that overlap, save *)
(* rows they read long ago, fail half way or cross midnight.               *)
(***************************************************************************)
CoveredUpTo(i, day) ==
    \A t \in TxnsOf(i) :
        /\ postedOn[t] # Never /\ postedOn[t] < day
        /\ TxnDate[t] >= now - DefaultFirstSyncDays
        => t \in stored \cup lost

NoSilentGap ==
    \A i \in Item : Linked(i) => CoveredUpTo(i, conn[i].lastSync)

(***************************************************************************)
(* Stored transactions hang off an account of the connection row of their  *)
(* own item, whatever links, syncs and disconnects interleave: nothing is  *)
(* left behind that no connection, and so no disconnect, reaches.          *)
(***************************************************************************)
NoOrphanedData ==
    /\ \A t \in stored : account[TxnItem[t]] # NoAcct
    /\ \A i \in Item : account[i] # NoAcct =>
          Linked(i) /\ account[i].conn = conn[i].id

(***************************************************************************)
(* An item disconnected while no sync of it was past its credentials and   *)
(* no link of it was running stays away until it is linked again: a sync   *)
(* that was queued with the old row, or waits to read the credentials,     *)
(* brings nothing back.                                                    *)
(***************************************************************************)
GoneStaysGone ==
    \A i \in gone :
        /\ ~Linked(i) /\ i \notin cred /\ account[i] = NoAcct
        /\ stored \cap TxnsOf(i) = {}

(***************************************************************************)
(* A disconnect that no link overlapped leaves no stored credential, even  *)
(* when a sync is in flight: the sync may write the row back, but nothing  *)
(* can use it to reach the bank again.                                     *)
(***************************************************************************)
DisconnectDeletesCredentials == removed \cap cred = {}

(***************************************************************************)
(* docs/hosted-compliance/DATA_RETENTION_POLICY.md: tokens are deleted on  *)
(* user disconnect, so none is left in the table or in Redis.              *)
(***************************************************************************)
TokensDeletedOnDisconnect ==
    \A i \in gone : i \notin cred /\ \A s \in Session : <<s, i>> \notin tokenCache

(***************************************************************************)
(* A run over all connections attempts each one it listed, whatever        *)
(* happens to the others.                                                  *)
(***************************************************************************)
EveryListedConnectionIsAttempted ==
    \A p \in Syncer, i \in Item :
        (sync[p].snap[i] # NoRow) ~> (sync[p].item = i)
=============================================================================
