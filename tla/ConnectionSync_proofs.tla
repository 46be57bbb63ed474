------------------------ MODULE ConnectionSync_proofs ------------------------
(***************************************************************************)
(* Theorems about ConnectionSync, for every set of items, transactions,    *)
(* tasks and every window that satisfies the module's assumptions.         *)
(***************************************************************************)
EXTENDS ConnectionSync, TLAPS

(***************************************************************************)
(* TypeOK is not inductive: that a sync saves a row of the right type      *)
(* needs that a task past its first step holds an item and its row.        *)
(***************************************************************************)
Busy ==
    /\ \A p \in Syncer : sync[p].pc \notin {"idle", "next"} =>
          sync[p].item \in Item /\ sync[p].snap[sync[p].item] \in ConnRow
    /\ \A l \in Linker : link[l].pc # "idle" =>
          link[l].item \in Item /\ link[l].row \in ConnRow
    /\ \A r \in Remover : unlink[r].pc # "idle" => unlink[r].item \in Item

TypeInv == TypeOK /\ Busy

LEMMA SavedType ==
    ASSUME TypeOK, NEW i \in Item, NEW row \in ConnRow
    PROVE  Saved(i, row) \in ConnRow
  BY NullAssumption DEF TypeOK, Saved, Linked, ConnRow

LEMMA InitTypes == Init => TypeInv
<1> SUFFICES ASSUME Init PROVE TypeInv
    OBVIOUS
<1> USE ConstantsAssumption, NullAssumption DEF Init
<1>1. 0 \in Days /\ Never \in Days \cup {Never}
    BY DEF Days, Never
<1>2. NoSnap \in [Item -> ConnRow \cup {NoRow}]
    BY DEF NoSnap
<1>3. SyncIdle \in SyncTask
    BY <1>1, <1>2 DEF SyncIdle, Between, SyncTask, SyncPc
<1>4. AnySession \in Session
    BY DEF AnySession
<1>5. LinkIdle \in LinkTask /\ UnlinkIdle \in UnlinkTask
    BY <1>4 DEF LinkIdle, LinkTask, LinkPc, UnlinkIdle, UnlinkTask, UnlinkPc
<1>6. TypeOK
    BY <1>1, <1>3, <1>5 DEF TypeOK
<1>7. Busy
    BY DEF Busy, SyncIdle, Between, LinkIdle, UnlinkIdle
<1> QED BY <1>6, <1>7 DEF TypeInv

(***************************************************************************)
(* A task moves to a well-formed record.                                   *)
(***************************************************************************)
SyncTaskOK(task) ==
    /\ task \in SyncTask
    /\ task.pc \notin {"idle", "next"} =>
          task.item \in Item /\ task.snap[task.item] \in ConnRow
LinkTaskOK(task) ==
    /\ task \in LinkTask
    /\ task.pc # "idle" => task.item \in Item /\ task.row \in ConnRow
UnlinkTaskOK(task) ==
    /\ task \in UnlinkTask
    /\ task.pc # "idle" => task.item \in Item

LEMMA SyncStepTypes ==
    ASSUME TypeInv, NEW p \in Syncer, NEW task, SyncTaskOK(task),
           SyncStep(p, task), UNCHANGED <<link, unlink>>
    PROVE  sync' \in [Syncer -> SyncTask] /\ Busy'
  BY DEF TypeInv, TypeOK, Busy, SyncStep, SyncTaskOK

LEMMA LinkStepTypes ==
    ASSUME TypeInv, NEW l \in Linker, NEW task, LinkTaskOK(task),
           LinkStep(l, task), UNCHANGED <<sync, unlink>>
    PROVE  link' \in [Linker -> LinkTask] /\ Busy'
  BY DEF TypeInv, TypeOK, Busy, LinkStep, LinkTaskOK

LEMMA UnlinkStepTypes ==
    ASSUME TypeInv, NEW r \in Remover, NEW task, UnlinkTaskOK(task),
           UnlinkStep(r, task), UNCHANGED <<sync, link>>
    PROVE  unlink' \in [Remover -> UnlinkTask] /\ Busy'
  BY DEF TypeInv, TypeOK, Busy, UnlinkStep, UnlinkTaskOK

LEMMA IdleTypes == SyncTaskOK(SyncIdle) /\ LinkTaskOK(LinkIdle) /\ UnlinkTaskOK(UnlinkIdle)
  BY ConstantsAssumption, NullAssumption
  DEF SyncTaskOK, LinkTaskOK, UnlinkTaskOK, SyncIdle, Between, LinkIdle, UnlinkIdle, AnySession, NoSnap,
      SyncTask, LinkTask, UnlinkTask, SyncPc, LinkPc, UnlinkPc, Days

LEMMA BetweenTypes ==
    ASSUME NEW pc \in {"idle", "next"}, NEW snap \in [Item -> ConnRow \cup {NoRow}]
    PROVE  SyncTaskOK(Between(pc, snap))
  BY ConstantsAssumption DEF SyncTaskOK, Between, SyncTask, SyncPc, Days

LEMMA NextConnectionTypes ==
    ASSUME TypeInv, NEW p \in Syncer
    PROVE  SyncTaskOK(NextConnection(p))
<1>1. [sync[p].snap EXCEPT ![sync[p].item] = NoRow] \in [Item -> ConnRow \cup {NoRow}]
    BY DEF TypeInv, TypeOK, SyncTask
<1> QED BY <1>1, BetweenTypes DEF NextConnection

LEMMA UpsertAccountTypes ==
    ASSUME TypeOK, NEW i \in Item, NEW c \in ConnId, UpsertAccount(i, c)
    PROVE  account' \in [Item -> AcctRow \cup {NoAcct}]
<1>1. CASE account[i] = NoAcct
    BY <1>1 DEF TypeOK, UpsertAccount, FreshAcctIds, AcctRow
<1>2. CASE account[i] # NoAcct
    BY <1>2 DEF TypeOK, UpsertAccount, AcctRow
<1> QED BY <1>1, <1>2

LEMMA SyncTypes ==
    ASSUME TypeInv, NEW p \in Syncer, SyncNext(p)
    PROVE  TypeInv'
<1> USE DEF TypeInv
<1>1. ASSUME NEW i \in Item, SyncRequest(p, i) PROVE TypeInv'
    <2> DEFINE task == [SyncIdle EXCEPT !.pc = "creds", !.snap[i] = conn[i],
                                        !.item = i, !.start = now]
    <2>1. conn[i] \in ConnRow
        BY <1>1 DEF SyncRequest, Linked, TypeOK
    <2>2. SyncTaskOK(task)
        BY <2>1, IdleTypes DEF SyncTaskOK, SyncTask, SyncPc, TypeOK
    <2> QED BY <1>1, <2>2, SyncStepTypes DEF SyncRequest, TypeOK, tables
<1>2. ASSUME NEW i \in Item, SyncStart(p, i) PROVE TypeInv'
    <2> DEFINE task == [sync[p] EXCEPT !.pc = "creds", !.item = i, !.start = now]
    <2>1. sync[p] \in SyncTask /\ now \in Days /\ sync[p].snap[i] # NoRow
        BY <1>2 DEF SyncStart, TypeOK
    <2>2. task \in SyncTask /\ task.item = i /\ task.snap = sync[p].snap
        BY <2>1 DEF SyncTask, SyncPc
    <2>3. task.snap[i] \in ConnRow
        BY <2>1, <2>2 DEF SyncTask
    <2>4. SyncTaskOK(task)
        BY <2>2, <2>3 DEF SyncTaskOK
    <2> QED BY <1>2, <2>4, SyncStepTypes DEF SyncStart, TypeOK, tables
<1>3. CASE SyncAll(p)
    <2>1. SyncTaskOK(Between("next", conn))
        BY BetweenTypes DEF TypeOK
    <2> QED BY <1>3, <2>1, SyncStepTypes DEF SyncAll, TypeOK, tables
<1>4. CASE SyncDone(p)
    BY <1>4, IdleTypes, SyncStepTypes DEF SyncDone, TypeOK, tables
<1>5. CASE SyncCredentials(p)
    <2> DEFINE task == [sync[p] EXCEPT !.pc = "accounts"]
    <2>1. SyncTaskOK(task)
        BY <1>5 DEF SyncCredentials, SyncTaskOK, SyncTask, SyncPc, TypeOK, Busy
    <2> QED BY <1>5, <2>1, NextConnectionTypes, SyncStepTypes DEF SyncCredentials, TypeOK, tables
<1>6. CASE SyncProviderError(p)
    <2> DEFINE i == sync[p].item
               row == [sync[p].snap[i] EXCEPT !.status = "error"]
    <2>1. i \in Item /\ row \in ConnRow
        BY <1>6 DEF SyncProviderError, Busy, ConnRow, Status
    <2>2. conn' \in [Item -> ConnRow \cup {NoRow}]
        BY <1>6, <2>1, SavedType DEF SyncProviderError, TypeOK
    <2> QED BY <1>6, <2>2, NextConnectionTypes, SyncStepTypes DEF SyncProviderError, TypeOK
<1>7. CASE SyncUpsertAccount(p)
    <2> DEFINE task == [sync[p] EXCEPT !.pc = "mapping"]
    <2>1. SyncTaskOK(task)
        BY <1>7 DEF SyncUpsertAccount, SyncTaskOK, SyncTask, SyncPc, TypeOK, Busy
    <2>2. sync[p].item \in Item /\ sync[p].snap[sync[p].item].id \in ConnId
        BY <1>7 DEF SyncUpsertAccount, Busy, ConnRow
    <2>3. account' \in [Item -> AcctRow \cup {NoAcct}]
        BY <1>7, <2>2, UpsertAccountTypes DEF SyncUpsertAccount, TypeOK
    <2> QED BY <1>7, <2>1, <2>3, SyncStepTypes DEF SyncUpsertAccount, TypeOK
<1>8. CASE SyncMapAccounts(p)
    <2> DEFINE acct == IF Mappable(p) THEN account[sync[p].item].id ELSE NoAcct
               task == [sync[p] EXCEPT !.pc = "fetch", !.acct = acct]
    <2>1. acct \in AcctId \cup {NoAcct}
        BY <1>8 DEF SyncMapAccounts, Mappable, TypeOK, Busy, AcctRow
    <2>2. SyncTaskOK(task)
        BY <1>8, <2>1 DEF SyncMapAccounts, SyncTaskOK, SyncTask, SyncPc, TypeOK, Busy
    <2> QED BY <1>8, <2>2, NextConnectionTypes, SyncStepTypes DEF SyncMapAccounts, TypeOK, tables
<1>9. CASE SyncFetchTransactions(p)
    <2>1. \A B \in SUBSET Txn : SyncTaskOK([sync[p] EXCEPT !.pc = "store", !.batch = B])
        BY <1>9 DEF SyncFetchTransactions, SyncTaskOK, SyncTask, SyncPc, TypeOK, Busy
    <2>2. \A i, a, b : Reported(i, a, b) \in SUBSET Txn
        BY DEF Reported, TxnsOf
    <2> QED BY <1>9, <2>1, <2>2, SyncStepTypes DEF SyncFetchTransactions, TypeOK, tables
<1>10. CASE SyncSave(p)
    <2> DEFINE i == sync[p].item
    <2>1. i \in Item /\ SyncedRow(p) \in ConnRow
        BY <1>10 DEF SyncSave, SyncedRow, Busy, ConnRow, Status, TypeOK, SyncTask
    <2>2. conn' \in [Item -> ConnRow \cup {NoRow}]
        BY <1>10, <2>1, SavedType DEF SyncSave, TypeOK
    <2> QED BY <1>10, <2>2, NextConnectionTypes, SyncStepTypes DEF SyncSave, TypeOK
<1>11. CASE SyncDropped(p)
    BY <1>11, IdleTypes, SyncStepTypes DEF SyncDropped, TypeOK, tables
<1>12. ASSUME NEW t \in Txn, SyncStoreTransaction(p, t) PROVE TypeInv'
    <2> DEFINE task == [sync[p] EXCEPT !.batch = @ \ {t}]
    <2>1. SyncTaskOK(task)
        BY <1>12 DEF SyncStoreTransaction, SyncTaskOK, SyncTask, TypeOK, Busy
    <2> QED BY <1>12, <2>1, SyncStepTypes DEF SyncStoreTransaction, TypeOK
<1> QED BY <1>1, <1>2, <1>3, <1>4, <1>5, <1>6, <1>7, <1>8, <1>9, <1>10, <1>11, <1>12
        DEF SyncNext

LEMMA LinkTypes ==
    ASSUME TypeInv, NEW l \in Linker, LinkNext(l)
    PROVE  TypeInv'
<1> USE DEF TypeInv
<1>1. ASSUME NEW i \in Item, NEW s \in Session, LinkNew(l, i, s) PROVE TypeInv'
    <2>1. \A c \in FreshConnIds :
             LinkTaskOK([pc |-> "storeCreds", item |-> i, session |-> s,
                         row |-> [id |-> c, lastSync |-> Never, status |-> "connected"]])
        BY DEF LinkTaskOK, LinkTask, LinkPc, ConnRow, Status, FreshConnIds
    <2> QED BY <1>1, <2>1, LinkStepTypes DEF LinkNew, LinkBegins, TypeOK, tables
<1>2. ASSUME NEW i \in Item, NEW s \in Session, LinkAgain(l, i, s) PROVE TypeInv'
    <2>1. LinkTaskOK([pc |-> "storeCreds", item |-> i, session |-> s, row |-> conn[i]])
        BY <1>2 DEF LinkAgain, Linked, LinkTaskOK, LinkTask, LinkPc, TypeOK
    <2> QED BY <1>2, <2>1, LinkStepTypes DEF LinkAgain, LinkBegins, TypeOK, tables
<1>3. \A pc \in LinkPc \ {"idle"} :
         link[l].pc # "idle" => LinkTaskOK([link[l] EXCEPT !.pc = pc])
    BY DEF LinkTaskOK, LinkTask, TypeOK, Busy
<1>4. link[l].pc # "idle" => link[l].item \in Item /\ link[l].row \in ConnRow
    BY DEF Busy
<1>5. CASE LinkStoreCredentials(l)
    BY <1>3, <1>4, <1>5, IdleTypes, LinkStepTypes DEF LinkStoreCredentials, LinkPc, TypeOK
<1>6. CASE LinkCacheToken(l)
    <2>1. link[l].session \in Session
        BY DEF TypeOK, LinkTask
    <2> QED BY <1>3, <1>4, <1>6, <2>1, LinkStepTypes DEF LinkCacheToken, LinkPc, TypeOK, tables
<1>7. CASE LinkSaveConnection(l)
    <2>1. conn' \in [Item -> ConnRow \cup {NoRow}]
        BY <1>4, <1>7, SavedType DEF LinkSaveConnection, TypeOK
    <2> QED BY <1>3, <1>7, <2>1, IdleTypes, LinkStepTypes DEF LinkSaveConnection, LinkPc, TypeOK
<1>8. CASE LinkUpsertAccount(l)
    <2>1. link[l].row.id \in ConnId
        BY <1>4, <1>8 DEF LinkUpsertAccount, ConnRow
    <2>2. account' \in [Item -> AcctRow \cup {NoAcct}]
        BY <1>4, <1>8, <2>1, UpsertAccountTypes DEF LinkUpsertAccount, TypeOK
    <2> QED BY <1>3, <1>8, <2>2, IdleTypes, LinkStepTypes DEF LinkUpsertAccount, LinkPc, TypeOK
<1>9. CASE LinkSaveAgain(l)
    <2>1. conn' \in [Item -> ConnRow \cup {NoRow}]
        BY <1>4, <1>9, SavedType DEF LinkSaveAgain, TypeOK
    <2> QED BY <1>9, <2>1, IdleTypes, LinkStepTypes DEF LinkSaveAgain, TypeOK
<1>10. CASE LinkDropped(l)
    BY <1>10, IdleTypes, LinkStepTypes DEF LinkDropped, TypeOK, tables
<1> QED BY <1>1, <1>2, <1>5, <1>6, <1>7, <1>8, <1>9, <1>10 DEF LinkNext

LEMMA UnlinkTypes ==
    ASSUME TypeInv, NEW r \in Remover, UnlinkNext(r)
    PROVE  TypeInv'
<1> USE DEF TypeInv
<1>1. ASSUME NEW i \in Item, NEW s \in Session, UnlinkRequest(r, i, s) PROVE TypeInv'
    <2>1. UnlinkTaskOK([pc |-> "caches", item |-> i, session |-> s])
        BY DEF UnlinkTaskOK, UnlinkTask, UnlinkPc
    <2> QED BY <1>1, <2>1, UnlinkStepTypes DEF UnlinkRequest, TypeOK, tables
<1>2. \A pc \in UnlinkPc \ {"idle"} :
         unlink[r].pc # "idle" => UnlinkTaskOK([unlink[r] EXCEPT !.pc = pc])
    BY DEF UnlinkTaskOK, UnlinkTask, TypeOK, Busy
<1>3. unlink[r].pc # "idle" => unlink[r].item \in Item
    BY DEF Busy
<1>4. CASE UnlinkCaches(r)
    BY <1>2, <1>4, UnlinkStepTypes DEF UnlinkCaches, UnlinkAdvance, UnlinkPc, TypeOK, tables
<1>5. CASE UnlinkTransactions(r)
    BY <1>2, <1>5, UnlinkStepTypes DEF UnlinkTransactions, UnlinkAdvance, UnlinkPc, TypeOK
<1>6. CASE UnlinkAccounts(r)
    BY <1>2, <1>6, UnlinkStepTypes DEF UnlinkAccounts, UnlinkAdvance, UnlinkPc, TypeOK
<1>7. CASE UnlinkCredentials(r)
    BY <1>2, <1>7, UnlinkStepTypes DEF UnlinkCredentials, UnlinkAdvance, UnlinkPc, TypeOK
<1>8. CASE UnlinkConnection(r)
    BY <1>3, <1>8, IdleTypes, UnlinkStepTypes DEF UnlinkConnection, TypeOK
<1>9. CASE UnlinkFail(r)
    BY <1>9, IdleTypes, UnlinkStepTypes DEF UnlinkFail, TypeOK, tables
<1> QED BY <1>1, <1>4, <1>5, <1>6, <1>7, <1>8, <1>9 DEF UnlinkNext

LEMMA NextTypes == TypeInv /\ [Next]_vars => TypeInv'
<1> SUFFICES ASSUME TypeInv, [Next]_vars PROVE TypeInv'
    OBVIOUS
<1> USE DEF TypeInv
<1>1. CASE \E t \in Txn : BankPosts(t)
    BY <1>1 DEF BankPosts, TypeOK, Busy, tables
<1>2. CASE NextDay
    BY <1>2, ConstantsAssumption DEF NextDay, TypeOK, Busy, tables, Days
<1>3. CASE \E s \in Session, i \in Item : TokenExpires(s, i)
    BY <1>3 DEF TokenExpires, TypeOK, Busy, tables
<1>4. CASE UNCHANGED vars
    BY <1>4 DEF TypeOK, Busy, vars, tables
<1> QED BY <1>1, <1>2, <1>3, <1>4, SyncTypes, LinkTypes, UnlinkTypes DEF Next

(***************************************************************************)
(* Every variable keeps its type, for any number of tasks and items: a     *)
(* connection row, whoever saves it, is a row.                             *)
(***************************************************************************)
THEOREM TypeCorrect == Spec => []TypeOK
<1>1. Spec => []TypeInv
    BY InitTypes, NextTypes, PTL DEF Spec
<1>2. TypeInv => TypeOK
    BY DEF TypeInv
<1> QED BY <1>1, <1>2, PTL

-----------------------------------------------------------------------------
(***************************************************************************)
(* NoSilentGap.  The row a task saves is the one it loaded or made, so the *)
(* promise of last_sync_at has to hold of every copy of a row, not only of *)
(* the table; and of the day a sync began, once its batch is stored.       *)
(***************************************************************************)
\* CoveredUpTo with the state as arguments.
Covers(i, day, today, posted, held) ==
    \A t \in TxnsOf(i) :
        /\ posted[t] # Never /\ posted[t] < day
        /\ TxnDate[t] >= today - DefaultFirstSyncDays
        => t \in held

\* A row promises no more than the table holds, and nothing about the future.
Kept(i, row) ==
    row.lastSync <= now /\ Covers(i, row.lastSync, now, postedOn, stored \cup lost)

\* The bank reports a transaction on its day or at most PostingLag days later.
ReportedInTime ==
    \A t \in Txn : postedOn[t] # Never =>
        TxnDate[t] <= postedOn[t] /\ postedOn[t] <= TxnDate[t] + PostingLag

\* What was reported before the sync began and is not in the table is in its batch.
BatchCovers(p) ==
    Covers(sync[p].item, sync[p].start, now, postedOn, stored \cup lost \cup sync[p].batch)

GapInv ==
    /\ TypeInv
    /\ ReportedInTime
    /\ \A i \in Item : Linked(i) => Kept(i, conn[i])
    /\ \A p \in Syncer, i \in Item : sync[p].snap[i] # NoRow => Kept(i, sync[p].snap[i])
    /\ \A p \in Syncer : sync[p].start <= now
    /\ \A p \in Syncer : sync[p].pc = "store" => BatchCovers(p)
    /\ \A l \in Linker : link[l].pc # "idle" => Kept(link[l].item, link[l].row)

LEMMA GapInvIsStrongEnough == GapInv => NoSilentGap
  BY DEF GapInv, NoSilentGap, CoveredUpTo, Kept, Covers

LEMMA InitGap == Init => GapInv
<1> SUFFICES ASSUME Init PROVE GapInv
    OBVIOUS
<1>1. TypeInv
    BY InitTypes
<1> QED BY <1>1 DEF Init, GapInv, ReportedInTime, Linked, SyncIdle, Between, NoSnap, LinkIdle

\* A promise outlives the passing of days and the reporting of transactions.
LEMMA CoversGrows ==
    ASSUME NEW i \in Item, NEW today \in Int, NEW day \in Int, NEW today2 \in Int,
           NEW posted \in [Txn -> Days \cup {Never}], NEW posted2 \in [Txn -> Days \cup {Never}],
           NEW held, NEW held2,
           day <= today, today <= today2, held \subseteq held2,
           \A t \in Txn : posted2[t] = posted[t] \/ posted2[t] = today,
           Covers(i, day, today, posted, held)
    PROVE  Covers(i, day, today2, posted2, held2)
<1> SUFFICES ASSUME NEW t \in TxnsOf(i), posted2[t] # Never, posted2[t] < day,
                    TxnDate[t] >= today2 - DefaultFirstSyncDays
             PROVE  t \in held2
    BY DEF Covers
<1>1. t \in Txn /\ TxnDate[t] \in Int /\ DefaultFirstSyncDays \in Nat
    BY ConstantsAssumption, WindowAssumption DEF TxnsOf
<1>2. posted2[t] = posted[t]
    BY <1>1
<1> QED BY <1>1, <1>2 DEF Covers

(***************************************************************************)
(* A step keeps the promises when time and the history only grow, and each *)
(* row it writes, in the table or in a task, was a kept promise before it. *)
(***************************************************************************)
Grows ==
    /\ now <= now'
    /\ stored \cup lost \subseteq stored' \cup lost'
    /\ \A t \in Txn : postedOn'[t] = postedOn[t] \/ postedOn'[t] = now

KeepsConn == \A i \in Item : conn'[i] # NoRow => Kept(i, conn'[i])
KeepsSync ==
    \A p \in Syncer :
        /\ \A i \in Item : sync'[p].snap[i] # NoRow => Kept(i, sync'[p].snap[i])
        /\ sync'[p].start <= now
        /\ sync'[p].pc = "store" =>
              Covers(sync'[p].item, sync'[p].start, now, postedOn,
                     stored' \cup lost' \cup sync'[p].batch)
KeepsLink ==
    \A l \in Linker : link'[l].pc # "idle" => Kept(link'[l].item, link'[l].row)

LEMMA KeptGrows ==
    ASSUME TypeOK, TypeOK', Grows, NEW i \in Item, NEW row \in ConnRow, Kept(i, row)
    PROVE  /\ row.lastSync <= now'
           /\ Covers(i, row.lastSync, now', postedOn', stored' \cup lost')
<1>1. now \in Int /\ now' \in Int /\ row.lastSync \in Int
    BY ConstantsAssumption DEF TypeOK, Days, Never, ConnRow
<1>2. /\ postedOn \in [Txn -> Days \cup {Never}]
      /\ postedOn' \in [Txn -> Days \cup {Never}]
    BY DEF TypeOK
<1>3. Covers(i, row.lastSync, now', postedOn', stored' \cup lost')
    BY <1>1, <1>2, CoversGrows DEF Grows, Kept
<1> QED BY <1>1, <1>3 DEF Grows, Kept

LEMMA PromisesSuffice ==
    ASSUME GapInv, TypeInv', Grows, ReportedInTime', KeepsConn, KeepsSync, KeepsLink
    PROVE  GapInv'
<1>1. TypeOK /\ TypeOK' /\ Busy'
    BY DEF GapInv, TypeInv
<1>8. ASSUME NEW p \in Syncer PROVE sync'[p] \in SyncTask
    BY <1>1 DEF TypeOK
<1>2. ASSUME NEW i \in Item, Linked(i)' PROVE Kept(i, conn[i])'
    <2>1. conn'[i] \in ConnRow /\ Kept(i, conn'[i])
        BY <1>1, <1>2 DEF Linked, TypeOK, KeepsConn
    <2> QED BY <1>1, <2>1, KeptGrows DEF Kept
<1>3. ASSUME NEW p \in Syncer, NEW i \in Item, sync'[p].snap[i] # NoRow
      PROVE  Kept(i, sync[p].snap[i])'
    <2>1. sync'[p].snap[i] \in ConnRow
        BY <1>8, <1>3 DEF SyncTask
    <2>2. Kept(i, sync'[p].snap[i])
        BY <1>3 DEF KeepsSync
    <2> QED BY <1>1, <2>1, <2>2, KeptGrows DEF Kept
<1>4. now \in Int /\ now' \in Int /\ now <= now'
    BY <1>1, ConstantsAssumption DEF TypeOK, Days, Grows
<1>5. ASSUME NEW p \in Syncer PROVE sync'[p].start \in Int /\ sync'[p].start <= now'
    <2>1. sync'[p].start \in Int
        BY <1>8, ConstantsAssumption DEF SyncTask, Days
    <2>2. sync'[p].start <= now
        BY DEF KeepsSync
    <2> QED BY <1>4, <2>1, <2>2
<1>6. ASSUME NEW p \in Syncer, sync'[p].pc = "store" PROVE BatchCovers(p)'
    <2>1. sync'[p].item \in Item
        BY <1>1, <1>6 DEF Busy
    <2>2. /\ postedOn \in [Txn -> Days \cup {Never}]
          /\ postedOn' \in [Txn -> Days \cup {Never}]
        BY <1>1 DEF TypeOK
    <2> DEFINE held == stored' \cup lost' \cup sync'[p].batch
    <2>3. Covers(sync'[p].item, sync'[p].start, now, postedOn, held)
        BY <1>6 DEF KeepsSync
    <2>4. sync'[p].start <= now
        BY DEF KeepsSync
    <2>5. Covers(sync'[p].item, sync'[p].start, now', postedOn', held)
        BY <1>4, <1>5, <2>1, <2>2, <2>3, <2>4, CoversGrows DEF Grows
    <2> QED BY <2>5 DEF BatchCovers
<1>7. ASSUME NEW l \in Linker, link'[l].pc # "idle" PROVE Kept(link[l].item, link[l].row)'
    <2>1. link'[l].item \in Item /\ link'[l].row \in ConnRow
        BY <1>1, <1>7 DEF Busy
    <2>2. Kept(link'[l].item, link'[l].row)
        BY <1>7 DEF KeepsLink
    <2> QED BY <1>1, <2>1, <2>2, KeptGrows DEF Kept
<1> QED BY <1>2, <1>3, <1>5, <1>6, <1>7 DEF GapInv

LEMMA SavedKept ==
    ASSUME TypeOK, NEW i \in Item, NEW row \in ConnRow, Kept(i, row)
    PROVE  Kept(i, Saved(i, row))
<1>1. Saved(i, row).lastSync = row.lastSync
    BY DEF Saved, ConnRow
<1> QED BY <1>1 DEF Kept

\* A row that differs in its id or its status only promises the same.
LEMMA SaveKeepsConn ==
    ASSUME GapInv, NEW i \in Item, NEW row \in ConnRow, Kept(i, row),
           conn' \in {conn, [conn EXCEPT ![i] = Saved(i, row)]}
    PROVE  KeepsConn
<1>1. Kept(i, Saved(i, row)) /\ conn \in [Item -> ConnRow \cup {NoRow}]
    BY SavedKept DEF GapInv, TypeInv, TypeOK
<1> QED BY <1>1 DEF GapInv, KeepsConn, Linked

LEMMA SameConn == ASSUME GapInv, UNCHANGED conn PROVE KeepsConn
  BY DEF GapInv, KeepsConn, Linked

LEMMA SameLink == ASSUME GapInv, UNCHANGED link PROVE KeepsLink
  BY DEF GapInv, KeepsLink

LEMMA SameBank ==
    ASSUME GapInv, UNCHANGED <<now, postedOn>>, stored \cup lost \subseteq stored' \cup lost'
    PROVE  Grows /\ ReportedInTime'
<1>1. now \in Int
    BY ConstantsAssumption DEF GapInv, TypeInv, TypeOK, Days
<1> QED BY <1>1 DEF GapInv, Grows, ReportedInTime

LEMMA SyncStepKeeps ==
    ASSUME GapInv, NEW p \in Syncer, NEW task, SyncStep(p, task), Grows,
           \A i \in Item : task.snap[i] # NoRow => Kept(i, task.snap[i]),
           task.start <= now,
           task.pc = "store" => Covers(task.item, task.start, now, postedOn,
                                       stored' \cup lost' \cup task.batch)
    PROVE  KeepsSync
<1> SUFFICES ASSUME NEW q \in Syncer
             PROVE  /\ \A i \in Item : sync'[q].snap[i] # NoRow => Kept(i, sync'[q].snap[i])
                    /\ sync'[q].start <= now
                    /\ sync'[q].pc = "store" =>
                          Covers(sync'[q].item, sync'[q].start, now, postedOn,
                                 stored' \cup lost' \cup sync'[q].batch)
    BY DEF KeepsSync
<1>1. sync \in [Syncer -> SyncTask]
    BY DEF GapInv, TypeInv, TypeOK
<1>2. CASE q = p
    BY <1>1, <1>2 DEF SyncStep
<1>3. CASE q # p
    <2>1. sync'[q] = sync[q]
        BY <1>1, <1>3 DEF SyncStep
    <2> QED BY <2>1 DEF GapInv, BatchCovers, Covers, Grows
<1> QED BY <1>2, <1>3

LEMMA SameSync == ASSUME GapInv, UNCHANGED sync, Grows PROVE KeepsSync
  BY DEF GapInv, KeepsSync, BatchCovers, Covers, Grows

\* What a sync that ends a connection's turn, or itself, still holds.
LEMMA RestKeeps ==
    ASSUME GapInv, NEW p \in Syncer, Grows,
           SyncStep(p, NextConnection(p)) \/ SyncStep(p, SyncIdle)
    PROVE  KeepsSync
<1>1. 0 <= now
    BY ConstantsAssumption DEF GapInv, TypeInv, TypeOK, Days
<1>2. CASE SyncStep(p, SyncIdle)
    <2>1. /\ \A i \in Item : SyncIdle.snap[i] = NoRow
          /\ SyncIdle.start = 0 /\ SyncIdle.pc = "idle"
        BY DEF SyncIdle, Between, NoSnap
    <2> QED BY <1>1, <1>2, <2>1, SyncStepKeeps
<1>3. CASE SyncStep(p, NextConnection(p))
    <2>1. \A i \in Item : NextConnection(p).snap[i] # NoRow =>
             Kept(i, NextConnection(p).snap[i])
        BY DEF GapInv, TypeInv, TypeOK, SyncTask, NextConnection, Between
    <2>2. NextConnection(p).start = 0 /\ NextConnection(p).pc = "next"
        BY DEF NextConnection, Between
    <2> QED BY <1>1, <1>3, <2>1, <2>2, SyncStepKeeps
<1> QED BY <1>2, <1>3

(***************************************************************************)
(* The window: whatever the row a sync works on promises, and whatever day *)
(* it computes the window for, what it asks the provider for closes the    *)
(* gap up to the day the sync began.                                       *)
(***************************************************************************)
LEMMA WindowCloses ==
    ASSUME TypeOK, ReportedInTime, NEW i \in Item, NEW row \in ConnRow, Kept(i, row),
           NEW start \in Days, NEW today \in Days, start <= today, today <= now
    PROVE  Covers(i, start, now, postedOn,
                  stored \cup lost \cup Reported(i, StartDate(row.lastSync, today), today))
<1> DEFINE from == StartDate(row.lastSync, today)
<1> SUFFICES ASSUME NEW t \in TxnsOf(i), postedOn[t] # Never, postedOn[t] < start,
                    TxnDate[t] >= now - DefaultFirstSyncDays, t \notin stored \cup lost
             PROVE  t \in Reported(i, from, today)
    BY DEF Covers
<1>1. /\ t \in Txn /\ TxnDate[t] \in Int /\ postedOn[t] \in Int
      /\ start \in Int /\ today \in Int /\ now \in Int /\ row.lastSync \in Int
    BY ConstantsAssumption DEF TxnsOf, TypeOK, Days, Never, ConnRow
<1>2. TxnDate[t] <= postedOn[t] /\ postedOn[t] <= TxnDate[t] + PostingLag
    BY <1>1 DEF ReportedInTime
<1>3. TxnDate[t] <= today
    BY <1>1, <1>2
<1>4. row.lastSync # Never => postedOn[t] >= row.lastSync
    BY <1>1 DEF Kept, Covers
<1>5. from <= TxnDate[t]
    BY <1>1, <1>2, <1>3, <1>4, WindowAssumption DEF StartDate, MaxOf, MinOf
<1> QED BY <1>3, <1>5 DEF Reported

\* A sync step that only moves to another pc keeps what it holds.
LEMMA MoveKeeps ==
    ASSUME GapInv, NEW p \in Syncer, NEW task, SyncStep(p, task), Grows,
           task.snap = sync[p].snap, task.start <= now, task.pc # "store"
    PROVE  KeepsSync
<1>1. \A i \in Item : task.snap[i] # NoRow => Kept(i, task.snap[i])
    BY DEF GapInv
<1> QED BY <1>1, SyncStepKeeps

LEMMA GapSync ==
    ASSUME GapInv, NEW p \in Syncer, SyncNext(p)
    PROVE  GapInv'
<1>1. TypeInv'
    BY SyncTypes DEF GapInv
<1>2. now \in Int /\ now <= now /\ sync[p].start <= now /\ sync[p] \in SyncTask
    BY ConstantsAssumption DEF GapInv, TypeInv, TypeOK, Days
<1>3. TypeOK /\ ReportedInTime
    BY DEF GapInv, TypeInv
<1>4. sync[p].pc \notin {"idle", "next"} =>
         sync[p].item \in Item /\ sync[p].snap[sync[p].item] \in ConnRow
         /\ Kept(sync[p].item, sync[p].snap[sync[p].item])
    BY NullAssumption DEF GapInv, TypeInv, Busy
<1>5. UNCHANGED link => KeepsLink
    BY SameLink
<1>6. UNCHANGED conn => KeepsConn
    BY SameConn
<1>7. UNCHANGED <<now, postedOn>> /\ stored \cup lost \subseteq stored' \cup lost' =>
         Grows /\ ReportedInTime'
    BY SameBank
<1>8. ASSUME NEW i \in Item, SyncRequest(p, i) PROVE GapInv'
    <2> DEFINE task == [SyncIdle EXCEPT !.pc = "creds", !.snap[i] = conn[i],
                                        !.item = i, !.start = now]
    <2>1. task.start = now /\ task.pc = "creds"
        BY DEF SyncIdle, Between
    <2>2. \A j \in Item : task.snap[j] # NoRow => Kept(j, task.snap[j])
        BY <1>8 DEF SyncRequest, GapInv, SyncIdle, Between, NoSnap, Linked
    <2>3. Grows /\ ReportedInTime' /\ KeepsConn /\ KeepsLink
        BY <1>5, <1>6, <1>7, <1>8 DEF SyncRequest, tables
    <2>4. SyncStep(p, task)
        BY <1>8 DEF SyncRequest
    <2>5. KeepsSync
        BY <1>2, <2>1, <2>2, <2>3, <2>4, SyncStepKeeps
    <2> QED BY <1>1, <2>3, <2>5, PromisesSuffice
<1>9. ASSUME NEW i \in Item, SyncStart(p, i) PROVE GapInv'
    <2> DEFINE task == [sync[p] EXCEPT !.pc = "creds", !.item = i, !.start = now]
    <2>1. task.start = now /\ task.pc = "creds" /\ task.snap = sync[p].snap
        BY <1>2 DEF SyncTask
    <2>2. Grows /\ ReportedInTime' /\ KeepsConn /\ KeepsLink /\ SyncStep(p, task)
        BY <1>5, <1>6, <1>7, <1>9 DEF SyncStart, tables
    <2>3. KeepsSync
        BY <1>2, <2>1, <2>2, MoveKeeps
    <2> QED BY <1>1, <2>2, <2>3, PromisesSuffice
<1>10. CASE SyncAll(p)
    <2> DEFINE task == Between("next", conn)
    <2>1. task.start = 0 /\ task.pc = "next" /\ task.snap = conn /\ 0 <= now
        BY <1>3, ConstantsAssumption DEF Between, TypeOK, Days
    <2>2. \A j \in Item : task.snap[j] # NoRow => Kept(j, task.snap[j])
        BY <2>1 DEF GapInv, Linked
    <2>3. Grows /\ ReportedInTime' /\ KeepsConn /\ KeepsLink /\ SyncStep(p, task)
        BY <1>5, <1>6, <1>7, <1>10 DEF SyncAll, tables
    <2>4. KeepsSync
        BY <2>1, <2>2, <2>3, SyncStepKeeps
    <2> QED BY <1>1, <2>3, <2>4, PromisesSuffice
<1>11. CASE SyncDone(p) \/ SyncDropped(p)
    <2>1. Grows /\ ReportedInTime' /\ KeepsConn /\ KeepsLink /\ SyncStep(p, SyncIdle)
        BY <1>5, <1>6, <1>7, <1>11 DEF SyncDone, SyncDropped, tables
    <2> QED BY <1>1, <2>1, RestKeeps, PromisesSuffice
<1>12. CASE SyncCredentials(p)
    <2> DEFINE task == [sync[p] EXCEPT !.pc = "accounts"]
    <2>1. task.start = sync[p].start /\ task.pc = "accounts" /\ task.snap = sync[p].snap
        BY <1>2 DEF SyncTask
    <2>2. Grows /\ ReportedInTime' /\ KeepsConn /\ KeepsLink
        BY <1>5, <1>6, <1>7, <1>12 DEF SyncCredentials, tables
    <2>3. SyncStep(p, task) \/ SyncStep(p, NextConnection(p))
        BY <1>12 DEF SyncCredentials
    <2>4. KeepsSync
        BY <1>2, <2>1, <2>2, <2>3, MoveKeeps, RestKeeps
    <2> QED BY <1>1, <2>2, <2>4, PromisesSuffice
<1>13. CASE SyncProviderError(p)
    <2> DEFINE i == sync[p].item
               row == [sync[p].snap[i] EXCEPT !.status = "error"]
    <2>1. i \in Item /\ row \in ConnRow /\ row.lastSync = sync[p].snap[i].lastSync
        BY <1>4, <1>13 DEF SyncProviderError, ConnRow, Status
    <2>2. Kept(i, row)
        BY <1>4, <1>13, <2>1 DEF SyncProviderError, Kept
    <2>3. conn' \in {conn, [conn EXCEPT ![i] = Saved(i, row)]}
        BY <1>13 DEF SyncProviderError
    <2>4. KeepsConn
        BY <2>1, <2>2, <2>3, SaveKeepsConn
    <2>5. Grows /\ ReportedInTime' /\ KeepsLink /\ SyncStep(p, NextConnection(p))
        BY <1>5, <1>7, <1>13 DEF SyncProviderError
    <2> QED BY <1>1, <2>4, <2>5, RestKeeps, PromisesSuffice
<1>14. CASE SyncUpsertAccount(p)
    <2> DEFINE task == [sync[p] EXCEPT !.pc = "mapping"]
    <2>1. task.start = sync[p].start /\ task.pc = "mapping" /\ task.snap = sync[p].snap
        BY <1>2 DEF SyncTask
    <2>2. Grows /\ ReportedInTime' /\ KeepsConn /\ KeepsLink /\ SyncStep(p, task)
        BY <1>5, <1>6, <1>7, <1>14 DEF SyncUpsertAccount
    <2>3. KeepsSync
        BY <1>2, <2>1, <2>2, MoveKeeps
    <2> QED BY <1>1, <2>2, <2>3, PromisesSuffice
<1>15. CASE SyncMapAccounts(p)
    <2> DEFINE acct == IF Mappable(p) THEN account[sync[p].item].id ELSE NoAcct
               task == [sync[p] EXCEPT !.pc = "fetch", !.acct = acct]
    <2>1. task.start = sync[p].start /\ task.pc = "fetch" /\ task.snap = sync[p].snap
        BY <1>2 DEF SyncTask
    <2>2. Grows /\ ReportedInTime' /\ KeepsConn /\ KeepsLink
        BY <1>5, <1>6, <1>7, <1>15 DEF SyncMapAccounts, tables
    <2>3. SyncStep(p, task) \/ SyncStep(p, NextConnection(p))
        BY <1>15 DEF SyncMapAccounts
    <2>4. KeepsSync
        BY <1>2, <2>1, <2>2, <2>3, MoveKeeps, RestKeeps
    <2> QED BY <1>1, <2>2, <2>4, PromisesSuffice
<1>16. CASE SyncFetchTransactions(p)
    <2> DEFINE i == sync[p].item
               row == sync[p].snap[i]
               today == IF i \in Teller THEN sync[p].start ELSE now
               batch == Reported(i, StartDate(row.lastSync, today), today)
               task == [sync[p] EXCEPT !.pc = "store", !.batch = batch]
    <2>1. i \in Item /\ row \in ConnRow /\ Kept(i, row)
        BY <1>4, <1>16 DEF SyncFetchTransactions
    <2>2. /\ sync[p].start \in Days /\ today \in Days
          /\ sync[p].start <= today /\ today <= now
        BY <1>2, <1>3, ConstantsAssumption DEF SyncTask, TypeOK, Days
    <2>3. Covers(i, sync[p].start, now, postedOn, stored \cup lost \cup batch)
        BY <1>3, <2>1, <2>2, WindowCloses
    <2> HIDE DEF batch
    <2>4. /\ task.start = sync[p].start /\ task.pc = "store" /\ task.snap = sync[p].snap
          /\ task.item = i /\ task.batch = batch
        BY <1>2 DEF SyncTask
    <2>5. Grows /\ ReportedInTime' /\ KeepsConn /\ KeepsLink /\ SyncStep(p, task)
          /\ UNCHANGED <<stored, lost>>
        BY <1>5, <1>6, <1>7, <1>16 DEF SyncFetchTransactions, tables, batch
    <2>6. \A j \in Item : task.snap[j] # NoRow => Kept(j, task.snap[j])
        BY <2>4 DEF GapInv
    <2>7. KeepsSync
        BY <1>2, <2>3, <2>4, <2>5, <2>6, SyncStepKeeps
    <2> QED BY <1>1, <2>5, <2>7, PromisesSuffice
<1>17. CASE SyncSave(p)
    <2> DEFINE i == sync[p].item
    <2>1. i \in Item /\ SyncedRow(p) \in ConnRow /\ SyncedRow(p).lastSync = sync[p].start
        BY <1>2, <1>4, <1>17 DEF SyncSave, SyncedRow, ConnRow, Status, SyncTask
    <2>2. Covers(i, sync[p].start, now, postedOn, stored \cup lost)
        BY <1>17 DEF SyncSave, GapInv, BatchCovers, Covers
    <2>3. Kept(i, SyncedRow(p))
        BY <1>2, <2>1, <2>2 DEF Kept
    <2>4. conn' \in {conn, [conn EXCEPT ![i] = Saved(i, SyncedRow(p))]}
        BY <1>17 DEF SyncSave
    <2>5. KeepsConn
        BY <2>1, <2>3, <2>4, SaveKeepsConn
    <2>6. Grows /\ ReportedInTime' /\ KeepsLink /\ SyncStep(p, NextConnection(p))
        BY <1>5, <1>7, <1>17 DEF SyncSave
    <2> QED BY <1>1, <2>5, <2>6, RestKeeps, PromisesSuffice
<1>18. ASSUME NEW t \in Txn, SyncStoreTransaction(p, t) PROVE GapInv'
    <2> DEFINE task == [sync[p] EXCEPT !.batch = @ \ {t}]
    <2>1. /\ task.start = sync[p].start /\ task.pc = sync[p].pc /\ task.snap = sync[p].snap
          /\ task.item = sync[p].item /\ task.batch = sync[p].batch \ {t}
        BY <1>2 DEF SyncTask
    <2>2. stored \cup lost \subseteq stored' \cup lost' /\ t \in stored' \cup lost'
        BY <1>18 DEF SyncStoreTransaction
    <2>3. Grows /\ ReportedInTime' /\ KeepsConn /\ KeepsLink /\ SyncStep(p, task)
        BY <1>5, <1>6, <1>7, <1>18, <2>2 DEF SyncStoreTransaction
    <2>4. Covers(task.item, task.start, now, postedOn, stored' \cup lost' \cup task.batch)
        BY <1>18, <2>1, <2>2 DEF SyncStoreTransaction, GapInv, BatchCovers, Covers
    <2>5. \A j \in Item : task.snap[j] # NoRow => Kept(j, task.snap[j])
        BY <2>1 DEF GapInv
    <2>6. KeepsSync
        BY <1>2, <2>1, <2>3, <2>4, <2>5, SyncStepKeeps
    <2> QED BY <1>1, <2>3, <2>6, PromisesSuffice
<1> QED BY <1>8, <1>9, <1>10, <1>11, <1>12, <1>13, <1>14, <1>15, <1>16, <1>17, <1>18
        DEF SyncNext

\* A link that keeps its item and its row, or ends, keeps their promise.
LEMMA LinkStepKeeps ==
    ASSUME GapInv, NEW l \in Linker, NEW task, LinkStep(l, task),
           \/ task.pc = "idle"
           \/ Kept(task.item, task.row)
    PROVE  KeepsLink
<1>1. link \in [Linker -> LinkTask]
    BY DEF GapInv, TypeInv, TypeOK
<1> QED BY <1>1 DEF GapInv, KeepsLink, LinkStep

LEMMA GapLink ==
    ASSUME GapInv, NEW l \in Linker, LinkNext(l)
    PROVE  GapInv'
<1>1. TypeInv'
    BY LinkTypes DEF GapInv
<1>2. link[l] \in LinkTask /\ now \in Nat
    BY ConstantsAssumption DEF GapInv, TypeInv, TypeOK, Days
<1>3. link[l].pc # "idle" =>
         link[l].item \in Item /\ link[l].row \in ConnRow /\ Kept(link[l].item, link[l].row)
    BY DEF GapInv, TypeInv, Busy
<1>4. \A pc : LET task == [link[l] EXCEPT !.pc = pc]
              IN  task.item = link[l].item /\ task.row = link[l].row
    BY <1>2 DEF LinkTask
<1>5. LinkIdle.pc = "idle"
    BY DEF LinkIdle
<1>6. UNCHANGED conn => KeepsConn
    BY SameConn
<1>7. UNCHANGED <<now, postedOn, stored, lost, sync>> => Grows /\ ReportedInTime' /\ KeepsSync
    BY SameBank, SameSync
<1>8. ASSUME NEW i \in Item, NEW s \in Session, LinkNew(l, i, s) PROVE GapInv'
    <2>1. PICK c \in FreshConnIds :
             LinkStep(l, [pc |-> "storeCreds", item |-> i, session |-> s,
                          row |-> [id |-> c, lastSync |-> Never, status |-> "connected"]])
        BY <1>8 DEF LinkNew
    <2> DEFINE row == [id |-> c, lastSync |-> Never, status |-> "connected"]
               task == [pc |-> "storeCreds", item |-> i, session |-> s, row |-> row]
    <2>2. Kept(i, row)
        <3>1. \A t \in TxnsOf(i) : postedOn[t] # Never => ~(postedOn[t] < Never)
            BY ConstantsAssumption DEF GapInv, TypeInv, TypeOK, TxnsOf, Days, Never
        <3> QED BY <1>2, <3>1 DEF Kept, Covers, Never
    <2>3. task.item = i /\ task.row = row /\ LinkStep(l, task)
        BY <2>1
    <2> HIDE DEF task, row
    <2>4. KeepsLink
        BY <2>2, <2>3, LinkStepKeeps
    <2> QED BY <1>1, <1>6, <1>7, <1>8, <2>4, PromisesSuffice DEF LinkNew, tables
<1>9. ASSUME NEW i \in Item, NEW s \in Session, LinkAgain(l, i, s) PROVE GapInv'
    <2> DEFINE task == [pc |-> "storeCreds", item |-> i, session |-> s, row |-> conn[i]]
    <2>1. task.item = i /\ task.row = conn[i] /\ Kept(i, conn[i]) /\ LinkStep(l, task)
        BY <1>9 DEF LinkAgain, GapInv
    <2> HIDE DEF task
    <2>2. KeepsLink
        BY <2>1, LinkStepKeeps
    <2> QED BY <1>1, <1>6, <1>7, <1>9, <2>2, PromisesSuffice DEF LinkAgain, tables
<1>10. CASE LinkStoreCredentials(l)
    <2>1. KeepsLink
        BY <1>3, <1>4, <1>5, <1>10, LinkStepKeeps DEF LinkStoreCredentials
    <2> QED BY <1>1, <1>6, <1>7, <1>10, <2>1, PromisesSuffice DEF LinkStoreCredentials
<1>11. CASE LinkCacheToken(l)
    <2>1. KeepsLink
        BY <1>3, <1>4, <1>11, LinkStepKeeps DEF LinkCacheToken
    <2> QED BY <1>1, <1>6, <1>7, <1>11, <2>1, PromisesSuffice DEF LinkCacheToken, tables
<1>12. CASE LinkSaveConnection(l)
    <2>1. KeepsLink
        BY <1>3, <1>4, <1>5, <1>12, LinkStepKeeps DEF LinkSaveConnection
    <2>2. KeepsConn
        BY <1>3, <1>12, SaveKeepsConn DEF LinkSaveConnection
    <2> QED BY <1>1, <1>7, <1>12, <2>1, <2>2, PromisesSuffice DEF LinkSaveConnection
<1>13. CASE LinkUpsertAccount(l)
    <2>1. KeepsLink
        BY <1>3, <1>4, <1>5, <1>13, LinkStepKeeps DEF LinkUpsertAccount
    <2> QED BY <1>1, <1>6, <1>7, <1>13, <2>1, PromisesSuffice DEF LinkUpsertAccount
<1>14. CASE LinkSaveAgain(l)
    <2>1. KeepsLink
        BY <1>5, <1>14, LinkStepKeeps DEF LinkSaveAgain
    <2>2. KeepsConn
        BY <1>3, <1>14, SaveKeepsConn DEF LinkSaveAgain
    <2> QED BY <1>1, <1>7, <1>14, <2>1, <2>2, PromisesSuffice DEF LinkSaveAgain
<1>15. CASE LinkDropped(l)
    <2>1. KeepsLink
        BY <1>5, <1>15, LinkStepKeeps DEF LinkDropped
    <2> QED BY <1>1, <1>6, <1>7, <1>15, <2>1, PromisesSuffice DEF LinkDropped, tables
<1> QED BY <1>8, <1>9, <1>10, <1>11, <1>12, <1>13, <1>14, <1>15 DEF LinkNext

LEMMA GapUnlink ==
    ASSUME GapInv, NEW r \in Remover, UnlinkNext(r)
    PROVE  GapInv'
<1>1. TypeInv'
    BY UnlinkTypes DEF GapInv
<1>2. UNCHANGED <<now, postedOn, link, sync>> /\ stored \cup lost \subseteq stored' \cup lost'
      /\ KeepsConn => GapInv'
    BY <1>1, SameBank, SameSync, SameLink, PromisesSuffice
<1>3. UNCHANGED conn => KeepsConn
    BY SameConn
<1>4. ASSUME NEW i \in Item, NEW s \in Session, UnlinkRequest(r, i, s) PROVE GapInv'
    BY <1>2, <1>3, <1>4 DEF UnlinkRequest, tables
<1>5. CASE UnlinkCaches(r)
    BY <1>2, <1>3, <1>5 DEF UnlinkCaches, tables
<1>6. CASE UnlinkTransactions(r)
    <2>1. stored \cup lost \subseteq stored' \cup lost'
        BY <1>6 DEF UnlinkTransactions
    <2> QED BY <1>2, <1>3, <1>6, <2>1 DEF UnlinkTransactions
<1>7. CASE UnlinkAccounts(r)
    BY <1>2, <1>3, <1>7 DEF UnlinkAccounts
<1>8. CASE UnlinkCredentials(r)
    BY <1>2, <1>3, <1>8 DEF UnlinkCredentials
<1>9. CASE UnlinkConnection(r)
    <2>1. KeepsConn
        BY <1>9 DEF UnlinkConnection, KeepsConn, GapInv, TypeInv, TypeOK, Linked
    <2> QED BY <1>2, <1>9, <2>1 DEF UnlinkConnection
<1>10. CASE UnlinkFail(r)
    BY <1>2, <1>3, <1>10 DEF UnlinkFail, tables
<1> QED BY <1>4, <1>5, <1>6, <1>7, <1>8, <1>9, <1>10 DEF UnlinkNext

LEMMA GapNext == GapInv /\ [Next]_vars => GapInv'
<1> SUFFICES ASSUME GapInv, [Next]_vars PROVE GapInv'
    OBVIOUS
<1>1. TypeInv /\ TypeInv'
    BY NextTypes DEF GapInv
<1>2. now \in Int /\ now' \in Int
    BY <1>1, ConstantsAssumption DEF TypeInv, TypeOK, Days
<1>3. ASSUME NEW t \in Txn, BankPosts(t) PROVE GapInv'
    <2>1. ReportedInTime'
        BY <1>1, <1>3, ConstantsAssumption, WindowAssumption
        DEF BankPosts, GapInv, ReportedInTime, TypeInv, TypeOK
    <2>2. Grows
        BY <1>1, <1>2, <1>3 DEF BankPosts, Grows, TypeInv, TypeOK, tables
    <2> QED BY <1>1, <1>3, <2>1, <2>2, SameConn, SameSync, SameLink, PromisesSuffice
            DEF BankPosts, tables
<1>4. CASE NextDay
    <2>1. ReportedInTime'
        BY <1>4 DEF NextDay, GapInv, ReportedInTime
    <2>2. Grows
        BY <1>2, <1>4 DEF NextDay, Grows, tables
    <2> QED BY <1>1, <1>4, <2>1, <2>2, SameConn, SameSync, SameLink, PromisesSuffice
            DEF NextDay, tables
<1>5. CASE UNCHANGED <<now, postedOn, conn, stored, lost, sync, link>>
    BY <1>1, <1>5, SameBank, SameConn, SameSync, SameLink, PromisesSuffice
<1>6. ASSUME NEW s \in Session, NEW i \in Item, TokenExpires(s, i) PROVE GapInv'
    BY <1>5, <1>6 DEF TokenExpires, tables
<1>7. CASE UNCHANGED vars
    BY <1>5, <1>7 DEF vars, tables
<1> QED BY <1>3, <1>4, <1>6, <1>7, GapSync, GapLink, GapUnlink DEF Next

(***************************************************************************)
(* last_sync_at keeps its promise for any number of overlapping syncs,     *)
(* links and disconnects, any reporting lag up to the safety margin and    *)
(* any look-back cap no shorter than the first window.                     *)
(***************************************************************************)
THEOREM HistoryHasNoSilentGap == Spec => []NoSilentGap
<1>1. Spec => []GapInv
    BY InitGap, GapNext, PTL DEF Spec
<1> QED BY <1>1, GapInvIsStrongEnough, PTL

-----------------------------------------------------------------------------
(***************************************************************************)
(* NoOrphanedData.  An account row hangs off the row of its own item       *)
(* because a connection id is never used for two items: not by two rows of *)
(* the table, and not by a copy of a row that a task still holds while the *)
(* table has moved on.  Only then does a foreign key that finds the id     *)
(* find the right item.                                                    *)
(***************************************************************************)
\* The table, a sync or a link holds a row of item i with id c.
Holds(i, c) ==
    \/ Linked(i) /\ conn[i].id = c
    \/ \E p \in Syncer : sync[p].snap[i] # NoRow /\ sync[p].snap[i].id = c
    \/ \E l \in Linker : link[l].item = i /\ link[l].row # NoRow /\ link[l].row.id = c

OneItemPerId ==
    \A i, j \in Item, c \in ConnId : Holds(i, c) /\ Holds(j, c) => i = j

\* A sync stores transactions of the item it works on, and of no other.
BatchIsTheItems ==
    \A p \in Syncer : sync[p].pc = "store" => sync[p].batch \subseteq TxnsOf(sync[p].item)

DataInv == TypeInv /\ OneItemPerId /\ BatchIsTheItems /\ NoOrphanedData

LEMMA InitData == Init => DataInv
  BY InitTypes, ConstantsAssumption
  DEF Init, DataInv, OneItemPerId, Holds, BatchIsTheItems, NoOrphanedData, Linked,
      SyncIdle, LinkIdle, Between, NoSnap

(***************************************************************************)
(* What a step makes of the ids: every row of the next state has an id     *)
(* that its item held before.                                              *)
(***************************************************************************)
ConnHeld == \A i \in Item : conn'[i] # NoRow => Holds(i, conn'[i].id)
SyncHeld == \A p \in Syncer, i \in Item :
                sync'[p].snap[i] # NoRow => Holds(i, sync'[p].snap[i].id)
LinkHeld == \A l \in Linker :
                link'[l].item \in Item /\ link'[l].row # NoRow
                    => Holds(link'[l].item, link'[l].row.id)

LEMMA HeldSuffices ==
    ASSUME OneItemPerId, ConnHeld, SyncHeld, LinkHeld
    PROVE  OneItemPerId'
<1>1. ASSUME NEW i \in Item, NEW c \in ConnId, Holds(i, c)' PROVE Holds(i, c)
    <2>1. CASE conn'[i] # NoRow /\ conn'[i].id = c
        BY <2>1 DEF ConnHeld
    <2>2. CASE \E p \in Syncer : sync'[p].snap[i] # NoRow /\ sync'[p].snap[i].id = c
        BY <2>2 DEF SyncHeld
    <2>3. CASE \E l \in Linker : link'[l].item = i /\ link'[l].row # NoRow /\ link'[l].row.id = c
        BY <2>3 DEF LinkHeld
    <2> QED BY <1>1, <2>1, <2>2, <2>3 DEF Holds, Linked
<1> QED BY <1>1 DEF OneItemPerId

LEMMA SameHeld ==
    /\ UNCHANGED conn => ConnHeld
    /\ UNCHANGED sync => SyncHeld
    /\ UNCHANGED link => LinkHeld
  BY DEF ConnHeld, SyncHeld, LinkHeld, Holds, Linked

\* A save writes an id its item holds, or keeps the one of the table.
LEMMA SaveHeld ==
    ASSUME TypeInv, NEW i \in Item, NEW row \in ConnRow, Holds(i, row.id),
           conn' \in {conn, [conn EXCEPT ![i] = Saved(i, row)]}
    PROVE  ConnHeld
<1>1. CASE conn' = conn
    BY <1>1, SameHeld
<1>2. CASE conn' = [conn EXCEPT ![i] = Saved(i, row)]
    <2>1. conn' \in [Item -> ConnRow \cup {NoRow}] /\ conn'[i] = Saved(i, row)
          /\ \A j \in Item \ {i} : conn'[j] = conn[j]
        BY <1>2, SavedType DEF TypeInv, TypeOK
    <2>2. Holds(i, Saved(i, row).id)
        BY DEF Saved, Holds, ConnRow
    <2>3. \A j \in Item : conn[j] # NoRow => Holds(j, conn[j].id)
        BY DEF Holds, Linked
    <2> QED BY <2>1, <2>2, <2>3 DEF ConnHeld
<1> QED BY <1>1, <1>2

\* A sync moves to a task whose copies are of rows its items held.
LEMMA SyncStepHeld ==
    ASSUME TypeInv, NEW p \in Syncer, NEW task, SyncStep(p, task),
           \A i \in Item : task.snap[i] # NoRow => Holds(i, task.snap[i].id)
    PROVE  SyncHeld
<1>1. sync \in [Syncer -> SyncTask]
    BY DEF TypeInv, TypeOK
<1> QED BY <1>1 DEF SyncStep, SyncHeld, Holds

LEMMA LinkStepHeld ==
    ASSUME TypeInv, NEW l \in Linker, NEW task, LinkStep(l, task),
           task.item \in Item /\ task.row # NoRow => Holds(task.item, task.row.id)
    PROVE  LinkHeld
<1>1. link \in [Linker -> LinkTask]
    BY DEF TypeInv, TypeOK
<1> QED BY <1>1 DEF LinkStep, LinkHeld, Holds

(***************************************************************************)
(* What a step makes of the data.                                          *)
(***************************************************************************)
\* A save never moves the id of a row that accounts may hang off.
LEMMA SaveKeepsData ==
    ASSUME TypeInv, NoOrphanedData, NEW i \in Item, NEW row \in ConnRow,
           conn' \in {conn, [conn EXCEPT ![i] = Saved(i, row)]},
           UNCHANGED <<account, stored>>
    PROVE  NoOrphanedData'
<1>1. CASE conn' = conn
    BY <1>1 DEF NoOrphanedData, Linked
<1>2. CASE conn' = [conn EXCEPT ![i] = Saved(i, row)]
    <2>1. conn'[i] = Saved(i, row) /\ \A j \in Item \ {i} : conn'[j] = conn[j]
        BY <1>2 DEF TypeInv, TypeOK
    <2>2. Linked(i) => Saved(i, row).id = conn[i].id
        BY DEF Saved, ConnRow
    <2>3. Saved(i, row) # NoRow
        BY SavedType, NullAssumption DEF TypeInv
    <2> QED BY <2>1, <2>2, <2>3 DEF NoOrphanedData, Linked
<1> QED BY <1>1, <1>2

\* The foreign key finds the connection of the account's own item.
LEMMA UpsertKeepsData ==
    ASSUME DataInv, NEW i \in Item, NEW c \in ConnId, Holds(i, c),
           UpsertAccount(i, c), UNCHANGED <<conn, stored>>
    PROVE  NoOrphanedData'
<1> USE DEF DataInv
<1>1. Linked(i) /\ conn[i].id = c
    <2>1. PICK j \in Item : Linked(j) /\ conn[j].id = c
        BY DEF UpsertAccount, CanUpsertAccount, LiveIds
    <2> QED BY <2>1 DEF OneItemPerId, Holds
<1>2. account'[i] # NoAcct /\ account'[i].conn = c
    <2>1. account' \in [Item -> AcctRow \cup {NoAcct}]
        BY UpsertAccountTypes DEF TypeInv
    <2>2. CASE account[i] = NoAcct
        <3>1. PICK a \in FreshAcctIds : account' = [account EXCEPT ![i] = [id |-> a, conn |-> c]]
            BY <2>2 DEF UpsertAccount
        <3>2. [id |-> a, conn |-> c] \in AcctRow
            BY DEF AcctRow, FreshAcctIds
        <3> QED BY <3>1, <3>2, NullAssumption DEF TypeInv, TypeOK
    <2>3. CASE account[i] # NoAcct
        <3>1. account' = [account EXCEPT ![i].conn = c] /\ account[i] \in AcctRow
            BY <2>3 DEF UpsertAccount, TypeInv, TypeOK
        <3>2. [account[i] EXCEPT !.conn = c] \in AcctRow
            BY <3>1 DEF AcctRow
        <3> QED BY <3>1, <3>2, NullAssumption DEF TypeInv, TypeOK, AcctRow
    <2> QED BY <2>2, <2>3
<1>3. \A j \in Item \ {i} : account'[j] = account[j]
    BY DEF UpsertAccount, TypeInv, TypeOK
<1>4. \A t \in stored : TxnItem[t] \in Item
    BY ConstantsAssumption DEF TypeInv, TypeOK
<1> QED BY <1>1, <1>2, <1>3, <1>4 DEF NoOrphanedData, Linked

\* Nobody's account but item i's own hangs off the connection of i.
LEMMA OwnAccounts ==
    ASSUME DataInv, NEW i \in Item, Linked(i), NEW j \in AccountsOf(conn[i].id)
    PROVE  j = i
  BY DEF DataInv, TypeInv, TypeOK, ConnRow, AccountsOf, NoOrphanedData, OneItemPerId, Holds, Linked

LEMMA StepKeepsBatches ==
    ASSUME TypeInv, BatchIsTheItems, NEW p \in Syncer, NEW task, SyncStep(p, task),
           task.pc = "store" => task.batch \subseteq TxnsOf(task.item)
    PROVE  BatchIsTheItems'
<1>1. sync \in [Syncer -> SyncTask]
    BY DEF TypeInv, TypeOK
<1> QED BY <1>1 DEF SyncStep, BatchIsTheItems

LEMMA DataSync ==
    ASSUME DataInv, NEW p \in Syncer, SyncNext(p)
    PROVE  DataInv'
<1>1. TypeInv' /\ TypeInv
    BY SyncTypes DEF DataInv
<1>2. sync[p] \in SyncTask
    BY DEF DataInv, TypeInv, TypeOK
<1>3. sync[p].pc \notin {"idle", "next"} =>
         LET i == sync[p].item
         IN  i \in Item /\ sync[p].snap[i] \in ConnRow /\ Holds(i, sync[p].snap[i].id)
    BY NullAssumption DEF DataInv, TypeInv, Busy, Holds
<1>4. \A i \in Item : sync[p].snap[i] # NoRow => Holds(i, sync[p].snap[i].id)
    BY DEF Holds
<1>5. \A i \in Item : conn[i] # NoRow => Holds(i, conn[i].id)
    BY DEF Holds, Linked
<1>6. UNCHANGED <<conn, account, stored>> => ConnHeld /\ NoOrphanedData'
    BY SameHeld DEF DataInv, NoOrphanedData, Linked
<1>7. UNCHANGED link => LinkHeld
    BY SameHeld
<1>8. ConnHeld /\ SyncHeld /\ LinkHeld /\ BatchIsTheItems' /\ NoOrphanedData' => DataInv'
    BY <1>1, HeldSuffices DEF DataInv
<1>9. ASSUME NEW task, SyncStep(p, task),
             \A i \in Item : task.snap[i] # NoRow => Holds(i, task.snap[i].id),
             task.pc = "store" => task.batch \subseteq TxnsOf(task.item)
      PROVE  SyncHeld /\ BatchIsTheItems'
    BY <1>1, <1>9, SyncStepHeld, StepKeepsBatches DEF DataInv
\* The copies the task has are all it keeps, and its batch is no new one.
<1>10. ASSUME NEW task, SyncStep(p, task), task.snap = sync[p].snap, task.pc # "store"
       PROVE  SyncHeld /\ BatchIsTheItems'
    BY <1>4, <1>9, <1>10
<1>11. SyncStep(p, NextConnection(p)) => SyncHeld /\ BatchIsTheItems'
    <2> DEFINE task == NextConnection(p)
    <2>1. task.pc = "next" /\ task.snap = [sync[p].snap EXCEPT ![sync[p].item] = NoRow]
        BY DEF NextConnection, Between
    <2>2. \A i \in Item : task.snap[i] # NoRow => Holds(i, task.snap[i].id)
        BY <1>2, <1>4, <2>1 DEF SyncTask
    <2> HIDE DEF task
    <2> QED BY <1>9, <2>1, <2>2 DEF task
<1>12. SyncStep(p, SyncIdle) => SyncHeld /\ BatchIsTheItems'
    <2>1. SyncIdle.pc = "idle" /\ \A i \in Item : SyncIdle.snap[i] = NoRow
        BY DEF SyncIdle, Between, NoSnap
    <2> QED BY <1>9, <2>1
<1>13. ASSUME NEW i \in Item, SyncRequest(p, i) PROVE DataInv'
    <2> DEFINE task == [SyncIdle EXCEPT !.pc = "creds", !.snap[i] = conn[i],
                                        !.item = i, !.start = now]
    <2>1. task.pc = "creds" /\ task.snap = [NoSnap EXCEPT ![i] = conn[i]]
        BY DEF SyncIdle, Between
    <2>2. \A j \in Item : task.snap[j] # NoRow => Holds(j, task.snap[j].id)
        BY <1>5, <2>1 DEF NoSnap
    <2>3. SyncStep(p, task)
        BY <1>13 DEF SyncRequest
    <2> HIDE DEF task
    <2>4. SyncHeld /\ BatchIsTheItems'
        BY <1>9, <2>1, <2>2, <2>3
    <2> QED BY <1>6, <1>7, <1>8, <1>13, <2>4 DEF SyncRequest, tables
<1>14. ASSUME NEW i \in Item, SyncStart(p, i) PROVE DataInv'
    <2> DEFINE task == [sync[p] EXCEPT !.pc = "creds", !.item = i, !.start = now]
    <2>1. task.pc = "creds" /\ task.snap = sync[p].snap /\ SyncStep(p, task)
        BY <1>2, <1>14 DEF SyncTask, SyncStart
    <2> HIDE DEF task
    <2>2. SyncHeld /\ BatchIsTheItems'
        BY <1>10, <2>1
    <2> QED BY <1>6, <1>7, <1>8, <1>14, <2>2 DEF SyncStart, tables
<1>15. CASE SyncAll(p)
    <2> DEFINE task == Between("next", conn)
    <2>1. task.pc = "next" /\ task.snap = conn /\ SyncStep(p, task)
        BY <1>15 DEF SyncAll, Between
    <2> HIDE DEF task
    <2>2. SyncHeld /\ BatchIsTheItems'
        BY <1>5, <1>9, <2>1
    <2> QED BY <1>6, <1>7, <1>8, <1>15, <2>2 DEF SyncAll, tables
<1>16. CASE SyncDone(p) \/ SyncDropped(p)
    BY <1>6, <1>7, <1>8, <1>12, <1>16 DEF SyncDone, SyncDropped, tables
<1>17. CASE SyncCredentials(p)
    <2> DEFINE task == [sync[p] EXCEPT !.pc = "accounts"]
    <2>1. task.pc = "accounts" /\ task.snap = sync[p].snap
        BY <1>2 DEF SyncTask
    <2>2. SyncStep(p, task) \/ SyncStep(p, NextConnection(p))
        BY <1>17 DEF SyncCredentials
    <2> HIDE DEF task
    <2>3. SyncHeld /\ BatchIsTheItems'
        BY <1>10, <1>11, <2>1, <2>2
    <2> QED BY <1>6, <1>7, <1>8, <1>17, <2>3 DEF SyncCredentials, tables
<1>18. CASE SyncProviderError(p)
    <2> DEFINE i == sync[p].item
               row == [sync[p].snap[i] EXCEPT !.status = "error"]
    <2>1. i \in Item /\ row \in ConnRow /\ Holds(i, row.id)
        BY <1>3, <1>18 DEF SyncProviderError, ConnRow, Status
    <2>2. /\ conn' \in {conn, [conn EXCEPT ![i] = Saved(i, row)]}
          /\ SyncStep(p, NextConnection(p)) /\ UNCHANGED <<account, stored, link>>
        BY <1>18 DEF SyncProviderError
    <2> HIDE DEF i, row
    <2>3. ConnHeld /\ NoOrphanedData'
        BY <1>1, <2>1, <2>2, SaveHeld, SaveKeepsData DEF DataInv
    <2> QED BY <1>7, <1>8, <1>11, <2>2, <2>3
<1>19. CASE SyncUpsertAccount(p)
    <2> DEFINE i == sync[p].item
               task == [sync[p] EXCEPT !.pc = "mapping"]
    <2>1. task.pc = "mapping" /\ task.snap = sync[p].snap /\ SyncStep(p, task)
        BY <1>2, <1>19 DEF SyncTask, SyncUpsertAccount
    <2>2. i \in Item /\ sync[p].snap[i].id \in ConnId /\ Holds(i, sync[p].snap[i].id)
        BY <1>3, <1>19 DEF SyncUpsertAccount, ConnRow
    <2>3. UNCHANGED <<conn, stored, link>>
          /\ (UpsertAccount(i, sync[p].snap[i].id) \/ UNCHANGED account)
        BY <1>19 DEF SyncUpsertAccount
    <2> HIDE DEF i, task
    <2>4. ConnHeld /\ NoOrphanedData'
        BY <1>6, <2>2, <2>3, SameHeld, UpsertKeepsData
    <2> QED BY <1>7, <1>8, <1>10, <2>1, <2>3, <2>4
<1>20. CASE SyncMapAccounts(p)
    <2> DEFINE acct == IF Mappable(p) THEN account[sync[p].item].id ELSE NoAcct
               task == [sync[p] EXCEPT !.pc = "fetch", !.acct = acct]
    <2>1. task.pc = "fetch" /\ task.snap = sync[p].snap
        BY <1>2 DEF SyncTask
    <2>2. SyncStep(p, task) \/ SyncStep(p, NextConnection(p))
        BY <1>20 DEF SyncMapAccounts
    <2> HIDE DEF task
    <2>3. SyncHeld /\ BatchIsTheItems'
        BY <1>10, <1>11, <2>1, <2>2
    <2> QED BY <1>6, <1>7, <1>8, <1>20, <2>3 DEF SyncMapAccounts, tables
<1>21. CASE SyncFetchTransactions(p)
    <2> DEFINE i == sync[p].item
               today == IF i \in Teller THEN sync[p].start ELSE now
               batch == Reported(i, StartDate(sync[p].snap[i].lastSync, today), today)
               task == [sync[p] EXCEPT !.pc = "store", !.batch = batch]
    <2>1. batch \subseteq TxnsOf(i)
        BY DEF Reported
    <2>2. SyncStep(p, task)
        BY <1>21 DEF SyncFetchTransactions
    <2> HIDE DEF batch
    <2>3. task.snap = sync[p].snap /\ task.batch = batch /\ task.item = i
        BY <1>2 DEF SyncTask
    <2> HIDE DEF task, i
    <2>4. SyncHeld /\ BatchIsTheItems'
        BY <1>4, <1>9, <2>1, <2>2, <2>3
    <2> QED BY <1>6, <1>7, <1>8, <1>21, <2>4 DEF SyncFetchTransactions, tables
<1>22. CASE SyncSave(p)
    <2> DEFINE i == sync[p].item
    <2>1. i \in Item /\ SyncedRow(p) \in ConnRow /\ Holds(i, SyncedRow(p).id)
        BY <1>2, <1>3, <1>22 DEF SyncSave, SyncedRow, ConnRow, Status, SyncTask
    <2>2. /\ conn' \in {conn, [conn EXCEPT ![i] = Saved(i, SyncedRow(p))]}
          /\ SyncStep(p, NextConnection(p)) /\ UNCHANGED <<account, stored, link>>
        BY <1>22 DEF SyncSave
    <2> HIDE DEF i
    <2>3. ConnHeld /\ NoOrphanedData'
        BY <1>1, <2>1, <2>2, SaveHeld, SaveKeepsData DEF DataInv
    <2> QED BY <1>7, <1>8, <1>11, <2>2, <2>3
<1>23. ASSUME NEW t \in Txn, SyncStoreTransaction(p, t) PROVE DataInv'
    <2> DEFINE task == [sync[p] EXCEPT !.batch = @ \ {t}]
    <2>1. /\ task.pc = sync[p].pc /\ task.snap = sync[p].snap
          /\ task.item = sync[p].item /\ task.batch \subseteq sync[p].batch
          /\ SyncStep(p, task)
        BY <1>2, <1>23 DEF SyncTask, SyncStoreTransaction
    <2> HIDE DEF task
    <2>2. sync[p].pc = "store" /\ t \in TxnsOf(sync[p].item)
          /\ UNCHANGED <<conn, account, link>>
        BY <1>23 DEF SyncStoreTransaction, DataInv, BatchIsTheItems
    <2>3. SyncHeld /\ BatchIsTheItems'
        BY <1>4, <1>9, <2>1, <2>2 DEF DataInv, BatchIsTheItems
    <2>4. \A u \in stored' : u \in stored \/ account[TxnItem[u]] # NoAcct
        BY <1>23, <2>2 DEF SyncStoreTransaction, Insertable, TxnsOf
    <2>5. NoOrphanedData'
        BY <2>2, <2>4 DEF DataInv, NoOrphanedData, Linked
    <2> QED BY <1>7, <1>8, <2>2, <2>3, <2>5, SameHeld
<1> QED BY <1>13, <1>14, <1>15, <1>16, <1>17, <1>18, <1>19, <1>20, <1>21, <1>22, <1>23
        DEF SyncNext

LEMMA FreshIsUnheld ==
    ASSUME NEW c \in FreshConnIds, NEW i \in Item
    PROVE  ~Holds(i, c)
<1>1. Linked(i) => conn[i].id \in LiveIds
    BY DEF LiveIds
<1>2. ASSUME NEW p \in Syncer, sync[p].snap[i] # NoRow PROVE sync[p].snap[i].id # c
    BY <1>2 DEF FreshConnIds
<1>3. ASSUME NEW l \in Linker, link[l].row # NoRow PROVE link[l].row.id # c
    BY <1>3 DEF FreshConnIds
<1> QED BY <1>1, <1>2, <1>3 DEF Holds, FreshConnIds

LEMMA DataLink ==
    ASSUME DataInv, NEW l \in Linker, LinkNext(l)
    PROVE  DataInv'
<1>1. TypeInv' /\ TypeInv
    BY LinkTypes DEF DataInv
<1>2. link[l] \in LinkTask
    BY DEF DataInv, TypeInv, TypeOK
<1>3. link[l].pc # "idle" =>
         /\ link[l].item \in Item /\ link[l].row \in ConnRow
         /\ Holds(link[l].item, link[l].row.id)
    BY NullAssumption DEF DataInv, TypeInv, Busy, Holds
<1>4. UNCHANGED <<conn, account, stored>> => ConnHeld /\ NoOrphanedData'
    BY SameHeld DEF DataInv, NoOrphanedData, Linked
<1>5. UNCHANGED sync => SyncHeld /\ BatchIsTheItems'
    BY SameHeld DEF DataInv, BatchIsTheItems
<1>6. ConnHeld /\ SyncHeld /\ LinkHeld /\ BatchIsTheItems' /\ NoOrphanedData' => DataInv'
    BY <1>1, HeldSuffices DEF DataInv
<1>7. LinkStep(l, LinkIdle) => LinkHeld
    <2>1. LinkIdle.row = NoRow
        BY DEF LinkIdle
    <2> QED BY <1>1, <2>1, LinkStepHeld
<1>8. ASSUME NEW pc, link[l].pc # "idle", LinkStep(l, [link[l] EXCEPT !.pc = pc])
      PROVE  LinkHeld
    <2> DEFINE task == [link[l] EXCEPT !.pc = pc]
    <2>1. task.item = link[l].item /\ task.row = link[l].row /\ LinkStep(l, task)
        BY <1>2, <1>8 DEF LinkTask
    <2> HIDE DEF task
    <2> QED BY <1>1, <1>3, <1>8, <2>1, LinkStepHeld
\* The new id is one that nothing of any item holds.
<1>9. ASSUME NEW i \in Item, NEW s \in Session, LinkNew(l, i, s) PROVE DataInv'
    <2>1. PICK c \in FreshConnIds :
             LinkStep(l, [pc |-> "storeCreds", item |-> i, session |-> s,
                          row |-> [id |-> c, lastSync |-> Never, status |-> "connected"]])
        BY <1>9 DEF LinkNew
    <2> DEFINE task == [pc |-> "storeCreds", item |-> i, session |-> s,
                        row |-> [id |-> c, lastSync |-> Never, status |-> "connected"]]
    <2>2. task.item = i /\ task.row.id = c /\ link' = [link EXCEPT ![l] = task]
        BY <2>1 DEF LinkStep
    <2> HIDE DEF task
    <2>3. \A j \in Item : ~Holds(j, c)
        BY <2>1, FreshIsUnheld
    <2>4. \A j \in Item, d \in ConnId : Holds(j, d)' => Holds(j, d) \/ (j = i /\ d = c)
        <3>1. UNCHANGED <<conn, sync>>
            BY <1>9 DEF LinkNew, tables
        <3>2. link \in [Linker -> LinkTask]
            BY DEF DataInv, TypeInv, TypeOK
        <3> QED BY <2>2, <3>1, <3>2 DEF Holds, Linked
    <2>5. OneItemPerId'
        BY <2>3, <2>4 DEF DataInv, OneItemPerId
    <2>6. BatchIsTheItems' /\ NoOrphanedData'
        BY <1>4, <1>5, <1>9 DEF LinkNew, tables
    <2> QED BY <1>1, <2>5, <2>6 DEF DataInv
<1>10. ASSUME NEW i \in Item, NEW s \in Session, LinkAgain(l, i, s) PROVE DataInv'
    <2> DEFINE task == [pc |-> "storeCreds", item |-> i, session |-> s, row |-> conn[i]]
    <2>1. task.item = i /\ task.row = conn[i] /\ LinkStep(l, task) /\ Holds(i, conn[i].id)
        BY <1>10 DEF LinkAgain, Holds
    <2> HIDE DEF task
    <2>2. LinkHeld
        BY <1>1, <2>1, LinkStepHeld
    <2> QED BY <1>4, <1>5, <1>6, <1>10, <2>2 DEF LinkAgain, tables
<1>11. CASE LinkStoreCredentials(l)
    <2>1. LinkHeld
        BY <1>7, <1>8, <1>11 DEF LinkStoreCredentials
    <2> QED BY <1>4, <1>5, <1>6, <1>11, <2>1 DEF LinkStoreCredentials
<1>12. CASE LinkCacheToken(l)
    <2>1. LinkHeld
        BY <1>8, <1>12 DEF LinkCacheToken
    <2> QED BY <1>4, <1>5, <1>6, <1>12, <2>1 DEF LinkCacheToken, tables
<1>13. CASE LinkSaveConnection(l)
    <2>1. LinkHeld
        BY <1>7, <1>8, <1>13 DEF LinkSaveConnection
    <2>2. ConnHeld /\ NoOrphanedData'
        BY <1>1, <1>3, <1>13, SaveHeld, SaveKeepsData DEF LinkSaveConnection, DataInv
    <2> QED BY <1>5, <1>6, <1>13, <2>1, <2>2 DEF LinkSaveConnection
<1>14. CASE LinkUpsertAccount(l)
    <2>1. LinkHeld
        BY <1>7, <1>8, <1>14 DEF LinkUpsertAccount
    <2>2. link[l].row.id \in ConnId
        BY <1>3, <1>14 DEF LinkUpsertAccount, ConnRow
    <2>3. ConnHeld /\ NoOrphanedData'
        BY <1>3, <1>4, <1>14, <2>2, SameHeld, UpsertKeepsData DEF LinkUpsertAccount
    <2> QED BY <1>5, <1>6, <1>14, <2>1, <2>3 DEF LinkUpsertAccount
<1>15. CASE LinkSaveAgain(l)
    <2>1. LinkHeld
        BY <1>7, <1>15 DEF LinkSaveAgain
    <2>2. ConnHeld /\ NoOrphanedData'
        BY <1>1, <1>3, <1>15, SaveHeld, SaveKeepsData DEF LinkSaveAgain, DataInv
    <2> QED BY <1>5, <1>6, <1>15, <2>1, <2>2 DEF LinkSaveAgain
<1>16. CASE LinkDropped(l)
    BY <1>4, <1>5, <1>6, <1>7, <1>16 DEF LinkDropped, tables
<1> QED BY <1>9, <1>10, <1>11, <1>12, <1>13, <1>14, <1>15, <1>16 DEF LinkNext

LEMMA DataUnlink ==
    ASSUME DataInv, NEW r \in Remover, UnlinkNext(r)
    PROVE  DataInv'
<1>1. TypeInv' /\ TypeInv
    BY UnlinkTypes DEF DataInv
<1>2. ConnHeld /\ NoOrphanedData' /\ UNCHANGED <<sync, link>> => DataInv'
    BY <1>1, HeldSuffices, SameHeld DEF DataInv, BatchIsTheItems
<1>3. UNCHANGED <<conn, account, stored>> => ConnHeld /\ NoOrphanedData'
    BY SameHeld DEF DataInv, NoOrphanedData, Linked
<1>4. ASSUME NEW i \in Item, NEW s \in Session, UnlinkRequest(r, i, s) PROVE DataInv'
    BY <1>2, <1>3, <1>4 DEF UnlinkRequest, tables
<1>5. CASE UnlinkCaches(r)
    BY <1>2, <1>3, <1>5 DEF UnlinkCaches, tables
<1>6. CASE UnlinkTransactions(r)
    <2>1. stored' \subseteq stored /\ UNCHANGED <<conn, account, sync, link>>
        BY <1>6 DEF UnlinkTransactions
    <2>2. NoOrphanedData'
        BY <2>1 DEF DataInv, NoOrphanedData, Linked
    <2> QED BY <1>2, <2>1, <2>2, SameHeld
\* A row that a transaction needs is Referenced, and the delete refused.
<1>7. ASSUME NEW i \in Item, Linked(i) => ~Referenced(conn[i].id),
             account' = [j \in Item |->
                           IF Linked(i) /\ j \in AccountsOf(conn[i].id) THEN NoAcct
                                                                        ELSE account[j]],
             UNCHANGED stored
      PROVE  /\ \A t \in stored' : account'[TxnItem[t]] # NoAcct
             /\ \A j \in Item : account'[j] # NoAcct =>
                   account'[j] = account[j] /\ ~(Linked(i) /\ j \in AccountsOf(conn[i].id))
    <2>1. ASSUME NEW t \in stored PROVE account'[TxnItem[t]] # NoAcct
        <3>1. t \in Txn /\ TxnItem[t] \in Item /\ account[TxnItem[t]] # NoAcct
            BY ConstantsAssumption DEF DataInv, TypeInv, TypeOK, NoOrphanedData
        <3>2. t \in TxnsOf(TxnItem[t])
            BY <3>1 DEF TxnsOf
        <3>3. Linked(i) => TxnItem[t] \notin AccountsOf(conn[i].id)
            BY <1>7, <3>2 DEF Referenced
        <3> QED BY <1>7, <3>1, <3>3
    <2> QED BY <1>7, <2>1
<1>8. CASE UnlinkAccounts(r)
    <2> DEFINE i == unlink[r].item
    <2>1. i \in Item /\ UNCHANGED <<conn, stored, sync, link>>
        BY <1>1, <1>8 DEF UnlinkAccounts, TypeInv, Busy
    <2>2. NoOrphanedData'
        BY <1>7, <1>8, <2>1 DEF UnlinkAccounts, DataInv, NoOrphanedData, Linked
    <2> QED BY <1>2, <2>1, <2>2, SameHeld
<1>9. CASE UnlinkCredentials(r)
    BY <1>2, <1>3, <1>9 DEF UnlinkCredentials
<1>10. CASE UnlinkConnection(r)
    <2> DEFINE i == unlink[r].item
    <2>1. i \in Item /\ UNCHANGED <<stored, sync, link>>
        BY <1>1, <1>10 DEF UnlinkConnection, TypeInv, Busy
    <2>2. conn'[i] = NoRow /\ \A j \in Item \ {i} : conn'[j] = conn[j]
        BY <2>1, <1>10 DEF UnlinkConnection, DataInv, TypeInv, TypeOK
    <2>3. account[i] # NoAcct => Linked(i) /\ i \in AccountsOf(conn[i].id)
        BY <2>1 DEF DataInv, NoOrphanedData, AccountsOf
    <2>4. NoOrphanedData'
        BY <1>7, <1>10, <2>1, <2>2, <2>3 DEF UnlinkConnection, DataInv, NoOrphanedData, Linked
    <2>5. ConnHeld
        BY <2>2 DEF ConnHeld, Holds, Linked
    <2> QED BY <1>2, <2>1, <2>4, <2>5
<1>11. CASE UnlinkFail(r)
    BY <1>2, <1>3, <1>11 DEF UnlinkFail, tables
<1> QED BY <1>4, <1>5, <1>6, <1>8, <1>9, <1>10, <1>11 DEF UnlinkNext

LEMMA DataNext == DataInv /\ [Next]_vars => DataInv'
<1> SUFFICES ASSUME DataInv, [Next]_vars PROVE DataInv'
    OBVIOUS
<1>1. TypeInv'
    BY NextTypes DEF DataInv
<1>2. CASE UNCHANGED <<conn, account, stored, sync, link>>
    BY <1>1, <1>2 DEF DataInv, OneItemPerId, Holds, BatchIsTheItems, NoOrphanedData, Linked
<1>3. ASSUME NEW t \in Txn, BankPosts(t) PROVE DataInv'
    BY <1>2, <1>3 DEF BankPosts, tables
<1>4. CASE NextDay
    BY <1>2, <1>4 DEF NextDay, tables
<1>5. ASSUME NEW s \in Session, NEW i \in Item, TokenExpires(s, i) PROVE DataInv'
    BY <1>2, <1>5 DEF TokenExpires, tables
<1>6. CASE UNCHANGED vars
    BY <1>2, <1>6 DEF vars, tables
<1> QED BY <1>3, <1>4, <1>5, <1>6, DataSync, DataLink, DataUnlink DEF Next

(***************************************************************************)
(* Whatever links, syncs and disconnects interleave, a stored transaction  *)
(* has the account of its item, and an account hangs off the connection    *)
(* row of its own item: a disconnect reaches all of it.                    *)
(***************************************************************************)
THEOREM DataHasAnOwner == Spec => []NoOrphanedData
<1>1. Spec => []DataInv
    BY InitData, DataNext, PTL DEF Spec
<1>2. DataInv => NoOrphanedData
    BY DEF DataInv
<1> QED BY <1>1, <1>2, PTL

-----------------------------------------------------------------------------
(***************************************************************************)
(* GoneStaysGone and DisconnectDeletesCredentials.  A disconnect that no   *)
(* link overlaps is alone from its request on; past its delete of the      *)
(* credentials nobody is left to write them.  What it leaves behind is an  *)
(* item that no link works on, and, if no sync was past its credentials,   *)
(* that no sync will get past them.                                        *)
(***************************************************************************)
AloneIsAlone ==
    \A r \in alone :
        /\ unlink[r].pc # "idle"
        /\ \A l \in Linker : link[l].item # unlink[r].item
        /\ unlink[r].pc = "conn" => unlink[r].item \notin cred

RemovedIsLeftAlone == \A i \in removed : i \notin cred /\ \A l \in Linker : link[l].item # i

GoneIsQuiet == \A i \in gone : i \in removed /\ ~Linked(i) /\ ~SyncInFlight(i)

GoneInv == DataInv /\ AloneIsAlone /\ RemovedIsLeftAlone /\ GoneIsQuiet

LEMMA InitGone == Init => GoneInv
  BY InitData DEF Init, GoneInv, AloneIsAlone, RemovedIsLeftAlone, GoneIsQuiet

LEMMA GoneInvIsStrongEnough == GoneInv => GoneStaysGone /\ DisconnectDeletesCredentials
<1> SUFFICES ASSUME GoneInv PROVE GoneStaysGone /\ DisconnectDeletesCredentials
    OBVIOUS
<1>1. DisconnectDeletesCredentials
    BY DEF GoneInv, RemovedIsLeftAlone, DisconnectDeletesCredentials
<1>2. gone \subseteq Item
    BY DEF GoneInv, DataInv, TypeInv, TypeOK
<1>3. ASSUME NEW i \in gone
      PROVE  ~Linked(i) /\ i \notin cred /\ account[i] = NoAcct /\ stored \cap TxnsOf(i) = {}
    <2>1. ~Linked(i) /\ i \notin cred
        BY DEF GoneInv, RemovedIsLeftAlone, GoneIsQuiet
    <2>2. account[i] = NoAcct
        BY <1>2, <2>1 DEF GoneInv, DataInv, NoOrphanedData
    <2>3. stored \cap TxnsOf(i) = {}
        BY <2>2 DEF GoneInv, DataInv, NoOrphanedData, TxnsOf
    <2> QED BY <2>1, <2>2, <2>3
<1> QED BY <1>1, <1>3 DEF GoneStaysGone

(***************************************************************************)
(* A sync leaves the credentials, the links and the disconnects as they    *)
(* are; of a gone item it writes no row, and starts no write.              *)
(***************************************************************************)
LEMMA GoneSync ==
    ASSUME GoneInv, NEW p \in Syncer, SyncNext(p)
    PROVE  GoneInv'
<1>1. DataInv' /\ TypeInv
    BY DataSync DEF GoneInv, DataInv
<1>2. /\ UNCHANGED <<cred, link, unlink, alone, removed, gone>>
      /\ \A q \in Syncer \ {p} : sync'[q] = sync[q]
      /\ sync \in [Syncer -> SyncTask]
    BY <1>1 DEF SyncNext, SyncRequest, SyncStart, SyncAll, SyncDone, SyncCredentials,
                SyncProviderError, SyncUpsertAccount, SyncMapAccounts, SyncFetchTransactions,
                SyncSave, SyncDropped, SyncStoreTransaction, SyncStep, tables, TypeInv, TypeOK
<1>3. AloneIsAlone' /\ RemovedIsLeftAlone'
    BY <1>2 DEF GoneInv, AloneIsAlone, RemovedIsLeftAlone
<1>4. ASSUME NEW task, SyncStep(p, task),
             \/ task.item = NoItem
             \/ task.pc = "creds"
             \/ task.item = sync[p].item /\ sync[p].pc # "creds"
             \/ task.item = sync[p].item /\ task.item \in cred,
             \A i \in gone : conn'[i] = conn[i]
      PROVE  GoneInv'
    <2>1. sync'[p] = task
        BY <1>2, <1>4 DEF SyncStep
    <2>2. ASSUME NEW i \in gone PROVE i \in removed /\ ~Linked(i)' /\ ~SyncInFlight(i)'
        <3>1. i \in removed /\ ~Linked(i) /\ ~SyncInFlight(i) /\ i \in Item /\ i \notin cred
            BY <1>1 DEF GoneInv, GoneIsQuiet, RemovedIsLeftAlone, TypeInv, TypeOK
        <3>2. ASSUME NEW q \in Syncer, sync'[q].item = i PROVE sync'[q].pc = "creds"
            <4>1. CASE q = p
                BY <1>4, <2>1, <3>1, <3>2, <4>1, ConstantsAssumption DEF SyncInFlight
            <4>2. CASE q # p
                BY <1>2, <3>1, <3>2, <4>2 DEF SyncInFlight
            <4> QED BY <4>1, <4>2
        <3> QED BY <1>4, <3>1, <3>2 DEF SyncInFlight, Linked
    <2> QED BY <1>1, <1>2, <1>3, <2>2 DEF GoneInv, GoneIsQuiet
<1>5. NextConnection(p).item = NoItem /\ SyncIdle.item = NoItem
      /\ Between("next", conn).item = NoItem
    BY DEF NextConnection, SyncIdle, Between
\* An item that a sync past its credentials works on is not gone.
<1>6. sync[p].pc \notin {"idle", "next", "creds"} => sync[p].item \in Item \ gone
    BY <1>1 DEF GoneInv, GoneIsQuiet, SyncInFlight, TypeInv, Busy
<1>7. ASSUME NEW row, NEW i \in Item \ gone,
             conn' \in {conn, [conn EXCEPT ![i] = row]}
      PROVE  \A j \in gone : conn'[j] = conn[j]
    BY <1>1, <1>7 DEF TypeInv, TypeOK
<1>8. ASSUME NEW i \in Item, SyncRequest(p, i) PROVE GoneInv'
    <2>1. [SyncIdle EXCEPT !.pc = "creds", !.snap[i] = conn[i],
                           !.item = i, !.start = now].pc = "creds"
        BY DEF SyncIdle, Between
    <2> QED BY <1>4, <1>8, <2>1 DEF SyncRequest, tables
<1>9. ASSUME NEW i \in Item, SyncStart(p, i) PROVE GoneInv'
    <2>1. [sync[p] EXCEPT !.pc = "creds", !.item = i, !.start = now].pc = "creds"
        BY <1>2 DEF SyncTask
    <2> QED BY <1>4, <1>9, <2>1 DEF SyncStart, tables
<1>10. CASE SyncAll(p)
    BY <1>4, <1>5, <1>10 DEF SyncAll, tables
<1>11. CASE SyncDone(p) \/ SyncDropped(p)
    BY <1>4, <1>5, <1>11 DEF SyncDone, SyncDropped, tables
<1>12. CASE SyncCredentials(p)
    <2> DEFINE task == [sync[p] EXCEPT !.pc = "accounts"]
    <2>1. task.item = sync[p].item
        BY <1>2 DEF SyncTask
    <2>2. \/ sync[p].item \in cred /\ SyncStep(p, task)
          \/ SyncStep(p, NextConnection(p))
        BY <1>12 DEF SyncCredentials
    <2>3. \A i \in gone : conn'[i] = conn[i]
        BY <1>12 DEF SyncCredentials, tables
    <2> HIDE DEF task
    <2> QED BY <1>4, <1>5, <2>1, <2>2, <2>3
<1>13. CASE SyncProviderError(p)
    <2>1. SyncStep(p, NextConnection(p)) /\ \A i \in gone : conn'[i] = conn[i]
        BY <1>6, <1>7, <1>13 DEF SyncProviderError
    <2> QED BY <1>4, <1>5, <2>1
<1>14. ASSUME NEW pc, sync[p].pc # "creds", SyncStep(p, [sync[p] EXCEPT !.pc = pc]), UNCHANGED conn
       PROVE  GoneInv'
    <2>1. [sync[p] EXCEPT !.pc = pc].item = sync[p].item
        BY <1>2 DEF SyncTask
    <2> QED BY <1>4, <1>14, <2>1
<1>15. CASE SyncUpsertAccount(p)
    BY <1>14, <1>15 DEF SyncUpsertAccount
<1>16. CASE SyncMapAccounts(p)
    <2> DEFINE acct == IF Mappable(p) THEN account[sync[p].item].id ELSE NoAcct
               task == [sync[p] EXCEPT !.pc = "fetch", !.acct = acct]
    <2>1. task.item = sync[p].item /\ sync[p].pc # "creds"
        BY <1>2, <1>16 DEF SyncTask, SyncMapAccounts
    <2>2. SyncStep(p, task) \/ SyncStep(p, NextConnection(p))
        BY <1>16 DEF SyncMapAccounts
    <2>3. \A i \in gone : conn'[i] = conn[i]
        BY <1>16 DEF SyncMapAccounts, tables
    <2> HIDE DEF task
    <2> QED BY <1>4, <1>5, <2>1, <2>2, <2>3
<1>17. CASE SyncFetchTransactions(p)
    <2>1. PICK B : SyncStep(p, [sync[p] EXCEPT !.pc = "store", !.batch = B])
        BY <1>17 DEF SyncFetchTransactions
    <2> DEFINE task == [sync[p] EXCEPT !.pc = "store", !.batch = B]
    <2>2. task.item = sync[p].item /\ sync[p].pc # "creds" /\ UNCHANGED conn
        BY <1>2, <1>17 DEF SyncTask, SyncFetchTransactions, tables
    <2> QED BY <1>4, <2>1, <2>2
<1>18. CASE SyncSave(p)
    <2>1. SyncStep(p, NextConnection(p)) /\ \A i \in gone : conn'[i] = conn[i]
        BY <1>6, <1>7, <1>18 DEF SyncSave
    <2> QED BY <1>4, <1>5, <2>1
<1>19. ASSUME NEW t \in Txn, SyncStoreTransaction(p, t) PROVE GoneInv'
    <2> DEFINE task == [sync[p] EXCEPT !.batch = @ \ {t}]
    <2>1. /\ task.item = sync[p].item /\ sync[p].pc # "creds" /\ UNCHANGED conn
          /\ SyncStep(p, task)
        BY <1>2, <1>19 DEF SyncTask, SyncStoreTransaction
    <2> HIDE DEF task
    <2> QED BY <1>4, <2>1
<1> QED BY <1>8, <1>9, <1>10, <1>11, <1>12, <1>13, <1>15, <1>16, <1>17, <1>18, <1>19
        DEF SyncNext

(***************************************************************************)
(* A link begins by taking its item out of the three histories; after that *)
(* it works on an item that is in none of them.                            *)
(***************************************************************************)
LEMMA GoneLink ==
    ASSUME GoneInv, NEW l \in Linker, LinkNext(l)
    PROVE  GoneInv'
<1>1. DataInv' /\ TypeInv
    BY DataLink DEF GoneInv, DataInv
<1>2. link \in [Linker -> LinkTask] /\ removed \subseteq Item /\ gone \subseteq Item
    BY <1>1 DEF TypeInv, TypeOK
<1>3. \A r \in alone : unlink[r].item \in Item
    BY <1>1 DEF GoneInv, AloneIsAlone, TypeInv, TypeOK, Busy
<1>4. ASSUME NEW i \in Item, NEW task, task.item = i, LinkStep(l, task), LinkBegins(i),
             UNCHANGED <<conn, cred, sync, unlink>>
      PROVE  GoneInv'
    <2>1. link'[l] = task /\ \A k \in Linker \ {l} : link'[k] = link[k]
        BY <1>2, <1>4 DEF LinkStep
    <2>2. AloneIsAlone'
        BY <1>4, <2>1 DEF GoneInv, AloneIsAlone, LinkBegins
    <2>3. RemovedIsLeftAlone'
        BY <1>4, <2>1 DEF GoneInv, RemovedIsLeftAlone, LinkBegins
    <2>4. GoneIsQuiet'
        BY <1>4 DEF GoneInv, GoneIsQuiet, LinkBegins, Linked, SyncInFlight
    <2> QED BY <1>1, <2>2, <2>3, <2>4 DEF GoneInv
<1>5. ASSUME NEW task, LinkStep(l, task), task.item \in {NoItem, link[l].item},
             UNCHANGED <<sync, unlink, alone, removed, gone>>,
             cred' \subseteq cred \cup {link[l].item},
             \A i \in gone : conn'[i] = conn[i]
      PROVE  GoneInv'
    <2>1. link'[l] = task /\ \A k \in Linker \ {l} : link'[k] = link[k]
        BY <1>2, <1>5 DEF LinkStep
    <2>2. AloneIsAlone'
        <3>1. ASSUME NEW r \in alone
              PROVE  /\ unlink[r].pc # "idle"
                     /\ \A k \in Linker : link'[k].item # unlink[r].item
                     /\ unlink[r].pc = "conn" => unlink[r].item \notin cred'
            BY <1>3, <1>5, <2>1, ConstantsAssumption DEF GoneInv, AloneIsAlone
        <3> QED BY <1>5, <3>1 DEF AloneIsAlone
    <2>3. RemovedIsLeftAlone'
        <3>1. ASSUME NEW i \in removed
              PROVE  i \notin cred' /\ \A k \in Linker : link'[k].item # i
            BY <1>2, <1>5, <2>1, ConstantsAssumption DEF GoneInv, RemovedIsLeftAlone
        <3> QED BY <1>5, <3>1 DEF RemovedIsLeftAlone
    <2>4. GoneIsQuiet'
        BY <1>5 DEF GoneInv, GoneIsQuiet, Linked, SyncInFlight
    <2> QED BY <1>1, <2>2, <2>3, <2>4 DEF GoneInv
<1>6. LinkIdle.item = NoItem /\ \A pc : [link[l] EXCEPT !.pc = pc].item = link[l].item
    BY <1>2 DEF LinkIdle, LinkTask
\* The item of a running link is not gone.
<1>7. link[l].pc # "idle" => link[l].item \in Item \ gone
    BY <1>1 DEF GoneInv, GoneIsQuiet, RemovedIsLeftAlone, TypeInv, Busy
<1>8. ASSUME NEW row, link[l].pc # "idle", conn' \in {conn, [conn EXCEPT ![link[l].item] = row]}
      PROVE  \A j \in gone : conn'[j] = conn[j]
    BY <1>1, <1>7, <1>8 DEF TypeInv, TypeOK
<1>9. ASSUME NEW i \in Item, NEW s \in Session, LinkNew(l, i, s) PROVE GoneInv'
    BY <1>4, <1>9 DEF LinkNew, tables
<1>10. ASSUME NEW i \in Item, NEW s \in Session, LinkAgain(l, i, s) PROVE GoneInv'
    BY <1>4, <1>10 DEF LinkAgain, tables
<1>11. CASE LinkStoreCredentials(l)
    BY <1>5, <1>6, <1>11 DEF LinkStoreCredentials
<1>12. CASE LinkCacheToken(l)
    BY <1>5, <1>6, <1>12 DEF LinkCacheToken, tables
<1>13. CASE LinkSaveConnection(l)
    <2>1. \A j \in gone : conn'[j] = conn[j]
        BY <1>8, <1>13 DEF LinkSaveConnection
    <2> QED BY <1>5, <1>6, <1>13, <2>1 DEF LinkSaveConnection
<1>14. CASE LinkUpsertAccount(l)
    BY <1>5, <1>6, <1>14 DEF LinkUpsertAccount
<1>15. CASE LinkSaveAgain(l)
    <2>1. \A j \in gone : conn'[j] = conn[j]
        BY <1>8, <1>15 DEF LinkSaveAgain
    <2> QED BY <1>5, <1>6, <1>15, <2>1 DEF LinkSaveAgain
<1>16. CASE LinkDropped(l)
    BY <1>5, <1>6, <1>16 DEF LinkDropped, tables
<1> QED BY <1>9, <1>10, <1>11, <1>12, <1>13, <1>14, <1>15, <1>16 DEF LinkNext

LEMMA GoneUnlink ==
    ASSUME GoneInv, NEW r \in Remover, UnlinkNext(r)
    PROVE  GoneInv'
<1>1. DataInv' /\ TypeInv
    BY DataUnlink DEF GoneInv, DataInv
<1>2. unlink \in [Remover -> UnlinkTask] /\ alone \subseteq Remover /\ conn \in [Item -> ConnRow \cup {NoRow}]
    BY <1>1 DEF TypeInv, TypeOK
\* A disconnect on its way keeps what it knows of its item.
<1>3. ASSUME NEW pc \in UnlinkPc \ {"idle"}, unlink[r].pc # "idle",
             UnlinkAdvance(r, pc), UNCHANGED <<conn, sync, link, alone, removed, gone>>,
             cred' \subseteq cred,
             pc = "conn" => unlink[r].item \notin cred'
      PROVE  GoneInv'
    <2>1. /\ unlink'[r].pc = pc /\ unlink'[r].item = unlink[r].item
          /\ \A q \in Remover \ {r} : unlink'[q] = unlink[q]
        BY <1>2, <1>3 DEF UnlinkAdvance, UnlinkStep, UnlinkTask
    <2>2. AloneIsAlone'
        BY <1>2, <1>3, <2>1 DEF GoneInv, AloneIsAlone
    <2>3. RemovedIsLeftAlone' /\ GoneIsQuiet'
        BY <1>3 DEF GoneInv, RemovedIsLeftAlone, GoneIsQuiet, Linked, SyncInFlight
    <2> QED BY <1>1, <2>2, <2>3 DEF GoneInv
<1>4. ASSUME NEW i \in Item, NEW s \in Session, UnlinkRequest(r, i, s) PROVE GoneInv'
    <2>1. /\ unlink'[r] = [pc |-> "caches", item |-> i, session |-> s]
          /\ \A q \in Remover \ {r} : unlink'[q] = unlink[q]
        BY <1>2, <1>4 DEF UnlinkRequest, UnlinkStep
    <2>2. r \notin alone
        BY <1>4 DEF UnlinkRequest, GoneInv, AloneIsAlone
    <2>3. AloneIsAlone'
        BY <1>2, <1>4, <2>1, <2>2 DEF UnlinkRequest, GoneInv, AloneIsAlone, tables
    <2>4. RemovedIsLeftAlone' /\ GoneIsQuiet'
        BY <1>4 DEF UnlinkRequest, tables, GoneInv, RemovedIsLeftAlone, GoneIsQuiet, Linked, SyncInFlight
    <2> QED BY <1>1, <2>3, <2>4 DEF GoneInv
<1>5. CASE UnlinkCaches(r)
    BY <1>3, <1>5 DEF UnlinkCaches, UnlinkPc, tables
<1>6. CASE UnlinkTransactions(r)
    BY <1>3, <1>6 DEF UnlinkTransactions, UnlinkPc
<1>7. CASE UnlinkAccounts(r)
    BY <1>3, <1>7 DEF UnlinkAccounts, UnlinkPc
<1>8. CASE UnlinkCredentials(r)
    BY <1>3, <1>8 DEF UnlinkCredentials, UnlinkPc
\* The end: what the disconnect knows of its item becomes what removed and gone say.
<1>9. CASE UnlinkConnection(r)
    <2> DEFINE i == unlink[r].item
    <2>1. i \in Item /\ unlink[r].pc = "conn"
        BY <1>1, <1>9 DEF UnlinkConnection, TypeInv, Busy
    <2>2. UNCHANGED <<cred, sync, link>> /\ alone' = alone \ {r}
          /\ \A q \in Remover \ {r} : unlink'[q] = unlink[q]
        BY <1>2, <1>9 DEF UnlinkConnection, UnlinkStep
    <2>3. conn'[i] = NoRow /\ \A j \in Item \ {i} : conn'[j] = conn[j]
        BY <1>2, <1>9, <2>1 DEF UnlinkConnection
    <2>4. r \in alone => i \notin cred /\ \A l \in Linker : link[l].item # i
        BY <2>1 DEF GoneInv, AloneIsAlone
    <2>5. /\ removed' = IF r \in alone THEN removed \cup {i} ELSE removed
          /\ gone' = IF r \in alone /\ ~SyncInFlight(i) THEN gone \cup {i} ELSE gone
        BY <1>9 DEF UnlinkConnection
    <2>6. gone \subseteq Item
        BY <1>1 DEF TypeInv, TypeOK
    <2>7. AloneIsAlone'
        BY <1>2, <2>2 DEF GoneInv, AloneIsAlone
    <2> HIDE DEF i
    <2>8. RemovedIsLeftAlone'
        BY <2>2, <2>4, <2>5 DEF GoneInv, RemovedIsLeftAlone
    <2>9. GoneIsQuiet'
        BY <2>2, <2>3, <2>5, <2>6 DEF GoneInv, GoneIsQuiet, Linked, SyncInFlight
    <2> QED BY <1>1, <2>7, <2>8, <2>9 DEF GoneInv
<1>10. CASE UnlinkFail(r)
    <2>1. UNCHANGED <<conn, cred, sync, link, removed, gone>> /\ alone' = alone \ {r}
          /\ \A q \in Remover \ {r} : unlink'[q] = unlink[q]
        BY <1>2, <1>10 DEF UnlinkFail, UnlinkStep, tables
    <2>2. AloneIsAlone'
        BY <1>2, <2>1 DEF GoneInv, AloneIsAlone
    <2>3. RemovedIsLeftAlone' /\ GoneIsQuiet'
        BY <2>1 DEF GoneInv, RemovedIsLeftAlone, GoneIsQuiet, Linked, SyncInFlight
    <2> QED BY <1>1, <2>2, <2>3 DEF GoneInv
<1> QED BY <1>4, <1>5, <1>6, <1>7, <1>8, <1>9, <1>10 DEF UnlinkNext

LEMMA GoneNext == GoneInv /\ [Next]_vars => GoneInv'
<1> SUFFICES ASSUME GoneInv, [Next]_vars PROVE GoneInv'
    OBVIOUS
<1>1. DataInv'
    BY DataNext DEF GoneInv
<1>2. CASE UNCHANGED <<conn, cred, sync, link, unlink, alone, removed, gone>>
    BY <1>1, <1>2 DEF GoneInv, AloneIsAlone, RemovedIsLeftAlone, GoneIsQuiet, Linked, SyncInFlight
<1>3. ASSUME NEW t \in Txn, BankPosts(t) PROVE GoneInv'
    BY <1>2, <1>3 DEF BankPosts, tables
<1>4. CASE NextDay
    BY <1>2, <1>4 DEF NextDay, tables
<1>5. ASSUME NEW s \in Session, NEW i \in Item, TokenExpires(s, i) PROVE GoneInv'
    BY <1>2, <1>5 DEF TokenExpires, tables
<1>6. CASE UNCHANGED vars
    BY <1>2, <1>6 DEF vars, tables
<1> QED BY <1>3, <1>4, <1>5, <1>6, GoneSync, GoneLink, GoneUnlink DEF Next

LEMMA GoneInvHolds == Spec => []GoneInv
  BY InitGone, GoneNext, PTL DEF Spec

(***************************************************************************)
(* An item disconnected while no sync of it was past its credentials and   *)
(* no link of it was running stays away: any number of syncs that listed   *)
(* it before bring nothing back until it is linked again.                  *)
(***************************************************************************)
THEOREM DisconnectIsFinal == Spec => []GoneStaysGone
  BY GoneInvHolds, GoneInvIsStrongEnough, PTL

(***************************************************************************)
(* After a disconnect that no link overlapped the item's credentials stay  *)
(* deleted until it is linked again, even if a sync in flight writes the   *)
(* connection row back.                                                    *)
(***************************************************************************)
THEOREM CredentialsGoWithTheConnection == Spec => []DisconnectDeletesCredentials
  BY GoneInvHolds, GoneInvIsStrongEnough, PTL
=============================================================================
