-------------------------- MODULE TransactionDedup --------------------------
(***************************************************************************)
(* Duplicate transactions of one account: the merge and the resolution of  *)
(* pending rows that end a sync, the reviews of the user, and the          *)
(* categories he gives.                                                    *)
(*                                                                         *)
(* All rows have the same account, user and amount, and the amount is not  *)
(* zero: rows that differ in these never meet.  A merchant key is an       *)
(* interval of the letters of one text, so that "is a part of" is          *)
(* inclusion.  A statement of PostgreSQL reads one snapshot and writes     *)
(* afterwards; other transactions commit in between.                       *)
(***************************************************************************)
EXTENDS Integers

CONSTANTS
    Txn,           \* provider transaction ids
    Day,           \* dates
    Key,           \* merchant keys: <<first letter, last letter>>
    TextLength,    \* the last letter of that text
    Brand,         \* the keys 'verizon' and 'amazon'
    PrefixLength,  \* how many leading letters are enough (6)
    MatchDays,     \* how far apart a pending and a posted row may be (7)
    Report,        \* Report[t]: what the bank may say of t
    MaxClock,      \* bound on the clock of created_at
    Syncer,        \* syncs of the connection in progress
    Reviewer,      \* reviews in progress
    Categorised,   \* bound: the transactions the user gives a category to
    NoRow, NoTxn

Said == [date : Day, key : Key, pending : BOOLEAN]
Clock == 0..MaxClock
Row == [date : Day, key : Key, pending : BOOLEAN, created : Clock,
        dup : Txn \cup {NoTxn}]        \* duplicate_of_transaction_id

ASSUME DedupAssumption ==
    /\ Day \subseteq Nat /\ Key \subseteq Nat \X Nat /\ Brand \subseteq Key
    /\ \A k \in Key : k[1] <= k[2] + 1 /\ k[2] <= TextLength
    /\ TextLength \in Nat /\ PrefixLength \in Nat /\ MatchDays \in Nat /\ MaxClock \in Nat
    /\ Report \in [Txn -> SUBSET Said]
    /\ NoTxn \notin Txn /\ NoRow \notin Row

VARIABLES
    row,       \* the table transactions
    override,  \* the rows with a row of transaction_category_overrides
    clock,
    sync, review,
    into,      \* history: the row each deleted row was merged into
    crossed,   \* history: rows replaced by a row that was gone or hidden by then
    chosen     \* history: rows with a category the user gave, which nothing took back or
               \* left behind: one given after the plan was read does not move with the row

vars == <<row, override, clock, sync, review, into, crossed, chosen>>

Fetched == [txn : Txn, date : Day, key : Key, pending : BOOLEAN, created : Clock]
Ref == Txn \X Clock                    \* the id of a row, which dies with it
\* What a statement read: who is to give way to whom, whose categories move, and
\* which pairs nothing decides.
Plan == [pairs : SUBSET (Ref \X Ref), moved : SUBSET Txn, tied : SUBSET (Ref \X Ref)]

NoPlan == [pairs |-> {}, moved |-> {}, tied |-> {}]
Idle == [pc |-> "idle", batch |-> {}, plan |-> NoPlan]

Init ==
    /\ row = [t \in Txn |-> NoRow]
    /\ override = {} /\ clock = 0
    /\ sync = [s \in Syncer |-> Idle]
    /\ review = [r \in Reviewer |-> NoPlan]
    /\ crossed = {} /\ chosen = {}
    /\ into = [t \in Txn |-> NoTxn]

-----------------------------------------------------------------------------
(***************************************************************************)
(* Merchant keys.                                                          *)
(***************************************************************************)
Length(k) == k[2] - k[1] + 1
\* POSITION(k IN l) > 0
Within(k, l) == Length(k) = 0 \/ (l[1] <= k[1] /\ k[2] <= l[2])
Prefix(k) == <<k[1], k[1] + PrefixLength - 1>>

\* Keys that the merge and the review take for the same merchant.
Similar(k, l) ==
    /\ Length(k) > 0 /\ Length(l) > 0
    /\ Within(k, l) \/ Within(l, k)

\* Keys that the resolution of pending rows takes for the same merchant.
SimilarPending(k, l) ==
    \/ Within(k, l) \/ Within(l, k)
    \/ /\ Length(k) >= PrefixLength /\ Length(l) >= PrefixLength
       /\ Within(Prefix(k), l) \/ Within(Prefix(l), k)
    \/ \E b \in Brand : Within(b, k) /\ Within(b, l)

-----------------------------------------------------------------------------
(***************************************************************************)
(* Rows.                                                                   *)
(***************************************************************************)
Stored == {t \in Txn : row[t] # NoRow}
Shown(t) == t \in Stored /\ row[t].dup = NoTxn
ref(t) == <<t, row[t].created>>
Exists(x) == x[1] \in Stored /\ row[x[1]].created = x[2]
Apart(t, u) == LET d == row[t].date - row[u].date IN IF d < 0 THEN -d ELSE d

\* The category the user sees as his own: of the row, or of a row it stands for.
Custom(t) == t \in override \/ \E u \in Stored : row[u].dup = t /\ u \in override

\* The row that stands for t, and all that do, one after the other.
Follow(t) ==
    IF t \in Stored THEN IF row[t].dup = NoTxn THEN t ELSE row[t].dup
    ELSE IF into[t] = NoTxn THEN t ELSE into[t]
Chain(t) ==
    {u \in Txn : \A C \in SUBSET Txn : t \in C /\ (\A v \in C : Follow(v) \in C) => u \in C}
Merged == {t \in Txn : into[t] # NoTxn}
Behind(t) == {u \in Txn : t \in Chain(u)}

-----------------------------------------------------------------------------
(***************************************************************************)
(* The end of a sync.  Its statements fail without consequence but a       *)
(* warning; a sync that is dropped is one whose remaining statements fail. *)
(***************************************************************************)
\* from_teller, from_plaid
Mapped(found, said, made) ==
    {[txn |-> t, date |-> said[t].date, key |-> said[t].key,
      pending |-> said[t].pending, created |-> made[t]] : t \in found}

\* The bank answers with any of its transactions, or none: those outside the window,
\* and those whose upsert will fail, are left out here.  What it has posted stays so.
\* Rows are made one after the other, but may get the same microsecond.
SyncFetch(s) ==
    /\ sync[s].pc = "idle"
    /\ \E found \in SUBSET Txn, now \in {clock, clock + 1, clock + 2} \cap Clock :
       \E said \in [found -> UNION {Report[t] : t \in Txn}], made \in [found -> (clock + 1)..now] :
        /\ now = clock <=> found = {}
        /\ \A t \in found : said[t] \in Report[t]
        /\ \A t \in found \cap Stored : said[t].pending => row[t].pending
        /\ clock' = now
        /\ sync' = [sync EXCEPT ![s] = [pc |-> "store", plan |-> NoPlan,
                                       batch |-> Mapped(found, said, made)]]
    /\ UNCHANGED <<row, override, review, into, crossed, chosen>>

\* upsert_transaction: a row that is there keeps its date and created_at.
UpsertTransaction(b) ==
    row' = [row EXCEPT ![b.txn] =
        IF b.txn \in Stored
        THEN [@ EXCEPT !.key = b.key, !.pending = b.pending]
        ELSE [date |-> b.date, key |-> b.key, pending |-> b.pending,
              created |-> b.created, dup |-> NoTxn]]

SyncStore(s) ==
    /\ \E b \in sync[s].batch :
        /\ UpsertTransaction(b)
        /\ crossed' = IF b.txn \in Stored THEN crossed ELSE crossed \ {b.txn}
        /\ sync' = [sync EXCEPT ![s].batch = @ \ {b}]
    /\ UNCHANGED <<override, clock, review, into, chosen>>

SyncGoto(s, pc, plan) == sync' = [sync EXCEPT ![s] = [pc |-> pc, batch |-> {}, plan |-> plan]]

-----------------------------------------------------------------------------
(***************************************************************************)
(* merge_duplicate_provider_transactions.                                  *)
(***************************************************************************)
\* Mutant: names of one length give way to each other.
YieldsAtAnyAge(t, u) == Length(row[t].key) <= Length(row[u].key)

\* The longer name stays; of equal ones, the newer row.
Yields(t, u) ==
    \/ Length(row[t].key) < Length(row[u].key)
    \/ /\ Length(row[t].key) = Length(row[u].key)
       /\ row[t].created <= row[u].created

\* Rows equal in all that decides, so that each gives way to the other.
Tied(t, u) == /\ Length(row[t].key) = Length(row[u].key)
              /\ row[t].created = row[u].created

\* duplicate_pairs, of rows shown and hidden alike.
DuplicatePairs ==
    {p \in Stored \X Stored :
        /\ p[1] # p[2] /\ row[p[1]].date = row[p[2]].date
        /\ Similar(row[p[1]].key, row[p[2]].key)
        /\ Yields(p[1], p[2])}

\* The categories that moved_overrides finds: those of rows that give way.
Moved(pairs) == {p[1] : p \in pairs} \cap override

Refs(pairs) == {<<ref(p[1]), ref(p[2])>> : p \in pairs}
PlanOf(pairs) == [pairs |-> Refs(pairs), moved |-> Moved(pairs),
                  tied |-> Refs({p \in pairs : Tied(p[1], p[2])})]

\* Mutant: categories are left behind.
ReceivingNone(pairs, moved) == {}

\* The rows that get the category of another one.
Receiving(pairs, moved) == {p[2] : p \in {q \in pairs : q[1][1] \in moved}}

SyncMergeRead(s) ==
    /\ sync[s].pc = "store" /\ sync[s].batch = {}
    /\ SyncGoto(s, "merge", PlanOf(DuplicatePairs))
    /\ UNCHANGED <<row, override, clock, review, into, crossed, chosen>>

\* Rows that refer to a deleted one are released (ON DELETE SET NULL).
Without(gone) ==
    [t \in Txn |-> IF t \in gone THEN NoRow
                   ELSE IF t \in Stored /\ row[t].dup \in gone
                        THEN [row[t] EXCEPT !.dup = NoTxn] ELSE row[t]]

SyncMergeWrite(s) ==
    LET plan == sync[s].plan
        live == {p \in plan.pairs : Exists(p[1])}
        gone == {p[1][1] : p \in live}
        heirs(t) == {p[2] : p \in {q \in live : q[1][1] = t}}
        good(t) == {x \in heirs(t) : Exists(x) /\ <<ref(t), x>> \notin plan.tied}
        heir(t) == (CHOOSE x \in heirs(t) : good(t) # {} => x \in good(t))[1]
        receiving == Receiving(plan.pairs, plan.moved)
    IN
    /\ sync[s].pc = "merge"
    /\ \A x \in receiving : Exists(x)       \* the foreign key of the overrides
    /\ row' = Without(gone)
    /\ override' = (override \cup {x[1] : x \in receiving}) \ gone
    /\ into' = [t \in Txn |-> IF t \in gone THEN heir(t) ELSE into[t]]
    /\ crossed' = (crossed \ gone) \cup {t \in gone : good(t) = {}}
    /\ chosen' = (chosen \ gone) \cup
         {u \in Txn \ gone : Shown(u) /\ \E t \in gone \cap chosen \cap plan.moved :
                                            \E x \in heirs(t) : x[1] = u}
    /\ SyncGoto(s, "merged", NoPlan)
    /\ UNCHANGED <<clock, review>>

SyncMergeFails(s) ==
    /\ sync[s].pc = "merge"
    /\ SyncGoto(s, "merged", NoPlan)
    /\ UNCHANGED <<row, override, clock, review, into, crossed, chosen>>

-----------------------------------------------------------------------------
(***************************************************************************)
(* auto_resolve_pending_duplicates and mark_transaction_duplicate.         *)
(***************************************************************************)
PostedMatches(p) ==
    {q \in Txn : /\ Shown(q) /\ ~row[q].pending /\ Apart(q, p) <= MatchDays
                 /\ SimilarPending(row[p].key, row[q].key)}

\* DISTINCT ON: the nearest in time, the earlier of two.
NearestPosted(p) ==
    {q \in PostedMatches(p) : \A o \in PostedMatches(p) :
        \/ Apart(q, p) < Apart(o, p)
        \/ Apart(q, p) = Apart(o, p) /\ row[q].date <= row[o].date}

SyncResolveRead(s) ==
    LET pending == {p \in Txn : Shown(p) /\ row[p].pending /\ PostedMatches(p) # {}} IN
    /\ sync[s].pc = "merged"
    /\ \E match \in [pending -> Txn] :
        /\ \A p \in pending : match[p] \in NearestPosted(p)
        /\ SyncGoto(s, "resolve", PlanOf({<<p, match[p]>> : p \in pending}))
    /\ UNCHANGED <<row, override, clock, review, into, crossed, chosen>>

\* The rows of a plan that are still there are hidden, and their categories go to
\* rows that have none; the foreign key refuses a row that is gone.
Hide(plan) ==
    LET live == {p \in plan.pairs : Exists(p[1])}
        hidden == {p[1][1] : p \in live}
        canonical(t) == (CHOOSE p \in live : p[1][1] = t)[2][1]
        unmoved == (hidden \cap override) \ plan.moved
    IN
    /\ \A p \in live : Exists(p[2])
    /\ row' = [t \in Txn |->
                 IF t \in hidden THEN [row[t] EXCEPT !.dup = canonical(t)] ELSE row[t]]
    /\ override' = override \cup {x[1] : x \in Receiving(live, plan.moved)}
    /\ crossed' = (crossed \ hidden) \cup {t \in hidden : ~Shown(canonical(t))}
    /\ chosen' = chosen \ UNION {Behind(t) : t \in unmoved}

SyncResolveWrite(s) ==
    /\ sync[s].pc = "resolve"
    /\ Hide(sync[s].plan)
    /\ SyncGoto(s, "idle", NoPlan)
    /\ UNCHANGED <<clock, review, into>>

SyncResolveFails(s) ==
    /\ sync[s].pc = "resolve"
    /\ SyncGoto(s, "idle", NoPlan)
    /\ UNCHANGED <<row, override, clock, review, into, crossed, chosen>>

\* Mutant: a row is a candidate to stand for itself.
CandidatesWithItself(t) ==
    {c \in Txn : Shown(c) /\ Apart(c, t) <= MatchDays /\ (row[t].pending \/ ~row[c].pending)}

Candidates(t) ==
    {c \in Txn : /\ Shown(c) /\ c # t /\ Apart(c, t) <= MatchDays
                 /\ row[t].pending \/ ~row[c].pending}

\* The order of the candidates; ids decide what is left.
Before(t, c, d) ==
    LET like(x) == Similar(row[t].key, row[x].key) IN
    \/ like(c) /\ ~like(d)
    \/ /\ like(c) = like(d)
       /\ \/ ~row[c].pending /\ row[d].pending
          \/ row[c].pending = row[d].pending /\ row[c].created < row[d].created

MarkRead(r, t) ==
    /\ review[r] = NoPlan
    /\ Shown(t)
    /\ \E c \in Candidates(t) :
        /\ \A d \in Candidates(t) : ~Before(t, d, c)
        /\ review' = [review EXCEPT ![r] = PlanOf({<<t, c>>})]
    /\ UNCHANGED <<row, override, clock, sync, into, crossed, chosen>>

MarkWrite(r) ==
    /\ review[r] # NoPlan
    /\ Hide(review[r])
    /\ review' = [review EXCEPT ![r] = NoPlan]
    /\ UNCHANGED <<clock, sync, into>>

MarkFails(r) ==
    /\ review[r] # NoPlan
    /\ review' = [review EXCEPT ![r] = NoPlan]
    /\ UNCHANGED <<row, override, clock, sync, into, crossed, chosen>>

-----------------------------------------------------------------------------
(***************************************************************************)
(* The categories a user gives and takes back.                             *)
(***************************************************************************)
SetCategory(t) ==
    /\ t \in Stored \cap Categorised
    /\ override' = override \cup {t}
    /\ chosen' = IF Shown(t) THEN chosen \cup {t} ELSE chosen
    /\ UNCHANGED <<row, clock, sync, review, into, crossed>>

RemoveCategory(t) ==
    /\ t \in Stored
    /\ override' = override \ {t}
    /\ chosen' = chosen \ Behind(t)
    /\ UNCHANGED <<row, clock, sync, review, into, crossed>>

-----------------------------------------------------------------------------
Next ==
    \/ \E t \in Txn : SetCategory(t) \/ RemoveCategory(t)
    \/ \E s \in Syncer :
        \/ SyncFetch(s) \/ SyncStore(s)
        \/ SyncMergeRead(s) \/ SyncMergeWrite(s) \/ SyncMergeFails(s)
        \/ SyncResolveRead(s) \/ SyncResolveWrite(s) \/ SyncResolveFails(s)
    \/ \E r \in Reviewer :
        \/ \E t \in Txn : MarkRead(r, t)
        \/ MarkWrite(r) \/ MarkFails(r)

Spec == Init /\ [][Next]_vars

-----------------------------------------------------------------------------
(***************************************************************************)
(* Every variable has its type, a hidden row names another row, and that   *)
(* row is there.                                                           *)
(***************************************************************************)
TypeOK ==
    /\ row \in [Txn -> Row \cup {NoRow}]
    /\ \A t \in Stored : row[t].dup # NoTxn => row[t].dup \in Stored \ {t}
    /\ override \subseteq Stored
    /\ clock \in Clock
    /\ sync \in [Syncer -> [pc : {"idle", "store", "merge", "merged", "resolve"},
                            batch : SUBSET Fetched, plan : Plan]]
    /\ review \in [Reviewer -> Plan]
    /\ crossed \subseteq Txn /\ chosen \subseteq Txn
    /\ into \in [Txn -> Txn \cup {NoTxn}]

(***************************************************************************)
(* A transaction that was stored is shown, or a row that stands for it is, *)
(* however merges, resolutions and reviews follow each other.  The only    *)
(* way to lose it is to be replaced by a row that had been hidden or       *)
(* deleted since it was read, or by one stored in the same microsecond     *)
(* under a name as long.                                                   *)
(***************************************************************************)
NothingVanishes ==
    \A t \in Stored \cup Merged : \E u \in Chain(t) : Shown(u) \/ u \in crossed

(***************************************************************************)
(* A category the user gave is shown on the row that stands for the        *)
(* transaction, until he takes it back there, or gives it between the      *)
(* reading and the writing of the step that hides or deletes its row.  It  *)
(* may be lost too where a transaction may: behind a row replaced by one   *)
(* that had been hidden or deleted since it was read.                      *)
(***************************************************************************)
CategoryShown ==
    \A t \in chosen : \A u \in Chain(t) : Shown(u) => Custom(u) \/ Chain(t) \cap crossed # {}

(***************************************************************************)
(* main.rs on the DELETE of a category: it restores the category of the    *)
(* provider.                                                               *)
(***************************************************************************)
RemoveRestoresProviderCategory ==
    [][\A t \in Txn : RemoveCategory(t) => ~Custom(t)']_vars
=============================================================================
