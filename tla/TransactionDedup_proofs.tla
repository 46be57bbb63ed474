----------------------- MODULE TransactionDedup_proofs ----------------------
(***************************************************************************)
(* Proofs about TransactionDedup, for any transactions, names, dates,      *)
(* syncs and reviews.                                                      *)
(***************************************************************************)
EXTENDS TransactionDedup, NaturalsInduction, WellFoundedInduction, TLAPS

\* The rows a plan names are two.
Proper(plan) == plan \in Plan /\ \A p \in plan.pairs : p[1][1] # p[2][1]

PlansOK ==
    /\ \A s \in Syncer : Proper(sync[s].plan)
    /\ \A r \in Reviewer : Proper(review[r])

Inv == TypeOK /\ PlansOK

USE DedupAssumption

-----------------------------------------------------------------------------
LEMMA NoPlanIsProper == Proper(NoPlan)
  BY DEF Proper, NoPlan, Plan

LEMMA InitInv == Init => Inv
  <1> SUFFICES ASSUME Init PROVE Inv
    OBVIOUS
  <1>1. Idle \in [pc : {"idle", "store", "merge", "merged", "resolve"},
                  batch : SUBSET Fetched, plan : Plan]
    BY DEF Idle, NoPlan, Plan
  <1>2. TypeOK
    BY <1>1, NoPlanIsProper DEF Init, TypeOK, Stored, Clock, Proper
  <1>3. PlansOK
    BY NoPlanIsProper DEF Init, PlansOK, Idle
  <1> QED BY <1>2, <1>3 DEF Inv

\* A statement that reads pairs of two rows each has a proper plan.
LEMMA PlanOfIsProper ==
    ASSUME TypeOK, NEW pairs,
           \A p \in pairs : p \in Stored \X Stored /\ p[1] # p[2]
    PROVE  Proper(PlanOf(pairs))
  <1>1. \A t \in Stored : ref(t) \in Ref /\ ref(t)[1] = t
    BY DEF TypeOK, Stored, ref, Ref, Row
  <1>2. \A ps \in SUBSET pairs : Refs(ps) \subseteq Ref \X Ref
    BY <1>1 DEF Refs
  <1>3. PlanOf(pairs).moved \subseteq Txn
    BY DEF PlanOf, Moved, TypeOK, Stored
  <1>4. PlanOf(pairs) \in Plan
    BY <1>2, <1>3 DEF PlanOf, Plan
  <1>5. \A p \in PlanOf(pairs).pairs : p[1][1] # p[2][1]
    BY <1>1 DEF PlanOf, Refs
  <1> QED BY <1>4, <1>5 DEF Proper

\* A sync that goes on to a statement with a proper plan.
LEMMA GotoKeepsTypes ==
    ASSUME Inv, NEW s \in Syncer, NEW plan, Proper(plan),
           NEW pc \in {"idle", "store", "merge", "merged", "resolve"},
           SyncGoto(s, pc, plan)
    PROVE  /\ sync' \in [Syncer -> [pc : {"idle", "store", "merge", "merged", "resolve"},
                                    batch : SUBSET Fetched, plan : Plan]]
           /\ \A x \in Syncer : Proper(sync'[x].plan)
  BY DEF Inv, TypeOK, PlansOK, SyncGoto, Proper

\* Steps that leave the table alone keep what is said of it.
LEMMA TableUnchanged ==
    ASSUME TypeOK, UNCHANGED <<row, override>>
    PROVE  /\ row' \in [Txn -> Row \cup {NoRow}]
           /\ \A t \in Stored' : row'[t].dup # NoTxn => row'[t].dup \in Stored' \ {t}
           /\ override' \subseteq Stored'
  BY DEF TypeOK, Stored

-----------------------------------------------------------------------------
LEMMA FetchStep == ASSUME Inv, NEW s \in Syncer, SyncFetch(s) PROVE Inv'
  <1>a. PICK found \in SUBSET Txn, now \in {clock, clock + 1, clock + 2} \cap Clock :
          \E said \in [found -> UNION {Report[t] : t \in Txn}], made \in [found -> (clock + 1)..now] :
            /\ \A t \in found : said[t] \in Report[t]
            /\ clock' = now
            /\ sync' = [sync EXCEPT ![s] = [pc |-> "store", plan |-> NoPlan,
                                           batch |-> Mapped(found, said, made)]]
    BY DEF SyncFetch
  <1>1. PICK said \in [found -> UNION {Report[t] : t \in Txn}], made \in [found -> (clock + 1)..now] :
            /\ \A t \in found : said[t] \in Report[t]
            /\ clock' = now
            /\ sync' = [sync EXCEPT ![s] = [pc |-> "store", plan |-> NoPlan,
                                           batch |-> Mapped(found, said, made)]]
    BY <1>a
  <1>2. \A t \in found : said[t] \in Said /\ made[t] \in Clock
    BY <1>1 DEF Inv, TypeOK, Clock
  <1>3. Mapped(found, said, made) \subseteq Fetched
    BY <1>2 DEF Said, Fetched, Mapped
  <1>4. TypeOK'
    BY <1>1, <1>3, NoPlanIsProper, TableUnchanged DEF Inv, TypeOK, SyncFetch, Proper
  <1>5. PlansOK'
    BY <1>1, NoPlanIsProper DEF Inv, TypeOK, PlansOK, SyncFetch
  <1> QED BY <1>4, <1>5 DEF Inv

LEMMA StoreStep == ASSUME Inv, NEW s \in Syncer, SyncStore(s) PROVE Inv'
  <1>1. PICK b \in sync[s].batch :
          UpsertTransaction(b) /\ sync' = [sync EXCEPT ![s].batch = @ \ {b}]
    BY DEF SyncStore
  <1>2. b \in Fetched
    BY DEF Inv, TypeOK
  <1>3. b.txn \in Txn
    BY <1>2 DEF Fetched
  <1> DEFINE new == IF b.txn \in Stored
                    THEN [row[b.txn] EXCEPT !.key = b.key, !.pending = b.pending]
                    ELSE [date |-> b.date, key |-> b.key, pending |-> b.pending,
                          created |-> b.created, dup |-> NoTxn]
  <1>4. new \in Row /\ (b.txn \in Stored => new.dup = row[b.txn].dup)
                    /\ (b.txn \notin Stored => new.dup = NoTxn)
    <2>1. CASE b.txn \in Stored
      <3>1. row[b.txn] \in Row
        BY <1>3, <2>1 DEF Inv, TypeOK, Stored
      <3> QED BY <1>2, <2>1, <3>1 DEF Row, Fetched
    <2>2. CASE b.txn \notin Stored
      BY <1>2, <2>2 DEF Row, Fetched
    <2> QED BY <2>1, <2>2
  <1>5. row' = [row EXCEPT ![b.txn] = new]
    BY <1>1 DEF UpsertTransaction
  <1> HIDE DEF new
  <1>6. row' \in [Txn -> Row \cup {NoRow}] /\ Stored' = Stored \cup {b.txn}
    BY <1>3, <1>4, <1>5 DEF Inv, TypeOK, Stored
  <1>7. \A t \in Stored' : row'[t].dup # NoTxn => row'[t].dup \in Stored' \ {t}
    BY <1>3, <1>4, <1>5, <1>6 DEF Inv, TypeOK
  <1>8. TypeOK'
    <2>1. override' \subseteq Stored'
      BY <1>6 DEF Inv, TypeOK, SyncStore
    <2>2. sync' \in [Syncer -> [pc : {"idle", "store", "merge", "merged", "resolve"},
                                batch : SUBSET Fetched, plan : Plan]]
      BY <1>1 DEF Inv, TypeOK
    <2> QED BY <1>3, <1>6, <1>7, <2>1, <2>2 DEF Inv, TypeOK, SyncStore
  <1>9. PlansOK'
    BY <1>1 DEF Inv, TypeOK, PlansOK, SyncStore
  <1> QED BY <1>8, <1>9 DEF Inv

LEMMA MergeReadStep == ASSUME Inv, NEW s \in Syncer, SyncMergeRead(s) PROVE Inv'
  <1>1. Proper(PlanOf(DuplicatePairs))
    BY PlanOfIsProper DEF Inv, DuplicatePairs
  <1>2. SyncGoto(s, "merge", PlanOf(DuplicatePairs))
    BY DEF SyncMergeRead
  <1>3. /\ sync' \in [Syncer -> [pc : {"idle", "store", "merge", "merged", "resolve"},
                                 batch : SUBSET Fetched, plan : Plan]]
        /\ \A x \in Syncer : Proper(sync'[x].plan)
    BY <1>1, <1>2, GotoKeepsTypes
  <1>4. TypeOK'
    BY <1>3, TableUnchanged DEF Inv, TypeOK, SyncMergeRead
  <1>5. PlansOK'
    BY <1>3 DEF Inv, PlansOK, SyncMergeRead
  <1> QED BY <1>4, <1>5 DEF Inv

LEMMA MergeWriteStep == ASSUME Inv, NEW s \in Syncer, SyncMergeWrite(s) PROVE Inv'
  <1> DEFINE plan == sync[s].plan
             live == {p \in plan.pairs : Exists(p[1])}
             gone == {p[1][1] : p \in live}
             heirs(t) == {p[2] : p \in {q \in live : q[1][1] = t}}
             good(t) == {x \in heirs(t) : Exists(x) /\ <<ref(t), x>> \notin plan.tied}
             heir(t) == (CHOOSE x \in heirs(t) : good(t) # {} => x \in good(t))[1]
             receiving == Receiving(plan.pairs, plan.moved)
  <1>1. /\ \A x \in receiving : Exists(x)
        /\ row' = Without(gone)
        /\ override' = (override \cup {x[1] : x \in receiving}) \ gone
        /\ into' = [t \in Txn |-> IF t \in gone THEN heir(t) ELSE into[t]]
        /\ crossed' \subseteq crossed \cup gone
        /\ chosen' \subseteq chosen \cup Txn
        /\ SyncGoto(s, "merged", NoPlan)
        /\ UNCHANGED <<clock, review>>
    BY DEF SyncMergeWrite
  <1>2. plan \in Plan
    BY DEF Inv, PlansOK, Proper
  <1>3. gone \subseteq Stored
    BY DEF Exists
  <1>4. \A t \in gone : heirs(t) # {} /\ heirs(t) \subseteq Ref
    BY <1>2 DEF Plan
  <1>5. \A t \in gone : heir(t) \in Txn
    <2> TAKE t \in gone
    <2>1. \E x \in heirs(t) : good(t) # {} => x \in good(t)
      BY <1>4
    <2>2. (CHOOSE x \in heirs(t) : good(t) # {} => x \in good(t)) \in heirs(t)
      BY <2>1
    <2> QED BY <1>4, <2>2 DEF Ref
  <1> HIDE DEF heirs, good, heir
  <1>6. into' \in [Txn -> Txn \cup {NoTxn}]
    BY <1>1, <1>5 DEF Inv, TypeOK
  <1> HIDE DEF gone
  <1>7. /\ row' \in [Txn -> Row \cup {NoRow}]
        /\ Stored' = Stored \ gone
        /\ \A t \in Stored' : \/ row'[t].dup = row[t].dup /\ row[t].dup \notin gone
                              \/ row'[t].dup = NoTxn
    <2>1. \A t \in Txn : row'[t] =
             IF t \in gone THEN NoRow
             ELSE IF t \in Stored /\ row[t].dup \in gone
                  THEN [row[t] EXCEPT !.dup = NoTxn] ELSE row[t]
      BY <1>1 DEF Without
    <2>2. \A t \in Stored : row[t] \in Row /\ row[t] # NoRow
                            /\ [row[t] EXCEPT !.dup = NoTxn] \in Row
                            /\ [row[t] EXCEPT !.dup = NoTxn].dup = NoTxn
      <3>1. \A t \in Stored : row[t] \in Row
        BY DEF Inv, TypeOK, Stored
      <3>2. \A x \in Row : [x EXCEPT !.dup = NoTxn] \in Row /\ [x EXCEPT !.dup = NoTxn].dup = NoTxn
        BY DEF Row
      <3> QED BY <3>1, <3>2 DEF Stored
    <2>3. Row \cap {NoRow} = {}
      OBVIOUS
    <2>4. \A t \in Txn : row'[t] \in Row \cup {NoRow} /\ (row'[t] # NoRow <=> t \in Stored \ gone)
      BY <2>1, <2>2, <2>3 DEF Stored
    <2>5. row' \in [Txn -> Row \cup {NoRow}]
      <3>1. row' = [t \in Txn |-> row'[t]]
        BY <1>1 DEF Without
      <3> QED BY <2>4, <3>1
    <2>6. Stored' = Stored \ gone
      BY <2>4 DEF Stored
    <2>7. \A t \in Stored \ gone : \/ row'[t].dup = row[t].dup /\ row[t].dup \notin gone
                                   \/ row'[t].dup = NoTxn
      BY <2>1, <2>2 DEF Stored
    <2> QED BY <2>5, <2>6, <2>7
  <1>8. \A t \in Stored' : row'[t].dup # NoTxn => row'[t].dup \in Stored' \ {t}
    BY <1>7 DEF Inv, TypeOK
  <1>9. override' \subseteq Stored'
    BY <1>1, <1>7 DEF Inv, TypeOK, Exists
  <1>10. /\ sync' \in [Syncer -> [pc : {"idle", "store", "merge", "merged", "resolve"},
                                  batch : SUBSET Fetched, plan : Plan]]
         /\ \A x \in Syncer : Proper(sync'[x].plan)
    BY <1>1, NoPlanIsProper, GotoKeepsTypes
  <1>11. TypeOK'
    BY <1>1, <1>3, <1>6, <1>7, <1>8, <1>9, <1>10 DEF Inv, TypeOK, Stored
  <1>12. PlansOK'
    BY <1>1, <1>10 DEF Inv, PlansOK
  <1> QED BY <1>11, <1>12 DEF Inv

\* A row that is hidden names another row that is there.
LEMMA HideKeepsTypes ==
    ASSUME Inv, NEW plan, Proper(plan), Hide(plan)
    PROVE  /\ row' \in [Txn -> Row \cup {NoRow}]
           /\ \A t \in Stored' : row'[t].dup # NoTxn => row'[t].dup \in Stored' \ {t}
           /\ override' \subseteq Stored'
           /\ crossed' \subseteq Txn /\ chosen' \subseteq Txn
  <1> DEFINE live == {p \in plan.pairs : Exists(p[1])}
             hidden == {p[1][1] : p \in live}
             canonical(t) == (CHOOSE p \in live : p[1][1] = t)[2][1]
  <1>1. /\ \A p \in live : Exists(p[2])
        /\ row' = [t \in Txn |->
             IF t \in hidden THEN [row[t] EXCEPT !.dup = canonical(t)] ELSE row[t]]
        /\ override' = override \cup {x[1] : x \in Receiving(live, plan.moved)}
        /\ crossed' \subseteq crossed \cup hidden
        /\ chosen' \subseteq chosen
    BY DEF Hide
  <1>2. hidden \subseteq Stored
    BY DEF Exists
  <1>3. \A t \in hidden : canonical(t) \in Stored \ {t}
    <2> TAKE t \in hidden
    <2>1. \E p \in live : p[1][1] = t
      OBVIOUS
    <2>2. (CHOOSE p \in live : p[1][1] = t) \in live
          /\ (CHOOSE p \in live : p[1][1] = t)[1][1] = t
      BY <2>1
    <2> QED BY <1>1, <2>2 DEF Proper, Exists
  <1>4. \A x \in Receiving(live, plan.moved) : x[1] \in Stored
    BY <1>1 DEF Receiving, Exists
  <1> HIDE DEF live, hidden, canonical
  <1>5. row' \in [Txn -> Row \cup {NoRow}] /\ Stored' = Stored
    BY <1>1, <1>2, <1>3 DEF Inv, TypeOK, Stored, Row
  <1>6. \A t \in Stored' : row'[t].dup # NoTxn => row'[t].dup \in Stored' \ {t}
    <2> SUFFICES ASSUME NEW t \in Stored', row'[t].dup # NoTxn
                 PROVE  row'[t].dup \in Stored' \ {t}
      OBVIOUS
    <2>1. row[t] \in Row
      BY <1>5 DEF Inv, TypeOK, Stored
    <2>2. CASE t \in hidden
      BY <1>1, <1>3, <1>5, <2>1, <2>2 DEF Row, Stored
    <2>3. CASE t \notin hidden
      BY <1>1, <1>5, <2>3 DEF Inv, TypeOK, Stored
    <2> QED BY <2>2, <2>3
  <1>7. override' \subseteq Stored'
    BY <1>1, <1>4, <1>5 DEF Inv, TypeOK
  <1>8. crossed' \subseteq Txn /\ chosen' \subseteq Txn
    BY <1>1, <1>2 DEF Inv, TypeOK, Stored
  <1> QED BY <1>5, <1>6, <1>7, <1>8

LEMMA ResolveReadStep == ASSUME Inv, NEW s \in Syncer, SyncResolveRead(s) PROVE Inv'
  <1> DEFINE pending == {p \in Txn : Shown(p) /\ row[p].pending /\ PostedMatches(p) # {}}
  <1>1. PICK match \in [pending -> Txn] :
          /\ \A p \in pending : match[p] \in NearestPosted(p)
          /\ SyncGoto(s, "resolve", PlanOf({<<p, match[p]>> : p \in pending}))
    BY DEF SyncResolveRead
  <1>2. \A p \in pending : /\ p \in Stored /\ match[p] \in Stored
                           /\ row[p].pending /\ ~row[match[p]].pending
    BY <1>1 DEF NearestPosted, PostedMatches, Shown
  <1> HIDE DEF pending
  <1>3. Proper(PlanOf({<<p, match[p]>> : p \in pending}))
    BY <1>2, PlanOfIsProper DEF Inv
  <1>4. /\ sync' \in [Syncer -> [pc : {"idle", "store", "merge", "merged", "resolve"},
                                 batch : SUBSET Fetched, plan : Plan]]
        /\ \A x \in Syncer : Proper(sync'[x].plan)
    BY <1>1, <1>3, GotoKeepsTypes
  <1>5. TypeOK'
    BY <1>4, TableUnchanged DEF Inv, TypeOK, SyncResolveRead
  <1>6. PlansOK'
    BY <1>4 DEF Inv, PlansOK, SyncResolveRead
  <1> QED BY <1>5, <1>6 DEF Inv

LEMMA ResolveWriteStep == ASSUME Inv, NEW s \in Syncer, SyncResolveWrite(s) PROVE Inv'
  <1>1. Proper(sync[s].plan) /\ Hide(sync[s].plan)
    BY DEF Inv, PlansOK, SyncResolveWrite
  <1>2. SyncGoto(s, "idle", NoPlan) /\ UNCHANGED <<clock, review, into>>
    BY DEF SyncResolveWrite
  <1>3. /\ sync' \in [Syncer -> [pc : {"idle", "store", "merge", "merged", "resolve"},
                                 batch : SUBSET Fetched, plan : Plan]]
        /\ \A x \in Syncer : Proper(sync'[x].plan)
    BY <1>2, NoPlanIsProper, GotoKeepsTypes
  <1>4. TypeOK'
    BY <1>1, <1>2, <1>3, HideKeepsTypes DEF Inv, TypeOK
  <1>5. PlansOK'
    BY <1>2, <1>3 DEF Inv, PlansOK
  <1> QED BY <1>4, <1>5 DEF Inv

\* A statement that fails leaves nothing behind.
LEMMA FailStep ==
    ASSUME Inv, NEW s \in Syncer, SyncMergeFails(s) \/ SyncResolveFails(s) PROVE Inv'
  <1>1. \E pc \in {"merged", "idle"} : SyncGoto(s, pc, NoPlan)
    BY DEF SyncMergeFails, SyncResolveFails
  <1>2. UNCHANGED <<row, override, clock, review, into, crossed, chosen>>
    BY DEF SyncMergeFails, SyncResolveFails
  <1>3. /\ sync' \in [Syncer -> [pc : {"idle", "store", "merge", "merged", "resolve"},
                                 batch : SUBSET Fetched, plan : Plan]]
        /\ \A x \in Syncer : Proper(sync'[x].plan)
    BY <1>1, NoPlanIsProper, GotoKeepsTypes
  <1>4. TypeOK'
    BY <1>2, <1>3, TableUnchanged DEF Inv, TypeOK
  <1> QED BY <1>2, <1>3, <1>4 DEF Inv, PlansOK

LEMMA MarkStep ==
    ASSUME Inv, NEW r \in Reviewer,
           (\E t \in Txn : MarkRead(r, t)) \/ MarkWrite(r) \/ MarkFails(r)
    PROVE  Inv'
  <1>1. CASE \E t \in Txn : MarkRead(r, t)
    <2>1. PICK t \in Txn : MarkRead(r, t)
      BY <1>1
    <2>2. PICK c \in Candidates(t) : review' = [review EXCEPT ![r] = PlanOf({<<t, c>>})]
      BY <2>1 DEF MarkRead
    <2>3. t \in Stored /\ c \in Stored /\ c # t
      BY <2>1 DEF MarkRead, Candidates, Shown
    <2>4. Proper(PlanOf({<<t, c>>}))
      BY <2>3, PlanOfIsProper DEF Inv
    <2>5. TypeOK'
      BY <2>1, <2>2, <2>4, TableUnchanged DEF Inv, TypeOK, MarkRead, Proper
    <2> QED BY <2>1, <2>2, <2>4, <2>5 DEF Inv, TypeOK, PlansOK, MarkRead
  <1>2. CASE MarkWrite(r)
    <2>1. Proper(review[r]) /\ Hide(review[r])
      BY <1>2 DEF Inv, PlansOK, MarkWrite
    <2>2. TypeOK'
      BY <1>2, <2>1, HideKeepsTypes, NoPlanIsProper DEF Inv, TypeOK, MarkWrite, Proper
    <2> QED BY <1>2, <2>2, NoPlanIsProper DEF Inv, TypeOK, PlansOK, MarkWrite
  <1>3. CASE MarkFails(r)
    <2>1. TypeOK'
      BY <1>3, TableUnchanged, NoPlanIsProper DEF Inv, TypeOK, MarkFails, Proper
    <2> QED BY <1>3, <2>1, NoPlanIsProper DEF Inv, TypeOK, PlansOK, MarkFails
  <1> QED BY <1>1, <1>2, <1>3

LEMMA CategoryStep ==
    ASSUME Inv, NEW t \in Txn, SetCategory(t) \/ RemoveCategory(t) PROVE Inv'
  <1>1. /\ UNCHANGED <<row, clock, sync, review, into, crossed>>
        /\ t \in Stored
        /\ override' \subseteq override \cup {t} /\ chosen' \subseteq chosen \cup {t}
    BY DEF SetCategory, RemoveCategory
  <1>2. Stored' = Stored
    BY <1>1 DEF Stored
  <1>3. TypeOK'
    BY <1>1, <1>2 DEF Inv, TypeOK
  <1> QED BY <1>1, <1>3 DEF Inv, PlansOK

LEMMA NextInv == Inv /\ [Next]_vars => Inv'
  <1> SUFFICES ASSUME Inv, [Next]_vars PROVE Inv'
    OBVIOUS
  <1>1. CASE UNCHANGED vars
    BY <1>1, TableUnchanged DEF vars, Inv, TypeOK, PlansOK
  <1>2. CASE Next
    BY <1>2, CategoryStep, FetchStep, StoreStep, MergeReadStep, MergeWriteStep, FailStep,
       ResolveReadStep, ResolveWriteStep, MarkStep DEF Next
  <1> QED BY <1>1, <1>2

-----------------------------------------------------------------------------
(***************************************************************************)
(* Every variable keeps its type; in particular a hidden row always names  *)
(* another row of the table, and a category always has its row, however    *)
(* merges, resolutions and reviews interleave and whatever they delete.    *)
(***************************************************************************)
THEOREM TypeCorrect == Spec => []TypeOK
  <1>1. Inv => TypeOK
    BY DEF Inv
  <1> QED BY <1>1, InitInv, NextInv, PTL DEF Spec

-----------------------------------------------------------------------------
(***************************************************************************)
(* NothingVanishes.                                                        *)
(*                                                                         *)
(* A transaction would vanish on a cycle of rows that stand for each       *)
(* other, or at the end of an endless chain of them.  The rows not crossed *)
(* can be ranked so that each one's successor ranks lower; a lowest row of *)
(* a chain is then shown, or crossed.  Each write finds new ranks.         *)
(***************************************************************************)

Known == Stored \cup Merged

\* Every row a plan or a deleted row names has been stored.
KnownOK ==
    /\ \A s \in Syncer : \A p \in sync[s].plan.pairs : p[2][1] \in Known
    /\ \A r \in Reviewer : \A p \in review[r].pairs : p[2][1] \in Known
    /\ \A t \in Merged : into[t] \in Known \ {t}

\* The merge has an order in which every pair that is not tied goes upwards.
Ordered(plan) ==
    \E K \in Nat : \E ord \in [Ref -> 0..K] :
        \A p \in plan.pairs \ plan.tied : ord[p[1]] < ord[p[2]]

\* No row both gives way and is given way to.
Disjoint(plan) == \A p, q \in plan.pairs : p[1][1] # q[2][1]

OrderOK ==
    /\ \A s \in Syncer : /\ sync[s].pc = "merge" => Ordered(sync[s].plan)
                         /\ sync[s].pc = "resolve" => Disjoint(sync[s].plan)
    /\ \A r \in Reviewer : Disjoint(review[r])

\* The rank falls along every chain, but for the rows that crossed.
Falls(rk) == \A t \in Txn \ crossed : Follow(t) # t => rk[Follow(t)] < rk[t]
RankOK == \E B \in Nat : \E rk \in [Txn -> 0..B] : Falls(rk)

ShownInv == Inv /\ KnownOK /\ OrderOK /\ RankOK


-----------------------------------------------------------------------------
LEMMA LeastNumber ==
    ASSUME NEW T \in SUBSET Nat, T # {}
    PROVE  \E x \in T : \A y \in T : ~(y < x)
  <1>1. PICK x \in T : \A y \in T : ~(<<y, x>> \in OpToRel(<, Nat))
    BY NatLessThanWellFounded, WFMin
  <1>2. \A y \in T : y < x => <<y, x>> \in OpToRel(<, Nat)
    BY DEF OpToRel
  <1> QED BY <1>1, <1>2

LEMMA FollowIsKnown ==
    ASSUME TypeOK, KnownOK, NEW t \in Known
    PROVE  Follow(t) \in Known /\ t \in Txn
  BY DEF TypeOK, KnownOK, Known, Follow, Stored, Merged

\* The chain of a row: the row, what follows it, and nothing that was never stored.
LEMMA ChainIsClosed ==
    ASSUME TypeOK, KnownOK, NEW t \in Known
    PROVE  /\ t \in Chain(t)
           /\ \A u \in Chain(t) : Follow(u) \in Chain(t)
           /\ Chain(t) \subseteq Known
  <1>1. t \in Txn /\ Known \in SUBSET Txn
    BY FollowIsKnown DEF Known, Stored, Merged
  <1>2. t \in Chain(t)
    BY <1>1 DEF Chain
  <1>3. Chain(t) \subseteq Known
    BY <1>1, FollowIsKnown DEF Chain
  <1>4. \A u \in Chain(t) : Follow(u) \in Chain(t)
    <2> TAKE u \in Chain(t)
    <2>1. Follow(u) \in Txn
      BY <1>1, <1>3, FollowIsKnown
    <2>2. ASSUME NEW C \in SUBSET Txn, t \in C, \A v \in C : Follow(v) \in C
          PROVE  Follow(u) \in C
      BY <2>2 DEF Chain
    <2> QED BY <2>1, <2>2 DEF Chain
  <1> QED BY <1>2, <1>3, <1>4

LEMMA RanksShow == ShownInv => NothingVanishes
  <1> SUFFICES ASSUME ShownInv, NEW t \in Known
               PROVE  \E u \in Chain(t) : Shown(u) \/ u \in crossed
    BY DEF NothingVanishes, Known
  <1>1. PICK B \in Nat : \E rk \in [Txn -> 0..B] : Falls(rk)
    BY DEF ShownInv, RankOK
  <1>2. PICK rk \in [Txn -> 0..B] : Falls(rk)
    BY <1>1
  <1>3. /\ t \in Chain(t)
        /\ \A u \in Chain(t) : Follow(u) \in Chain(t)
        /\ Chain(t) \subseteq Known
    BY ChainIsClosed DEF ShownInv, Inv
  <1>4. Chain(t) \subseteq Txn
    BY DEF Chain
  <1> DEFINE ranks == {rk[u] : u \in Chain(t)}
  <1>5. ranks \in SUBSET Nat /\ ranks # {}
    BY <1>2, <1>3, <1>4
  <1>6. PICK x \in ranks : \A y \in ranks : ~(y < x)
    BY <1>5, LeastNumber
  <1>7. PICK u \in Chain(t) : \A v \in Chain(t) : ~(rk[v] < rk[u])
    BY <1>6
  <1>8. u \in crossed \/ Follow(u) = u
    BY <1>2, <1>3, <1>4, <1>7 DEF Falls
  <1>9. CASE Follow(u) = u
    BY <1>3, <1>9 DEF Follow, Shown, ShownInv, Inv, TypeOK, KnownOK, Known, Stored, Merged
  <1> QED BY <1>7, <1>8, <1>9

-----------------------------------------------------------------------------
\* Steps that leave rows and history alone keep the ranks.
LEMMA QuietStep ==
    ASSUME ShownInv, UNCHANGED <<row, into, crossed>>
    PROVE  RankOK' /\ Known' = Known /\ \A t \in Merged' : into'[t] \in Known' \ {t}
  <1>1. Stored' = Stored /\ Merged' = Merged
    BY DEF Stored, Merged
  <1>2. \A t \in Txn : Follow(t)' = Follow(t)
    BY <1>1 DEF Follow
  <1>3. \A rk : Falls(rk) => Falls(rk)'
    BY <1>2 DEF Falls
  <1>4. RankOK'
    BY <1>3 DEF ShownInv, RankOK
  <1> QED BY <1>1, <1>4 DEF ShownInv, KnownOK, Known

LEMMA NoPlanIsOrdered == Ordered(NoPlan) /\ Disjoint(NoPlan) /\ NoPlan.pairs = {}
  <1>1. [x \in Ref |-> 0] \in [Ref -> 0..0]
    OBVIOUS
  <1> QED BY <1>1 DEF NoPlan, Ordered, Disjoint

\* The rows of a plan, when it is made, are rows of the table.
LEMMA PlanOfNamesRows ==
    ASSUME TypeOK, NEW pairs, pairs \subseteq Stored \X Stored
    PROVE  /\ \A p \in PlanOf(pairs).pairs : p[2][1] \in Known
           /\ (\A p, q \in pairs : p[1] # q[2]) => Disjoint(PlanOf(pairs))
  <1>1. \A p \in PlanOf(pairs).pairs : \E q \in pairs : p = <<ref(q[1]), ref(q[2])>>
    BY DEF PlanOf, Refs
  <1>2. \A q \in pairs : q[1] \in Stored /\ q[2] \in Stored
    OBVIOUS
  <1> QED BY <1>1, <1>2 DEF ref, Known, Disjoint

LEMMA Lexicographic ==
    ASSUME NEW M \in Nat, NEW a \in Nat, NEW b \in Nat, NEW c \in 0..M, NEW d \in 0..M,
           a < b \/ (a = b /\ c < d)
    PROVE  a * (M + 1) + c < b * (M + 1) + d
  <1>1. CASE a < b
    <2>1. PICK e \in Nat : b = a + 1 + e
      <3>1. b - a - 1 \in Nat /\ b = a + 1 + (b - a - 1)
        BY <1>1
      <3> QED BY <3>1
    <2>2. b * (M + 1) = a * (M + 1) + (M + 1) + e * (M + 1)
      BY <2>1
    <2>3. e * (M + 1) \in Nat /\ a * (M + 1) \in Nat
      OBVIOUS
    <2> QED BY <2>2, <2>3
  <1>2. CASE a = b /\ c < d
    BY <1>2
  <1> QED BY <1>1, <1>2

\* The order of a merge: the length of the name, then the age.
LEMMA MergePlanIsOrdered == ASSUME TypeOK PROVE Ordered(PlanOf(DuplicatePairs))
  <1> DEFINE weight(t) == Length(row[t].key) * (MaxClock + 1) + row[t].created
             K == (TextLength + 1) * (MaxClock + 1) + MaxClock
             ord == [x \in Ref |-> IF Exists(x) THEN weight(x[1]) ELSE 0]
  <1>1. \A t \in Stored : /\ Length(row[t].key) \in 0..(TextLength + 1)
                          /\ row[t].created \in 0..MaxClock
                          /\ ref(t) \in Ref /\ Exists(ref(t))
    <2> TAKE t \in Stored
    <2>1. row[t] \in Row /\ t \in Txn
      BY DEF TypeOK, Stored
    <2>2. row[t].key \in Key /\ row[t].created \in Clock
      BY <2>1 DEF Row
    <2>3. row[t].key \in Nat \X Nat
      BY <2>2
    <2>4. Length(row[t].key) \in 0..(TextLength + 1)
      BY <2>2, <2>3 DEF Length
    <2> QED BY <2>1, <2>2, <2>4 DEF Clock, ref, Ref, Exists
  <1>2. \A t \in Stored : weight(t) \in 0..K
    <2> SUFFICES ASSUME NEW l \in 0..(TextLength + 1), NEW c \in 0..MaxClock
                 PROVE  l * (MaxClock + 1) + c \in 0..K
      BY <1>1
    <2>1. l * (MaxClock + 1) \in Nat /\ l * (MaxClock + 1) <= (TextLength + 1) * (MaxClock + 1)
      OBVIOUS
    <2> QED BY <2>1
  <1>3. K \in Nat
    OBVIOUS
  <1>4. \A t, u \in Stored : Yields(t, u) /\ ~Tied(t, u) => weight(t) < weight(u)
    <2> SUFFICES ASSUME NEW t \in Stored, NEW u \in Stored, Yields(t, u), ~Tied(t, u)
                 PROVE  weight(t) < weight(u)
      OBVIOUS
    <2>1. \/ Length(row[t].key) < Length(row[u].key)
          \/ Length(row[t].key) = Length(row[u].key) /\ row[t].created < row[u].created
      BY <1>1 DEF Yields, Tied
    <2> QED BY <1>1, <2>1, Lexicographic
  <1>5. \A t \in Stored : ord[ref(t)] = weight(t)
    BY <1>1 DEF ref
  <1>6. \A x \in Ref : Exists(x) => x[1] \in Stored
    BY DEF Exists
  <1> HIDE DEF weight, K
  <1>7. ord \in [Ref -> 0..K]
    BY <1>2, <1>3, <1>6
  <1>8. \A p \in PlanOf(DuplicatePairs).pairs \ PlanOf(DuplicatePairs).tied : ord[p[1]] < ord[p[2]]
    <2> TAKE p \in PlanOf(DuplicatePairs).pairs \ PlanOf(DuplicatePairs).tied
    <2>1. PICK q \in DuplicatePairs : p = <<ref(q[1]), ref(q[2])>>
      BY DEF PlanOf, Refs
    <2>2. ~Tied(q[1], q[2])
      BY <2>1 DEF PlanOf, Refs
    <2>3. q[1] \in Stored /\ q[2] \in Stored /\ Yields(q[1], q[2])
      BY DEF DuplicatePairs
    <2> HIDE DEF ord
    <2> QED BY <1>4, <1>5, <2>1, <2>2, <2>3
  <1> HIDE DEF ord
  <1> QED BY <1>3, <1>7, <1>8 DEF Ordered

-----------------------------------------------------------------------------
LEMMA InitShown == Init => ShownInv
  <1> SUFFICES ASSUME Init PROVE ShownInv
    OBVIOUS
  <1>1. \A t \in Txn : Follow(t) = t
    BY DEF Init, Follow, Stored
  <1>2. [t \in Txn |-> 0] \in [Txn -> 0..0] /\ Falls([t \in Txn |-> 0])
    BY <1>1 DEF Falls
  <1>3. RankOK
    BY <1>2 DEF RankOK
  <1>4. KnownOK
    BY NoPlanIsOrdered DEF Init, KnownOK, Merged, Idle
  <1>5. OrderOK
    BY NoPlanIsOrdered DEF Init, OrderOK, Idle
  <1> QED BY <1>3, <1>4, <1>5, InitInv DEF ShownInv

\* A step that leaves rows and history alone, and whose new plans are sound.
LEMMA PlanningStep ==
    ASSUME ShownInv, Inv', UNCHANGED <<row, into, crossed>>, OrderOK',
           \A s \in Syncer : \A p \in sync'[s].plan.pairs : p[2][1] \in Known,
           \A r \in Reviewer : \A p \in review'[r].pairs : p[2][1] \in Known
    PROVE  ShownInv'
  BY QuietStep DEF ShownInv, KnownOK

LEMMA FetchShown == ASSUME ShownInv, Inv', NEW s \in Syncer, SyncFetch(s) PROVE ShownInv'
  <1>1. UNCHANGED <<row, into, crossed, review>>
    BY DEF SyncFetch
  <1>2. \E batch : sync' = [sync EXCEPT ![s] = [pc |-> "store", plan |-> NoPlan, batch |-> batch]]
    BY DEF SyncFetch
  <1>3. \A x \in Syncer : x # s => sync'[x] = sync[x]
    BY <1>2 DEF ShownInv, Inv, TypeOK
  <1>4. sync'[s].pc = "store" /\ sync'[s].plan = NoPlan
    BY <1>2 DEF ShownInv, Inv, TypeOK
  <1>5. OrderOK'
    BY <1>1, <1>3, <1>4 DEF ShownInv, OrderOK
  <1>6. \A x \in Syncer : \A p \in sync'[x].plan.pairs : p[2][1] \in Known
    BY <1>3, <1>4, NoPlanIsOrdered DEF ShownInv, KnownOK
  <1> QED BY <1>1, <1>5, <1>6, PlanningStep DEF ShownInv, KnownOK

\* A sync that goes on with a sound plan; the others, and the reviews, stay.
LEMMA GotoShown ==
    ASSUME ShownInv, NEW s \in Syncer, NEW pc, NEW plan, SyncGoto(s, pc, plan),
           \A p \in plan.pairs : p[2][1] \in Known,
           pc = "merge" => Ordered(plan), pc = "resolve" => Disjoint(plan)
    PROVE  /\ \A x \in Syncer : /\ sync'[x].pc = "merge" => Ordered(sync'[x].plan)
                                /\ sync'[x].pc = "resolve" => Disjoint(sync'[x].plan)
           /\ \A x \in Syncer : \A p \in sync'[x].plan.pairs : p[2][1] \in Known
  <1>1. \A x \in Syncer : x # s => sync'[x] = sync[x]
    BY DEF ShownInv, Inv, TypeOK, SyncGoto
  <1>2. sync'[s].pc = pc /\ sync'[s].plan = plan
    BY DEF ShownInv, Inv, TypeOK, SyncGoto
  <1>3. /\ \A x \in Syncer : /\ sync[x].pc = "merge" => Ordered(sync[x].plan)
                             /\ sync[x].pc = "resolve" => Disjoint(sync[x].plan)
        /\ \A x \in Syncer : \A p \in sync[x].plan.pairs : p[2][1] \in Known
    BY DEF ShownInv, OrderOK, KnownOK
  <1> QED BY <1>1, <1>2, <1>3

LEMMA ReadShown ==
    ASSUME ShownInv, Inv', NEW s \in Syncer,
           SyncMergeRead(s) \/ SyncMergeFails(s) \/ SyncResolveRead(s) \/ SyncResolveFails(s)
    PROVE  ShownInv'
  <1>1. UNCHANGED <<row, into, crossed, review>>
    BY DEF SyncMergeRead, SyncMergeFails, SyncResolveRead, SyncResolveFails
  <1>2. \E pc, plan : /\ SyncGoto(s, pc, plan)
                      /\ \A p \in plan.pairs : p[2][1] \in Known
                      /\ pc = "merge" => Ordered(plan)
                      /\ pc = "resolve" => Disjoint(plan)
    <2>1. CASE SyncMergeRead(s)
      <3>1. \A p \in PlanOf(DuplicatePairs).pairs : p[2][1] \in Known
        BY PlanOfNamesRows DEF ShownInv, Inv, DuplicatePairs
      <3>2. Ordered(PlanOf(DuplicatePairs))
        BY MergePlanIsOrdered DEF ShownInv, Inv
      <3> QED BY <2>1, <3>1, <3>2 DEF SyncMergeRead
    <2>2. CASE SyncResolveRead(s)
      <3> DEFINE pending == {p \in Txn : Shown(p) /\ row[p].pending /\ PostedMatches(p) # {}}
      <3>1. PICK match \in [pending -> Txn] :
              /\ \A p \in pending : match[p] \in NearestPosted(p)
              /\ SyncGoto(s, "resolve", PlanOf({<<p, match[p]>> : p \in pending}))
        BY <2>2 DEF SyncResolveRead
      <3>2. \A p \in pending : /\ p \in Stored /\ match[p] \in Stored
                               /\ row[p].pending /\ ~row[match[p]].pending
        BY <3>1 DEF NearestPosted, PostedMatches, Shown
      <3> DEFINE pairs == {<<p, match[p]>> : p \in pending}
      <3>3. pairs \subseteq Stored \X Stored /\ \A p, q \in pairs : p[1] # q[2]
        BY <3>2
      <3> HIDE DEF pending, pairs
      <3>4. (\A p \in PlanOf(pairs).pairs : p[2][1] \in Known) /\ Disjoint(PlanOf(pairs))
        BY <3>3, PlanOfNamesRows DEF ShownInv, Inv
      <3>5. SyncGoto(s, "resolve", PlanOf(pairs))
        BY <3>1 DEF pairs
      <3> QED BY <3>4, <3>5
    <2>3. CASE SyncMergeFails(s) \/ SyncResolveFails(s)
      BY <2>3, NoPlanIsOrdered DEF SyncMergeFails, SyncResolveFails
    <2> QED BY <2>1, <2>2, <2>3
  <1>3. /\ \A x \in Syncer : /\ sync'[x].pc = "merge" => Ordered(sync'[x].plan)
                             /\ sync'[x].pc = "resolve" => Disjoint(sync'[x].plan)
        /\ \A x \in Syncer : \A p \in sync'[x].plan.pairs : p[2][1] \in Known
    BY <1>2, GotoShown
  <1>4. OrderOK'
    BY <1>1, <1>3 DEF ShownInv, OrderOK
  <1> QED BY <1>1, <1>3, <1>4, PlanningStep DEF ShownInv, KnownOK

LEMMA MarkReadShown ==
    ASSUME ShownInv, Inv', NEW r \in Reviewer, (\E t \in Txn : MarkRead(r, t)) \/ MarkFails(r)
    PROVE  ShownInv'
  <1>1. UNCHANGED <<row, into, crossed, sync>>
    BY DEF MarkRead, MarkFails
  <1>2. PICK plan : /\ review' = [review EXCEPT ![r] = plan]
                    /\ \A p \in plan.pairs : p[2][1] \in Known
                    /\ Disjoint(plan)
    <2>1. CASE \E t \in Txn : MarkRead(r, t)
      <3>1. PICK t \in Txn : MarkRead(r, t)
        BY <2>1
      <3>2. PICK c \in Candidates(t) : review' = [review EXCEPT ![r] = PlanOf({<<t, c>>})]
        BY <3>1 DEF MarkRead
      <3>3. t \in Stored /\ c \in Stored /\ c # t
        BY <3>1 DEF MarkRead, Candidates, Shown
      <3>4. {<<t, c>>} \subseteq Stored \X Stored /\ \A p, q \in {<<t, c>>} : p[1] # q[2]
        BY <3>3
      <3>5. TypeOK
        BY DEF ShownInv, Inv
      <3>6. /\ \A p \in PlanOf({<<t, c>>}).pairs : p[2][1] \in Known
            /\ Disjoint(PlanOf({<<t, c>>}))
        BY <3>4, <3>5, PlanOfNamesRows
      <3> QED BY <3>2, <3>6
    <2>2. CASE MarkFails(r)
      BY <2>2, NoPlanIsOrdered DEF MarkFails
    <2> QED BY <2>1, <2>2
  <1>3. \A x \in Reviewer : review'[x] = plan \/ review'[x] = review[x]
    BY <1>2 DEF ShownInv, Inv, TypeOK
  <1>4. OrderOK'
    BY <1>1, <1>2, <1>3 DEF ShownInv, OrderOK
  <1> QED BY <1>1, <1>2, <1>3, <1>4, PlanningStep DEF ShownInv, KnownOK

LEMMA CategoryShownStep ==
    ASSUME ShownInv, Inv', NEW t \in Txn, SetCategory(t) \/ RemoveCategory(t) PROVE ShownInv'
  <1>1. UNCHANGED <<row, into, crossed, sync, review>>
    BY DEF SetCategory, RemoveCategory
  <1>2. OrderOK'
    BY <1>1 DEF ShownInv, OrderOK
  <1> QED BY <1>1, <1>2, PlanningStep DEF ShownInv, KnownOK

\* A row that is stored anew stands for itself.
LEMMA StoreShown == ASSUME ShownInv, Inv', NEW s \in Syncer, SyncStore(s) PROVE ShownInv'
  <1>1. PICK b \in sync[s].batch :
          /\ UpsertTransaction(b)
          /\ crossed' = IF b.txn \in Stored THEN crossed ELSE crossed \ {b.txn}
          /\ sync' = [sync EXCEPT ![s].batch = @ \ {b}]
    BY DEF SyncStore
  <1>2. b \in Fetched /\ b.txn \in Txn
    BY DEF ShownInv, Inv, TypeOK, Fetched
  <1>3. \A t \in Txn \ {b.txn} : row'[t] = row[t]
    BY <1>1, <1>2 DEF UpsertTransaction, ShownInv, Inv, TypeOK
  <1>4. /\ b.txn \in Stored => row'[b.txn].dup = row[b.txn].dup
        /\ b.txn \notin Stored => row'[b.txn].dup = NoTxn
    <2> DEFINE new == IF b.txn \in Stored
                      THEN [row[b.txn] EXCEPT !.key = b.key, !.pending = b.pending]
                      ELSE [date |-> b.date, key |-> b.key, pending |-> b.pending,
                            created |-> b.created, dup |-> NoTxn]
    <2>1. row'[b.txn] = new
      BY <1>1, <1>2 DEF UpsertTransaction, ShownInv, Inv, TypeOK
    <2>2. b.txn \in Stored => row[b.txn] \in Row
      BY <1>2 DEF ShownInv, Inv, TypeOK, Stored
    <2> QED BY <2>1, <2>2 DEF Row
  <1>5. Stored' = Stored \cup {b.txn}
    <2>1. row'[b.txn] # NoRow
      <3>1. b.txn \in Stored'
        <4>1. row' = [row EXCEPT ![b.txn] = row'[b.txn]]
          BY <1>1, <1>2 DEF UpsertTransaction, ShownInv, Inv, TypeOK
        <4>2. CASE b.txn \in Stored
          <5>1. row[b.txn] \in Row
            BY <1>2, <4>2 DEF ShownInv, Inv, TypeOK, Stored
          <5>2. row'[b.txn] = [row[b.txn] EXCEPT !.key = b.key, !.pending = b.pending]
            BY <1>1, <1>2, <4>2 DEF UpsertTransaction, ShownInv, Inv, TypeOK
          <5>3. row'[b.txn] \in Row
            BY <1>2, <5>1, <5>2 DEF Row, Fetched
          <5> QED BY <1>2, <5>3 DEF Stored
        <4>3. CASE b.txn \notin Stored
          <5>1. row'[b.txn] = [date |-> b.date, key |-> b.key, pending |-> b.pending,
                               created |-> b.created, dup |-> NoTxn]
            BY <1>1, <1>2, <4>3 DEF UpsertTransaction, ShownInv, Inv, TypeOK
          <5>2. row'[b.txn] \in Row
            BY <1>2, <5>1 DEF Row, Fetched
          <5> QED BY <1>2, <5>2 DEF Stored
        <4> QED BY <4>2, <4>3
      <3> QED BY <3>1 DEF Stored
    <2> QED BY <1>2, <1>3, <2>1 DEF Stored
  <1>6. UNCHANGED <<into, review>>
    BY DEF SyncStore
  <1>7. \A t \in Txn \ crossed' : (Follow(t)' = Follow(t) /\ t \notin crossed) \/ Follow(t)' = t
    BY <1>1, <1>2, <1>3, <1>4, <1>5, <1>6 DEF Follow
  <1>8. \A rk : Falls(rk) => Falls(rk)'
    BY <1>7 DEF Falls
  <1>9. RankOK'
    BY <1>8 DEF ShownInv, RankOK
  <1>10. Known \subseteq Known' /\ Merged' = Merged
    BY <1>5, <1>6 DEF Known, Merged
  <1>11. \A x \in Syncer : sync'[x].pc = sync[x].pc /\ sync'[x].plan = sync[x].plan
    BY <1>1 DEF ShownInv, Inv, TypeOK
  <1>12. KnownOK'
    BY <1>6, <1>10, <1>11 DEF ShownInv, KnownOK
  <1>13. OrderOK'
    BY <1>6, <1>11 DEF ShownInv, OrderOK
  <1> QED BY <1>9, <1>12, <1>13 DEF ShownInv

\* Rows that give way to shown ones: the shown ones are the lowest now.
LEMMA HideRanks ==
    ASSUME ShownInv, Inv', NEW plan, Proper(plan), Disjoint(plan), Hide(plan), UNCHANGED into
    PROVE  RankOK' /\ Known' = Known
  <1> DEFINE live == {p \in plan.pairs : Exists(p[1])}
             hidden == {p[1][1] : p \in live}
             canonical(t) == (CHOOSE p \in live : p[1][1] = t)[2][1]
             lowest == {t \in Txn : Shown(t)} \ hidden
  <1>1. /\ \A p \in live : Exists(p[2])
        /\ row' = [t \in Txn |->
             IF t \in hidden THEN [row[t] EXCEPT !.dup = canonical(t)] ELSE row[t]]
        /\ crossed' = (crossed \ hidden) \cup {t \in hidden : ~Shown(canonical(t))}
    BY DEF Hide
  <1>2. hidden \subseteq Stored
    BY DEF Exists
  <1>3. \A t \in hidden : canonical(t) \in Stored \ hidden
    <2> TAKE t \in hidden
    <2>1. \E p \in live : p[1][1] = t
      OBVIOUS
    <2>2. (CHOOSE p \in live : p[1][1] = t) \in live
      BY <2>1
    <2> QED BY <1>1, <2>2 DEF Disjoint, Exists
  <1> HIDE DEF live, hidden, canonical
  <1>4. \A t \in Stored : row[t] \in Row /\ t \in Txn
    BY DEF ShownInv, Inv, TypeOK, Stored
  <1>5. \A t \in Txn : /\ t \in hidden => row'[t].dup = canonical(t)
                       /\ t \notin hidden => row'[t] = row[t]
    BY <1>1, <1>2, <1>4 DEF Row
  <1>6. Stored' = Stored
    BY <1>1, <1>2, <1>3, <1>4 DEF ShownInv, Inv, TypeOK, Stored, Row
  <1>7. Merged' = Merged /\ Known' = Known
    BY <1>6 DEF Merged, Known
  <1>8. \A t \in hidden : Follow(t)' = canonical(t)
    <2>1. NoTxn \notin Txn
      OBVIOUS
    <2> QED BY <1>2, <1>3, <1>4, <1>5, <1>6, <2>1 DEF Follow
  <1>9. \A t \in Txn \ hidden : Follow(t)' = Follow(t)
    BY <1>5, <1>6 DEF Follow
  <1>10. \A t \in lowest : Follow(t)' = t
    BY <1>9 DEF Follow, Shown
  <1>11. PICK B \in Nat : \E rk \in [Txn -> 0..B] : Falls(rk)
    BY DEF ShownInv, RankOK
  <1>12. PICK rk \in [Txn -> 0..B] : Falls(rk)
    BY <1>11
  <1> DEFINE new == [t \in Txn |-> IF t \in lowest THEN 0 ELSE rk[t] + 1]
  <1>13. PICK nrk \in [Txn -> 0..(B + 1)] : nrk = new
    <2>1. new \in [Txn -> 0..(B + 1)]
      BY <1>12
    <2> QED BY <2>1
  <1>14. \A t \in Txn \ crossed' : Follow(t)' # t => nrk[Follow(t)'] < nrk[t]
    <2> SUFFICES ASSUME NEW t \in Txn \ crossed', Follow(t)' # t
                 PROVE  new[Follow(t)'] < new[t]
      BY <1>13
    <2>1. t \notin lowest
      BY <1>10
    <2>2. CASE t \in hidden
      <3>1. canonical(t) \in lowest
        BY <1>1, <1>3, <1>4, <2>2
      <3> QED BY <1>8, <1>12, <2>1, <2>2, <3>1
    <2>3. CASE t \notin hidden
      <3>1. t \notin crossed /\ Follow(t)' = Follow(t)
        BY <1>1, <1>9, <2>3
      <3>2. Follow(t) \in Txn /\ rk[Follow(t)] < rk[t]
        BY <1>12, <3>1 DEF Falls, Follow, ShownInv, Inv, TypeOK, Stored
      <3> QED BY <1>12, <2>1, <3>1, <3>2
    <2> QED BY <2>2, <2>3
  <1>15. Falls(nrk)'
    BY <1>14 DEF Falls
  <1> QED BY <1>7, <1>13, <1>15 DEF RankOK

LEMMA ResolveWriteShown ==
    ASSUME ShownInv, Inv', NEW s \in Syncer, SyncResolveWrite(s) PROVE ShownInv'
  <1>1. /\ Proper(sync[s].plan) /\ Disjoint(sync[s].plan) /\ Hide(sync[s].plan)
        /\ UNCHANGED <<into, review>> /\ SyncGoto(s, "idle", NoPlan)
    BY DEF SyncResolveWrite, ShownInv, Inv, PlansOK, OrderOK
  <1>2. RankOK' /\ Known' = Known
    BY <1>1, HideRanks
  <1>3. /\ \A x \in Syncer : /\ sync'[x].pc = "merge" => Ordered(sync'[x].plan)
                             /\ sync'[x].pc = "resolve" => Disjoint(sync'[x].plan)
        /\ \A x \in Syncer : \A p \in sync'[x].plan.pairs : p[2][1] \in Known
    BY <1>1, NoPlanIsOrdered, GotoShown
  <1>4. Merged' = Merged /\ review' = review
    BY <1>1 DEF Merged
  <1>5. KnownOK' /\ OrderOK'
    BY <1>1, <1>2, <1>3, <1>4 DEF ShownInv, KnownOK, OrderOK
  <1> QED BY <1>2, <1>5 DEF ShownInv

LEMMA MarkWriteShown ==
    ASSUME ShownInv, Inv', NEW r \in Reviewer, MarkWrite(r) PROVE ShownInv'
  <1>1. /\ Proper(review[r]) /\ Disjoint(review[r]) /\ Hide(review[r])
        /\ UNCHANGED <<into, sync>> /\ review' = [review EXCEPT ![r] = NoPlan]
    BY DEF MarkWrite, ShownInv, Inv, PlansOK, OrderOK
  <1>2. RankOK' /\ Known' = Known
    BY <1>1, HideRanks
  <1>3. \A x \in Reviewer : review'[x] \in {review[x], NoPlan}
    BY <1>1 DEF ShownInv, Inv, TypeOK
  <1>4. Merged' = Merged
    BY <1>1 DEF Merged
  <1>5. KnownOK' /\ OrderOK'
    BY <1>1, <1>2, <1>3, <1>4, NoPlanIsOrdered DEF ShownInv, KnownOK, OrderOK
  <1> QED BY <1>2, <1>5 DEF ShownInv

\* Deleted rows rank above all that stay, each below those merged into it.
LEMMA MergeWriteShown ==
    ASSUME ShownInv, Inv', NEW s \in Syncer, SyncMergeWrite(s) PROVE ShownInv'
  <1> DEFINE plan == sync[s].plan
             live == {p \in plan.pairs : Exists(p[1])}
             gone == {p[1][1] : p \in live}
             heirs(t) == {p[2] : p \in {q \in live : q[1][1] = t}}
             good(t) == {x \in heirs(t) : Exists(x) /\ <<ref(t), x>> \notin plan.tied}
             chosenHeir(t) == CHOOSE x \in heirs(t) : good(t) # {} => x \in good(t)
  <1>1. /\ row' = Without(gone)
        /\ into' = [t \in Txn |-> IF t \in gone THEN chosenHeir(t)[1] ELSE into[t]]
        /\ crossed' = (crossed \ gone) \cup {t \in gone : good(t) = {}}
        /\ SyncGoto(s, "merged", NoPlan)
        /\ UNCHANGED review /\ sync[s].pc = "merge"
    BY DEF SyncMergeWrite
  <1>2. plan \in Plan /\ Proper(plan) /\ Ordered(plan)
    BY <1>1 DEF ShownInv, Inv, PlansOK, Proper, OrderOK
  <1>3. \A p \in plan.pairs : p[2][1] \in Known
    BY DEF ShownInv, KnownOK
  <1>4. gone \subseteq Stored /\ gone \subseteq Txn
    BY DEF Exists, Stored
  <1>5. \A t \in gone : chosenHeir(t) \in heirs(t) /\ (good(t) # {} => chosenHeir(t) \in good(t))
    <2> TAKE t \in gone
    <2>1. heirs(t) # {} /\ good(t) \subseteq heirs(t)
      OBVIOUS
    <2>2. \E x \in heirs(t) : good(t) # {} => x \in good(t)
      BY <2>1
    <2> QED BY <2>2
  <1> HIDE DEF chosenHeir
  <1>6. \A t \in gone : chosenHeir(t)[1] \in Known \ {t}
    BY <1>2, <1>3, <1>5 DEF Proper
  <1>7. \A t \in gone : t \notin crossed' =>
            /\ chosenHeir(t) \in Ref /\ Exists(chosenHeir(t))
            /\ ref(t) \in Ref
            /\ <<ref(t), chosenHeir(t)>> \in plan.pairs \ plan.tied
    <2> TAKE t \in gone
    <2> HAVE t \notin crossed'
    <2>1. chosenHeir(t) \in good(t)
      BY <1>1, <1>5
    <2>2. PICK p \in live : p[1][1] = t /\ p[2] = chosenHeir(t)
      BY <2>1
    <2>3. p \in Ref \X Ref
      BY <1>2 DEF Plan
    <2>4. p[1] = ref(t)
      BY <2>2, <2>3 DEF Exists, ref, Ref
    <2> QED BY <2>1, <2>2, <2>3, <2>4
  <1> HIDE DEF heirs, good, live, gone
  <1>8. Stored' = Stored \ gone /\ \A t \in Stored' : /\ row'[t].dup \in {row[t].dup, NoTxn}
                                                      /\ row'[t].dup \notin gone
    <2>1. \A t \in Txn : row'[t] =
             IF t \in gone THEN NoRow
             ELSE IF t \in Stored /\ row[t].dup \in gone
                  THEN [row[t] EXCEPT !.dup = NoTxn] ELSE row[t]
      BY <1>1 DEF Without
    <2>2. \A t \in Stored : /\ t \in Txn /\ row[t] # NoRow
                            /\ [row[t] EXCEPT !.dup = NoTxn] # NoRow
                            /\ [row[t] EXCEPT !.dup = NoTxn].dup = NoTxn
      <3>1. \A t \in Stored : row[t] \in Row
        BY DEF ShownInv, Inv, TypeOK, Stored
      <3>2. \A x \in Row : [x EXCEPT !.dup = NoTxn] \in Row /\ [x EXCEPT !.dup = NoTxn].dup = NoTxn
        BY DEF Row
      <3> QED BY <3>1, <3>2 DEF Stored
    <2>3. Stored' = Stored \ gone
      BY <2>1, <2>2 DEF Stored
    <2>4. NoTxn \notin gone
      BY <1>4
    <2> QED BY <2>1, <2>2, <2>3, <2>4
  <1>9. \A t \in Stored' : Follow(t)' \notin gone /\ Follow(t)' \in {Follow(t), t}
    BY <1>8 DEF Follow
  <1>10. /\ \A t \in gone : into'[t] = chosenHeir(t)[1] /\ into'[t] \in Txn
         /\ \A t \in Txn \ gone : into'[t] = into[t]
    <2>1. Known \subseteq Txn
      BY DEF Known, Stored, Merged
    <2> QED BY <1>1, <1>4, <1>6, <2>1
  <1>11. \A t \in gone : Follow(t)' = chosenHeir(t)[1] /\ t \in Merged'
    BY <1>4, <1>8, <1>10 DEF Follow, Merged
  <1>12. \A t \in Txn \ (Stored \cup gone) : Follow(t)' = Follow(t)
    BY <1>8, <1>10 DEF Follow
  <1>13. Known \subseteq Known' /\ Merged' = Merged \cup gone
    BY <1>4, <1>8, <1>10, <1>11 DEF Known, Merged
  <1>14. /\ \A x \in Syncer : /\ sync'[x].pc = "merge" => Ordered(sync'[x].plan)
                              /\ sync'[x].pc = "resolve" => Disjoint(sync'[x].plan)
         /\ \A x \in Syncer : \A p \in sync'[x].plan.pairs : p[2][1] \in Known
    BY <1>1, NoPlanIsOrdered, GotoShown
  <1>15. OrderOK'
    BY <1>1, <1>14 DEF ShownInv, OrderOK
  <1>16. KnownOK'
    <2>1. \A t \in Merged' : into'[t] \in Known \ {t}
      BY <1>4, <1>6, <1>10, <1>13 DEF ShownInv, KnownOK, Merged
    <2> QED BY <1>1, <1>13, <1>14, <2>1 DEF ShownInv, KnownOK
  <1>17. PICK B \in Nat : \E rk \in [Txn -> 0..B] : Falls(rk)
    BY DEF ShownInv, RankOK
  <1>18. PICK rk \in [Txn -> 0..B] : Falls(rk)
    BY <1>17
  <1>19. PICK K \in Nat : \E ord \in [Ref -> 0..K] :
           \A p \in plan.pairs \ plan.tied : ord[p[1]] < ord[p[2]]
    BY <1>2 DEF Ordered
  <1>20. PICK ord \in [Ref -> 0..K] : \A p \in plan.pairs \ plan.tied : ord[p[1]] < ord[p[2]]
    BY <1>19
  <1> DEFINE up(t) == IF ref(t) \in Ref THEN ord[ref(t)] ELSE 0
             new == [t \in Txn |-> IF t \in gone THEN B + 1 + K - up(t)
                                   ELSE IF t \in Stored THEN rk[t] ELSE B + K + 2 + rk[t]]
             top == B + K + 2 + B
  <1>21. \A t \in Txn : up(t) \in 0..K
    BY <1>20
  <1>22. PICK nrk \in [Txn -> 0..top] : nrk = new
    <2> HIDE DEF up
    <2>1. new \in [Txn -> 0..top]
      BY <1>18, <1>21
    <2> QED BY <2>1
  <1>23. \A t \in Txn \ crossed' : Follow(t)' # t => nrk[Follow(t)'] < nrk[t]
    <2> SUFFICES ASSUME NEW t \in Txn \ crossed', Follow(t)' # t
                 PROVE  new[Follow(t)'] < new[t]
      BY <1>22
    <2>1. CASE t \in gone
      <3> DEFINE x == chosenHeir(t)
      <3>1. /\ x \in Ref /\ Exists(x) /\ ref(t) \in Ref /\ ord[ref(t)] < ord[x]
        BY <1>7, <1>20, <2>1
      <3>2. x[1] \in Txn /\ x[1] \in Stored /\ ref(x[1]) = x
        BY <3>1 DEF Exists, Stored, ref, Ref
      <3>3. Follow(t)' = x[1]
        BY <1>11, <2>1
      <3>4. up(t) < up(x[1]) /\ up(t) \in 0..K /\ up(x[1]) \in 0..K
        BY <1>21, <3>1, <3>2
      <3> HIDE DEF x, up
      <3> QED BY <1>18, <2>1, <3>2, <3>3, <3>4
    <2>2. CASE t \notin gone /\ t \in Stored
      <3>1. t \notin crossed /\ t \in Stored'
        BY <1>1, <1>8, <2>2
      <3>2. Follow(t)' = Follow(t) /\ Follow(t) # t /\ Follow(t) \notin gone
        BY <1>9, <3>1
      <3>3. Follow(t) \in Stored /\ Follow(t) \in Txn
        BY <2>2, <3>2 DEF Follow, ShownInv, Inv, TypeOK, Stored
      <3>4. rk[Follow(t)] < rk[t]
        BY <1>18, <3>1, <3>2 DEF Falls
      <3> HIDE DEF up
      <3> QED BY <1>18, <2>2, <3>2, <3>3, <3>4
    <2>3. CASE t \notin gone /\ t \notin Stored
      <3>1. t \notin crossed /\ Follow(t)' = Follow(t)
        BY <1>1, <1>12, <2>3
      <3>2. rk[Follow(t)] < rk[t]
        BY <1>18, <3>1 DEF Falls
      <3>3. Follow(t) \in Txn
        BY DEF Follow, ShownInv, Inv, TypeOK, Stored
      <3>4. up(Follow(t)) \in 0..K
        BY <1>21, <3>3
      <3> HIDE DEF up
      <3> QED BY <1>18, <2>3, <3>1, <3>2, <3>3, <3>4
    <2> QED BY <2>1, <2>2, <2>3
  <1>24. Falls(nrk)'
    BY <1>23 DEF Falls
  <1>25. RankOK'
    <2>1. top \in Nat
      OBVIOUS
    <2> QED BY <1>22, <1>24, <2>1 DEF RankOK
  <1> QED BY <1>15, <1>16, <1>25 DEF ShownInv

-----------------------------------------------------------------------------
LEMMA NextShown == ShownInv /\ [Next]_vars => ShownInv'
  <1> SUFFICES ASSUME ShownInv, [Next]_vars PROVE ShownInv'
    OBVIOUS
  <1>1. Inv'
    BY NextInv DEF ShownInv
  <1>2. CASE UNCHANGED vars
    <2>1. UNCHANGED <<row, into, crossed, sync, review>>
      BY <1>2 DEF vars
    <2>2. OrderOK'
      BY <2>1 DEF ShownInv, OrderOK
    <2> QED BY <1>1, <2>1, <2>2, PlanningStep DEF ShownInv, KnownOK
  <1>3. CASE Next
    BY <1>1, <1>3, CategoryShownStep, FetchShown, StoreShown, ReadShown, MergeWriteShown,
       ResolveWriteShown, MarkReadShown, MarkWriteShown DEF Next
  <1> QED BY <1>2, <1>3

(***************************************************************************)
(* A transaction that was ever stored is shown, or a row that stands for   *)
(* it is, unless a row of the chain was replaced by one that had been      *)
(* hidden or deleted since it was read, or that it was tied with: for any  *)
(* number of concurrent syncs and reviews, and any names and dates.        *)
(***************************************************************************)
THEOREM StoredStaysShown == Spec => []NothingVanishes
  <1> QED BY InitShown, NextShown, RanksShow, PTL DEF Spec
-----------------------------------------------------------------------------
(***************************************************************************)
(* CategoryShown.                                                          *)
(*                                                                         *)
(* Up to the first row that crossed, every row of the chain of a chosen    *)
(* transaction has a category of its own: where a row is hidden, the one   *)
(* that stands for it is given its category in the same statement.         *)
(***************************************************************************)

\* The chain of a row up to the first row that crossed.
Until(t) ==
    {u \in Txn : \A C \in SUBSET Txn : t \in C /\ (\A v \in C \ crossed : Follow(v) \in C) => u \in C}

CategoryOK == chosen \subseteq Stored /\ \A t \in chosen : Until(t) \subseteq override

CategoryInv == ShownInv /\ CategoryOK

LEMMA UntilIsClosed ==
    ASSUME TypeOK, NEW t \in Txn
    PROVE  /\ t \in Until(t) /\ Until(t) \subseteq Txn /\ Until(t) \subseteq Chain(t)
           /\ \A v \in Until(t) \ crossed : Follow(v) \in Until(t)
  <1>1. t \in Until(t) /\ Until(t) \subseteq Txn
    BY DEF Until
  <1>2. Until(t) \subseteq Chain(t)
    BY DEF Until, Chain
  <1>3. ASSUME NEW v \in Until(t) \ crossed PROVE Follow(v) \in Until(t)
    <2>1. Follow(v) \in Txn
      BY <1>1 DEF Follow, TypeOK, Stored
    <2>2. ASSUME NEW C \in SUBSET Txn, t \in C, \A x \in C \ crossed : Follow(x) \in C
          PROVE  Follow(v) \in C
      BY <2>2 DEF Until
    <2> QED BY <2>1, <2>2 DEF Until
  <1> QED BY <1>1, <1>2, <1>3

\* What is closed holds the chain.
LEMMA UntilIsLeast ==
    ASSUME NEW t, NEW C \in SUBSET Txn, t \in C, \A v \in C \ crossed : Follow(v) \in C
    PROVE  Until(t) \subseteq C
  BY DEF Until

LEMMA UntilIsLeastNext ==
    ASSUME NEW t, NEW C \in SUBSET Txn, t \in C, \A v \in C \ crossed' : Follow(v)' \in C
    PROVE  Until(t)' \subseteq C
  BY DEF Until

LEMMA CategoriesShow == CategoryInv => CategoryShown
  <1> SUFFICES ASSUME CategoryInv, NEW t \in chosen, NEW u \in Chain(t), Chain(t) \cap crossed = {}
               PROVE  Custom(u)
    BY DEF CategoryShown
  <1>1. TypeOK /\ t \in Txn /\ Until(t) \subseteq override
    BY DEF CategoryInv, CategoryOK, ShownInv, Inv, Stored
  <1>2. /\ t \in Until(t) /\ Until(t) \in SUBSET Txn /\ Until(t) \subseteq Chain(t)
        /\ \A v \in Until(t) \ crossed : Follow(v) \in Until(t)
    BY <1>1, UntilIsClosed
  <1>3. \A v \in Until(t) : Follow(v) \in Until(t)
    BY <1>2
  <1>4. u \in Until(t)
    BY <1>2, <1>3 DEF Chain
  <1> QED BY <1>1, <1>4 DEF Custom

-----------------------------------------------------------------------------
\* What a step that moves no row does to the chains: nothing.
LEMMA StillChosen ==
    ASSUME CategoryInv, NEW t \in chosen,
           \A v \in Stored : Follow(v)' = Follow(v),
           crossed \cap Stored \subseteq crossed'
    PROVE  Until(t)' \subseteq Until(t)
  <1>1. TypeOK /\ t \in Txn /\ Until(t) \subseteq Stored
    BY DEF CategoryInv, CategoryOK, ShownInv, Inv, Stored, TypeOK
  <1>2. /\ t \in Until(t) /\ Until(t) \in SUBSET Txn
        /\ \A v \in Until(t) \ crossed : Follow(v) \in Until(t)
    BY <1>1, UntilIsClosed
  <1>3. \A v \in Until(t) \ crossed' : Follow(v)' \in Until(t)
    BY <1>1, <1>2
  <1> QED BY <1>2, <1>3, UntilIsLeastNext

LEMMA QuietCategories ==
    ASSUME CategoryInv, UNCHANGED <<row, into, crossed>>, chosen' \subseteq chosen,
           \A t \in chosen' : Until(t) \subseteq override'
    PROVE  CategoryOK'
  <1>1. Stored' = Stored
    BY DEF Stored
  <1>2. \A v \in Stored : Follow(v)' = Follow(v)
    BY <1>1 DEF Follow
  <1>3. \A t \in chosen' : Until(t)' \subseteq Until(t)
    BY <1>2, StillChosen
  <1> QED BY <1>1, <1>3 DEF CategoryOK, CategoryInv

LEMMA ReadCategories ==
    ASSUME CategoryInv, UNCHANGED <<row, override, into, crossed, chosen>>
    PROVE  CategoryOK'
  BY QuietCategories DEF CategoryInv, CategoryOK

LEMMA SetCategories == ASSUME CategoryInv, NEW t \in Txn, SetCategory(t) PROVE CategoryOK'
  <1>1. /\ t \in Stored /\ override' = override \cup {t}
        /\ chosen' = IF Shown(t) THEN chosen \cup {t} ELSE chosen
        /\ UNCHANGED <<row, into, crossed>>
    BY DEF SetCategory
  <1>2. Stored' = Stored
    BY <1>1 DEF Stored
  <1>3. \A v \in Stored : Follow(v)' = Follow(v)
    BY <1>1, <1>2 DEF Follow
  <1>4. ASSUME NEW c \in chosen' PROVE Until(c)' \subseteq override'
    <2>1. CASE c \in chosen
      <3>1. Until(c)' \subseteq Until(c)
        BY <1>1, <1>3, <2>1, StillChosen
      <3> QED BY <1>1, <2>1, <3>1 DEF CategoryInv, CategoryOK
    <2>2. CASE c \notin chosen
      <3>1. c = t /\ Shown(t)
        BY <1>1, <2>2
      <3>2. Follow(t)' = t
        BY <1>1, <1>3, <3>1 DEF Follow, Shown
      <3> DEFINE C == {t}
      <3>3. C \in SUBSET Txn /\ c \in C /\ \A v \in C \ crossed' : Follow(v)' \in C
        BY <3>1, <3>2
      <3>4. C \subseteq override'
        BY <1>1
      <3> HIDE DEF C
      <3>5. Until(c)' \subseteq C
        BY <3>3, UntilIsLeastNext
      <3> QED BY <3>4, <3>5
    <2> QED BY <2>1, <2>2
  <1> QED BY <1>1, <1>2, <1>4 DEF CategoryInv, CategoryOK

LEMMA RemoveCategories == ASSUME CategoryInv, NEW t \in Txn, RemoveCategory(t) PROVE CategoryOK'
  <1>1. /\ override' = override \ {t} /\ chosen' = chosen \ Behind(t)
        /\ UNCHANGED <<row, into, crossed>>
    BY DEF RemoveCategory
  <1>2. ASSUME NEW c \in chosen' PROVE Until(c) \subseteq override'
    <2>1. c \in chosen /\ c \in Txn /\ TypeOK /\ Until(c) \subseteq override
      BY <1>1 DEF CategoryInv, CategoryOK, ShownInv, Inv, Stored
    <2>2. t \notin Until(c)
      BY <1>1, <2>1, UntilIsClosed DEF Behind
    <2> QED BY <1>1, <2>1, <2>2
  <1> QED BY <1>1, <1>2, QuietCategories

LEMMA StoreCategories == ASSUME CategoryInv, NEW s \in Syncer, SyncStore(s) PROVE CategoryOK'
  <1>1. PICK b \in sync[s].batch :
          /\ UpsertTransaction(b)
          /\ crossed' = IF b.txn \in Stored THEN crossed ELSE crossed \ {b.txn}
    BY DEF SyncStore
  <1>2. UNCHANGED <<override, into, chosen>>
    BY DEF SyncStore
  <1>3. b.txn \in Txn /\ TypeOK
    BY DEF CategoryInv, ShownInv, Inv, TypeOK, Fetched
  <1>4. \A v \in Stored : v \in Stored' /\ row'[v].dup = row[v].dup
    <2> TAKE v \in Stored
    <2>1. row[v] \in Row /\ v \in Txn
      BY <1>3 DEF TypeOK, Stored
    <2>2. row'[v] = IF v = b.txn THEN [row[v] EXCEPT !.key = b.key, !.pending = b.pending] ELSE row[v]
      BY <1>1, <1>3, <2>1 DEF UpsertTransaction, TypeOK
    <2>3. b \in Fetched
      BY DEF CategoryInv, ShownInv, Inv, TypeOK
    <2>4. row'[v] \in Row /\ row'[v].dup = row[v].dup
      BY <2>1, <2>2, <2>3 DEF Row, Fetched
    <2> QED BY <2>1, <2>4 DEF Stored
  <1>5. \A v \in Stored : Follow(v)' = Follow(v)
    BY <1>4 DEF Follow
  <1>6. crossed \cap Stored \subseteq crossed'
    BY <1>1
  <1>7. \A t \in chosen : Until(t)' \subseteq Until(t)
    BY <1>5, <1>6, StillChosen
  <1> QED BY <1>2, <1>4, <1>7 DEF CategoryInv, CategoryOK

-----------------------------------------------------------------------------
\* A row that is hidden gives its category to the one that stands for it.
LEMMA HideCategories ==
    ASSUME CategoryInv, NEW plan, Proper(plan), Disjoint(plan), Hide(plan), UNCHANGED into
    PROVE  CategoryOK'
  <1> DEFINE live == {p \in plan.pairs : Exists(p[1])}
             hidden == {p[1][1] : p \in live}
             canonical(t) == (CHOOSE p \in live : p[1][1] = t)[2][1]
             unmoved == (hidden \cap override) \ plan.moved
  <1>1. /\ \A p \in live : Exists(p[2])
        /\ row' = [t \in Txn |->
             IF t \in hidden THEN [row[t] EXCEPT !.dup = canonical(t)] ELSE row[t]]
        /\ override' = override \cup {x[1] : x \in Receiving(live, plan.moved)}
        /\ crossed' = (crossed \ hidden) \cup {t \in hidden : ~Shown(canonical(t))}
        /\ chosen' = chosen \ UNION {Behind(t) : t \in unmoved}
    BY DEF Hide
  <1>2. hidden \subseteq Stored
    BY DEF Exists
  <1>3. ASSUME NEW t \in hidden
        PROVE  /\ canonical(t) \in Stored \ hidden
               /\ t \in plan.moved => canonical(t) \in override'
    <2>1. \E p \in live : p[1][1] = t
      OBVIOUS
    <2> DEFINE p == CHOOSE p \in live : p[1][1] = t
    <2>2. p \in live /\ p[1][1] = t /\ canonical(t) = p[2][1]
      BY <2>1
    <2> HIDE DEF p
    <2>3. canonical(t) \in Stored \ hidden
      BY <1>1, <2>2 DEF Disjoint, Exists
    <2>4. t \in plan.moved => p[2] \in Receiving(live, plan.moved)
      BY <2>2 DEF Receiving
    <2>5. t \in plan.moved => p[2][1] \in override'
      BY <1>1, <2>4
    <2> QED BY <2>2, <2>3, <2>5
  <1> HIDE DEF live, hidden, canonical
  <1>4. \A t \in Stored : row[t] \in Row /\ t \in Txn
    BY DEF CategoryInv, ShownInv, Inv, TypeOK, Stored
  <1>5. \A t \in Txn : /\ t \in hidden => row'[t].dup = canonical(t)
                       /\ t \notin hidden => row'[t] = row[t]
    BY <1>1, <1>2, <1>4 DEF Row
  <1>6. Stored' = Stored
    BY <1>1, <1>2, <1>3, <1>4 DEF CategoryInv, ShownInv, Inv, TypeOK, Stored, Row
  <1>7. \A t \in hidden : Follow(t)' = canonical(t)
    <2>1. NoTxn \notin Txn
      OBVIOUS
    <2> QED BY <1>2, <1>3, <1>4, <1>5, <1>6, <2>1 DEF Follow
  <1>8. \A t \in Txn \ hidden : Follow(t)' = Follow(t)
    BY <1>5, <1>6 DEF Follow
  <1>9. ASSUME NEW c \in chosen' PROVE Until(c)' \subseteq override'
    <2>1. c \in chosen /\ c \in Txn /\ TypeOK /\ Until(c) \subseteq override
      BY <1>1 DEF CategoryInv, CategoryOK, ShownInv, Inv, Stored
    <2>2. /\ c \in Until(c) /\ Until(c) \subseteq Txn /\ Until(c) \subseteq Chain(c)
          /\ \A v \in Until(c) \ crossed : Follow(v) \in Until(c)
      BY <2>1, UntilIsClosed
    <2>3. \A t \in Until(c) \cap hidden : t \in plan.moved
      BY <1>1, <2>1, <2>2 DEF Behind
    <2> DEFINE heirs == {canonical(t) : t \in (Until(c) \cap hidden) \ crossed'}
               C == Until(c) \cup heirs
    <2>4. \A v \in heirs : v \in Stored \ hidden /\ v \in override' /\ Shown(v)
      BY <1>1, <1>3, <2>3
    <2>5. \A t \in (Until(c) \cap hidden) \ crossed' : canonical(t) \in heirs
      OBVIOUS
    <2> HIDE DEF heirs
    <2>6. C \in SUBSET Txn /\ c \in C /\ C \subseteq override'
      BY <1>1, <1>4, <2>1, <2>2, <2>4
    <2>7. ASSUME NEW v \in C \ crossed' PROVE Follow(v)' \in C
      <3>1. CASE v \in Until(c) /\ v \in hidden
        BY <1>7, <2>5, <3>1
      <3>2. CASE v \in Until(c) /\ v \notin hidden
        BY <1>1, <1>8, <2>2, <3>2
      <3>3. CASE v \in heirs
        <4>1. Follow(v) = v
          BY <2>4, <3>3 DEF Follow, Shown
        <4> QED BY <1>4, <1>8, <2>4, <3>3, <4>1
      <3> QED BY <3>1, <3>2, <3>3
    <2> HIDE DEF C
    <2>8. Until(c)' \subseteq C
      BY <2>6, <2>7, UntilIsLeastNext
    <2> QED BY <2>6, <2>8
  <1>10. chosen' \subseteq Stored'
    BY <1>1, <1>6 DEF CategoryInv, CategoryOK
  <1> QED BY <1>9, <1>10 DEF CategoryOK

\* A row that is released keeps its category, and a row that another one was
\* merged into gets it.
LEMMA MergeCategories ==
    ASSUME CategoryInv, NEW s \in Syncer, SyncMergeWrite(s)
    PROVE  CategoryOK'
  <1> DEFINE plan == sync[s].plan
             live == {p \in plan.pairs : Exists(p[1])}
             gone == {p[1][1] : p \in live}
             heirs(t) == {p[2] : p \in {q \in live : q[1][1] = t}}
             good(t) == {x \in heirs(t) : Exists(x) /\ <<ref(t), x>> \notin plan.tied}
             receiving == Receiving(plan.pairs, plan.moved)
             added == {u \in Txn \ gone : Shown(u) /\ \E t \in gone \cap chosen \cap plan.moved :
                                            \E x \in heirs(t) : x[1] = u}
  <1>1. /\ row' = Without(gone)
        /\ override' = (override \cup {x[1] : x \in receiving}) \ gone
        /\ crossed' = (crossed \ gone) \cup {t \in gone : good(t) = {}}
        /\ chosen' = (chosen \ gone) \cup added
    BY DEF SyncMergeWrite
  <1>2. gone \subseteq Stored /\ gone \subseteq Txn
    BY DEF Exists, Stored
  <1>3. \A u \in added : u \in Stored \ gone /\ Shown(u) /\ u \in override'
    <2> TAKE u \in added
    <2>1. u \in Txn \ gone /\ Shown(u)
      OBVIOUS
    <2>a. PICK t \in gone \cap chosen \cap plan.moved : \E x \in heirs(t) : x[1] = u
      OBVIOUS
    <2>2. PICK x \in heirs(t) : x[1] = u
      BY <2>a
    <2>3. PICK p \in live : p[1][1] = t /\ p[2] = x
      OBVIOUS
    <2>4. x \in receiving
      BY <2>a, <2>2, <2>3 DEF Receiving
    <2>5. u \in override'
      BY <1>1, <2>1, <2>2, <2>4
    <2> QED BY <2>1, <2>5 DEF Shown
  <1> HIDE DEF heirs, good, live, gone, receiving, added, plan
  <1>4. \A t \in Stored : row[t] \in Row /\ t \in Txn
    BY DEF CategoryInv, ShownInv, Inv, TypeOK, Stored
  <1>5. Stored' = Stored \ gone /\ \A t \in Stored' : /\ row'[t].dup \in {row[t].dup, NoTxn}
                                                      /\ row'[t].dup \notin gone
    <2>1. \A t \in Txn : row'[t] =
             IF t \in gone THEN NoRow
             ELSE IF t \in Stored /\ row[t].dup \in gone
                  THEN [row[t] EXCEPT !.dup = NoTxn] ELSE row[t]
      BY <1>1 DEF Without
    <2>2. \A t \in Stored : /\ t \in Txn /\ row[t] # NoRow
                            /\ [row[t] EXCEPT !.dup = NoTxn] # NoRow
                            /\ [row[t] EXCEPT !.dup = NoTxn].dup = NoTxn
      <3>1. \A x \in Row : [x EXCEPT !.dup = NoTxn] \in Row /\ [x EXCEPT !.dup = NoTxn].dup = NoTxn
        BY DEF Row
      <3> QED BY <1>4, <3>1 DEF Stored
    <2>3. Stored' = Stored \ gone
      BY <2>1, <2>2 DEF Stored
    <2>4. NoTxn \notin gone
      BY <1>2
    <2> QED BY <2>1, <2>2, <2>3, <2>4
  <1>6. \A t \in Stored' : Follow(t)' \notin gone /\ Follow(t)' \in {Follow(t), t}
    BY <1>5 DEF Follow
  <1>7. ASSUME NEW c \in chosen' PROVE Until(c)' \subseteq override'
    <2>1. CASE c \in chosen \ gone
      <3> DEFINE C == Until(c) \ gone
      <3>1. c \in Txn /\ TypeOK /\ Until(c) \subseteq override /\ Until(c) \subseteq Stored
        BY <2>1 DEF CategoryInv, CategoryOK, ShownInv, Inv, Stored, TypeOK
      <3>2. /\ c \in Until(c) /\ Until(c) \subseteq Txn
            /\ \A v \in Until(c) \ crossed : Follow(v) \in Until(c)
        BY <3>1, UntilIsClosed
      <3>3. C \in SUBSET Txn /\ c \in C /\ C \subseteq override'
        BY <1>1, <2>1, <3>1, <3>2
      <3>4. ASSUME NEW v \in C \ crossed' PROVE Follow(v)' \in C
        <4>1. v \in Stored' /\ v \notin crossed
          BY <1>1, <1>5, <3>1
        <4> QED BY <1>6, <3>2, <4>1
      <3> HIDE DEF C
      <3>5. Until(c)' \subseteq C
        BY <3>3, <3>4, UntilIsLeastNext
      <3> QED BY <3>3, <3>5
    <2>2. CASE c \in added
      <3> DEFINE C == {c}
      <3>1. c \in Stored \ gone /\ Shown(c) /\ c \in override' /\ c \in Txn
        BY <1>3, <1>4, <2>2
      <3>2. Follow(c)' = c
        BY <1>5, <1>6, <3>1 DEF Follow, Shown
      <3>3. C \in SUBSET Txn /\ c \in C /\ C \subseteq override' /\ \A v \in C \ crossed' : Follow(v)' \in C
        BY <3>1, <3>2
      <3> HIDE DEF C
      <3>4. Until(c)' \subseteq C
        BY <3>3, UntilIsLeastNext
      <3> QED BY <3>3, <3>4
    <2> QED BY <1>1, <2>1, <2>2
  <1>8. chosen' \subseteq Stored'
    BY <1>1, <1>3, <1>5 DEF CategoryInv, CategoryOK
  <1> QED BY <1>7, <1>8 DEF CategoryOK

-----------------------------------------------------------------------------
LEMMA NextCategories == CategoryInv /\ [Next]_vars => CategoryInv'
  <1> SUFFICES ASSUME CategoryInv, [Next]_vars PROVE CategoryInv'
    OBVIOUS
  <1>1. ShownInv'
    BY NextShown DEF CategoryInv
  <1>2. CASE UNCHANGED vars
    BY <1>1, <1>2, ReadCategories DEF vars, CategoryInv
  <1>3. CASE Next
    <2>1. ASSUME NEW t \in Txn, SetCategory(t) \/ RemoveCategory(t) PROVE CategoryOK'
      BY <2>1, SetCategories, RemoveCategories
    <2>2. ASSUME NEW s \in Syncer, \/ SyncFetch(s) \/ SyncMergeRead(s) \/ SyncMergeFails(s)
                                   \/ SyncResolveRead(s) \/ SyncResolveFails(s)
          PROVE  CategoryOK'
      <3>1. UNCHANGED <<row, override, into, crossed, chosen>>
        BY <2>2 DEF SyncFetch, SyncMergeRead, SyncMergeFails, SyncResolveRead, SyncResolveFails
      <3> QED BY <3>1, ReadCategories
    <2>3. ASSUME NEW s \in Syncer, SyncStore(s) \/ SyncMergeWrite(s) PROVE CategoryOK'
      BY <2>3, StoreCategories, MergeCategories
    <2>4. ASSUME NEW s \in Syncer, SyncResolveWrite(s) PROVE CategoryOK'
      <3>1. Proper(sync[s].plan) /\ Disjoint(sync[s].plan) /\ Hide(sync[s].plan) /\ UNCHANGED into
        BY <2>4 DEF SyncResolveWrite, CategoryInv, ShownInv, Inv, PlansOK, OrderOK
      <3> QED BY <3>1, HideCategories
    <2>5. ASSUME NEW r \in Reviewer, MarkWrite(r) PROVE CategoryOK'
      <3>1. Proper(review[r]) /\ Disjoint(review[r]) /\ Hide(review[r]) /\ UNCHANGED into
        BY <2>5 DEF MarkWrite, CategoryInv, ShownInv, Inv, PlansOK, OrderOK
      <3> QED BY <3>1, HideCategories
    <2>6. ASSUME NEW r \in Reviewer, (\E t \in Txn : MarkRead(r, t)) \/ MarkFails(r) PROVE CategoryOK'
      <3>1. UNCHANGED <<row, override, into, crossed, chosen>>
        BY <2>6 DEF MarkRead, MarkFails
      <3> QED BY <3>1, ReadCategories
    <2> QED BY <1>1, <1>3, <2>1, <2>2, <2>3, <2>4, <2>5, <2>6 DEF Next, CategoryInv
  <1> QED BY <1>2, <1>3

(***************************************************************************)
(* A category the user gave is shown on the row that stands for the        *)
(* transaction, but behind a row that crossed, for any number of           *)
(* concurrent syncs and reviews.                                           *)
(***************************************************************************)
THEOREM CategoriesStayShown == Spec => []CategoryShown
  <1>1. Init => CategoryInv
    BY InitShown DEF Init, CategoryInv, CategoryOK
  <1> QED BY <1>1, NextCategories, CategoriesShow, PTL DEF Spec
=============================================================================
