-------------------------- MODULE MCConnectionSync --------------------------
(***************************************************************************)
(* Instances of ConnectionSync for TLC.                                    *)
(***************************************************************************)
EXTENDS ConnectionSync, TLC

\* One item: an old transaction the first window reaches and a late one.
CONSTANTS i1, i2, t1, t2, s1

OneItemTxnItem == (t1 :> i1) @@ (t2 :> i1)
OneItemTxnDate == (t1 :> 0) @@ (t2 :> 1)
TwoItemTxnItem == (t1 :> i1) @@ (t2 :> i2)
TwoItemTxnDate == (t1 :> 0) @@ (t2 :> 0)

Uuids == Permutations(ConnId) \cup Permutations(AcctId) \cup Permutations(Syncer)

(***************************************************************************)
(* The system after every item was linked once, by a link that reached its *)
(* first save: instances without linkers start here.                       *)
(***************************************************************************)
LinkedInit ==
    /\ \E ids \in [Item -> ConnId] :
          /\ \A i, j \in Item : i # j => ids[i] # ids[j]
          /\ conn = [i \in Item |-> [id |-> ids[i], lastSync |-> Never,
                                     status |-> "connected"]]
    /\ cred = Item
    /\ now = 0
    /\ postedOn = [t \in Txn |-> Never]
    /\ account = [i \in Item |-> NoAcct]
    /\ stored = {}
    /\ tokenCache = {}
    /\ sync = [p \in Syncer |-> SyncIdle]
    /\ link = [l \in Linker |-> LinkIdle]
    /\ unlink = [r \in Remover |-> UnlinkIdle]
    /\ lost = {} /\ alone = {} /\ removed = {} /\ gone = {}

(***************************************************************************)
(* Bound of the instance with one Teller and one Plaid item: one of them   *)
(* is in use at a time, Teller's over all days and by one session, Plaid's *)
(* on the first day and by any session.                                    *)
(***************************************************************************)
InUse(i) ==
    \/ Linked(i) \/ i \in cred \cup removed \cup gone \/ account[i] # NoAcct
    \/ \E t \in TxnsOf(i) : postedOn[t] # Never
    \/ \E p \in Syncer : sync[p].item = i \/ sync[p].snap[i] # NoRow
    \/ \E l \in Linker : link[l].item = i
    \/ \E r \in Remover : unlink[r].item = i
    \/ \E s \in Session : <<s, i>> \in tokenCache
OneItemInUse ==
    /\ InUse(i2) => ~InUse(i1) /\ now = 0
    /\ InUse(i1) => /\ \A l \in Linker : link[l].session = s1
                    /\ \A r \in Remover : unlink[r].session = s1
                    /\ \A x \in tokenCache : x[1] = s1

LinkedSpec == LinkedInit /\ [][Next]_vars
LinkedFairSpec == LinkedSpec /\ \A p \in Syncer : WF_vars(SyncProgress(p))
=============================================================================
