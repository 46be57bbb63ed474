------------------------ MODULE MCTransactionDedup -------------------------
(***************************************************************************)
(* Instances of TransactionDedup for TLC.  The text of the merchant keys   *)
(* has two letters.                                                        *)
(***************************************************************************)
EXTENDS TransactionDedup, TLC

CONSTANTS t1, t2, t3

Long == <<1, 2>>
Short == <<1, 1>>
Other == <<2, 2>>
MCKey == {Long, Short, Other}

\* A transaction reported pending under a long name, and posted under a short one
\* by another id; a posted one of another day.
said(d, k, p) == [date |-> d, key |-> k, pending |-> p]
MCReport ==
    (t1 :> {said(0, Long, TRUE), said(0, Short, FALSE)}) @@
    (t2 :> {said(0, Short, FALSE)}) @@
    (t3 :> {said(1, Other, FALSE)})

Reviews == Permutations(Reviewer)
=============================================================================
