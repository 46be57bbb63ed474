---------------------------- MODULE LatestAnswer ----------------------------
(***************************************************************************)
(* What a hook that drops late answers promises the page: it never puts an *)
(* answer in place of what is shown but that to the question now asked.    *)
(***************************************************************************)
CONSTANT Nothing

VARIABLES wanted, shown

Init == shown = Nothing

\* Another question; what is shown stays until it is answered, unless
\* nothing is asked.
Ask ==
    /\ wanted' # wanted
    /\ shown' = shown \/ (wanted' = Nothing /\ shown' = Nothing)

\* The answer, or an error that empties the page.
Answer == shown' \in {wanted, Nothing} /\ UNCHANGED wanted

Next == Ask \/ Answer

Spec == Init /\ [][Next]_<<wanted, shown>>
=============================================================================
