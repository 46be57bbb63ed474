-------------------------- MODULE SessionLifecycle --------------------------
(***************************************************************************)
(* What the back end promises of a session, whatever requests race: a JWT  *)
(* id opens once and, when it is over, never opens again.                  *)
(***************************************************************************)
CONSTANT Jti

VARIABLE status

Init == status = [j \in Jti |-> "new"]

Open(j) ==
    /\ status[j] = "new"
    /\ status' = [status EXCEPT ![j] = "open"]

\* Sessions end by a request, by time, several at once, or without opening.
End(S) ==
    /\ S # {} /\ \A j \in S : status[j] # "over"
    /\ status' = [j \in Jti |-> IF j \in S THEN "over" ELSE status[j]]

Next == (\E j \in Jti : Open(j)) \/ (\E S \in SUBSET Jti : End(S))

Spec == Init /\ [][Next]_status
=============================================================================
