---------------------------- MODULE MCBankLinks -----------------------------
(* The accounts page with Plaid's banks or with Teller's: "screen" says of   *)
(* which provider its user is.                                               *)
EXTENDS PlaidLinks, TellerLinks

VARIABLE screen
linksVars == <<screen, banksVars, plaidVars, tellerVars>>

OnPlaid == screen = "plaid" /\ UNCHANGED <<screen, tellerVars>>
OnTeller == screen = "teller" /\ UNCHANGED <<screen, plaidVars>>
LinksInit == \/ screen = "plaid" /\ PlaidInit /\ TellerParts
             \/ screen = "teller" /\ TellerInit /\ PlaidParts
LinksNext == (PlaidNext /\ OnPlaid) \/ (TellerNext /\ OnTeller)

(* The fairness of either, whose screens exclude one another.                *)
LinksFairness ==
    /\ WF_linksVars((LinkReady /\ OnPlaid) \/ (RetryReached /\ OnTeller))
    /\ WF_linksVars((PlaidReached /\ OnPlaid) \/ (RetryHandled /\ OnTeller))
    /\ WF_linksVars((PlaidHandled /\ OnPlaid) \/ (SomeTimerFires /\ OnTeller))
LinksSpec == LinksInit /\ [][LinksNext]_linksVars /\ LinksFairness
=============================================================================
