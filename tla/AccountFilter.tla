--------------------------- MODULE AccountFilter ----------------------------
(* The account filter of the header: the context that every page reads its   *)
(* accounts from (useAccountFilter) and the popover that changes it          *)
(* (HeaderAccountFilter).  The list is fetched when the application opens    *)
(* and again at every "accounts changed" event; fetches are not ordered.     *)
EXTENDS Naturals, FiniteSets

CONSTANTS
    Accounts,       \* the accounts that may be held
    Institutions, BankOf,  \* the bank of each
    MaxChanges      \* how often the accounts, the filter or the period change

ASSUME BankAssumption == /\ BankOf \in [Accounts -> Institutions] /\ IsFiniteSet(Accounts)
                         /\ MaxChanges \in Nat

VARIABLES
    held,         \* the accounts the server would list
    accounts,       \* the context's list
    selected,       \* selectedAccountIds
    accountsLoading,
    fetches,        \* the lists being fetched: when each was asked for, what it says
    changes         \* how many changes there have been

filterVars == <<held, accounts, selected, accountsLoading, fetches, changes>>

isAllAccountsSelected == accounts # {} /\ selected = accounts
NoneSelected == accounts # {} /\ selected = {}
OfBank(bank) == {a \in accounts : BankOf[a] = bank}
Counted == changes < MaxChanges /\ changes' = changes + 1

(* fetchAccounts, its first half and its request reaching the server.        *)
Asked(f) == [at |-> f, read |-> FALSE, got |-> {}]
Fetch == /\ accountsLoading' = TRUE
         /\ fetches' = fetches \cup {Asked(changes + 1)}
FetchReads(f) ==
    /\ f \in fetches /\ ~f.read
    /\ fetches' = (fetches \ {f}) \cup {[f EXCEPT !.read = TRUE, !.got = held]}
    /\ UNCHANGED <<held, accounts, selected, accountsLoading, changes>>

(* The new selection: everything when nothing or everything was selected,    *)
(* else what is left of it and every account that was not listed before.     *)
\* Mutant: a new list selects everything.
ReselectedAll(new) == new
Reselected(new) ==
    IF selected = {} \/ isAllAccountsSelected THEN new
    ELSE (selected \cap new) \cup (new \ accounts)
FetchAnswered(f) ==
    /\ f \in fetches /\ f.read
    /\ accounts' = f.got
    /\ selected' = Reselected(f.got)
    /\ accountsLoading' = FALSE
    /\ fetches' = fetches \ {f}
    /\ UNCHANGED <<held, changes>>
FetchFails(f) ==
    /\ f \in fetches
    /\ accounts' = {} /\ selected' = {} /\ accountsLoading' = FALSE
    /\ fetches' = fetches \ {f}
    /\ UNCHANGED <<held, changes>>

(* An account is linked or removed, and the event sent.                      *)
AccountsChange(a) ==
    /\ Counted
    /\ held' = IF a \in held THEN held \ {a} ELSE held \cup {a}
    /\ Fetch
    /\ UNCHANGED <<accounts, selected>>

(* The popover, which offers the boxes only once the list is there.          *)
SetsSelection(set) == /\ Counted /\ ~accountsLoading
                /\ selected' = set
                /\ UNCHANGED <<held, accounts, accountsLoading, fetches>>
ToggleAccount(a) ==
    a \in accounts /\ SetsSelection(IF a \in selected THEN selected \ {a} ELSE selected \cup {a})
ToggleBank(bank) ==
    /\ OfBank(bank) # {}
    /\ SetsSelection(IF OfBank(bank) \subseteq selected THEN selected \ OfBank(bank)
               ELSE selected \cup OfBank(bank))
SelectAll == accounts # {} /\ ~isAllAccountsSelected /\ SetsSelection(accounts)

FilterTypeOK ==
    /\ held \subseteq Accounts /\ accounts \subseteq Accounts /\ selected \subseteq Accounts
    /\ accountsLoading \in BOOLEAN /\ changes \in 0 .. MaxChanges
    /\ fetches \subseteq [at : 0 .. MaxChanges, read : BOOLEAN, got : SUBSET Accounts]

FilterInit == /\ held \in SUBSET Accounts
              /\ accounts = {} /\ selected = {} /\ changes = 0
              /\ accountsLoading = TRUE /\ fetches = {Asked(0)}
-----------------------------------------------------------------------------
(* A list never selects again an account that was listed and left out, as    *)
(* long as any other was selected.                                           *)
KeepsLeftOut ==
    [][\A a \in (accounts \cap accounts') \ selected :
            a \in selected' /\ selected # {} => fetches' = fetches]_filterVars
=============================================================================
