--------------------------- MODULE ManualAccounts ---------------------------
(* The accounts a user keeps by hand on the accounts page: investments, in   *)
(* any currency but stored in dollars, and property with its loans.  Each    *)
(* kind has a form that adds or edits, and a list; one read fills both lists *)
(* and tells the page's header, which refreshes the display currency.        *)
EXTENDS DisplayCurrency, FiniteSetsExt

CONSTANTS
    Ids, NoAccount, Balances,
    UsdRate,                \* dollars for one unit of each currency
    MaxSaves                \* bound: saves and deletions

ASSUME ManualAssumption ==
    /\ NoAccount \notin Ids /\ Balances \subseteq Nat /\ MaxSaves \in Nat
    /\ "none" \notin Currencies
    /\ UsdRate \in [Currencies -> Nat \ {0}] /\ UsdRate["USD"] = 1

ManualKinds == {"investment", "property"}

VARIABLES
    kept,                   \* server: the manual accounts, [id, kind, amount]
    used,                   \* server: ids given out
    listed,                 \* the page's lists
    manualForm, editing,    \* by kind: [amount, currency], and the account being edited
    conversion, rateAsked, manualRateError,     \* the investment form's rate, and its request
    saving,                 \* by kind: its flag
    saves, saveCount,       \* saves and deletions under way
    listUnsure              \* history: the last read failed or crossed another

formVars == <<manualForm, editing, conversion, rateAsked, manualRateError>>
manualVars == <<kept, used, listed, formVars, saving, saves, saveCount, listUnsure>>
manualAccountsVars == <<manualVars, currencyVars>>

EmptyForm == [amount |-> 0, currency |-> "USD"]
NoRequest == "none"

(* The form: its amount, and for an investment its currency, whose rate is   *)
(* asked for when it changes; the answer of an older choice is ignored.      *)
\* Mutant: the rate is not asked for again.
SetsFormOnly(k, f) ==
    manualForm' = [manualForm EXCEPT ![k] = f] /\ UNCHANGED <<rateAsked, manualRateError>>
SetsForm(k, f) ==
    /\ manualForm' = [manualForm EXCEPT ![k] = f]
    /\ IF f.currency = manualForm[k].currency
       THEN UNCHANGED <<rateAsked, manualRateError>>
       ELSE rateAsked' = f.currency /\ manualRateError' = FALSE
resetManualForm(k) ==
    /\ editing' = [editing EXCEPT ![k] = NoAccount] /\ SetsForm(k, EmptyForm)
    /\ conversion' = IF k = "investment" THEN 1 ELSE conversion
TypesAmount(k, a) ==
    /\ SetsForm(k, [manualForm[k] EXCEPT !.amount = a]) /\ manualForm' # manualForm
    /\ UNCHANGED <<kept, used, listed, editing, conversion, saving, saves, saveCount, listUnsure,
                   currencyVars>>
ChoosesCurrency(c) ==
    /\ SetsForm("investment", [manualForm["investment"] EXCEPT !.currency = c])
    /\ manualForm' # manualForm
    /\ UNCHANGED <<kept, used, listed, editing, conversion, saving, saves, saveCount, listUnsure,
                   currencyVars>>
FormRateArrives ==
    /\ rateAsked # NoRequest /\ rateAsked' = NoRequest /\ conversion' = UsdRate[rateAsked]
    /\ UNCHANGED <<kept, used, listed, manualForm, editing, manualRateError, saving, saves,
                   saveCount, listUnsure, currencyVars>>
FormRateFails ==
    /\ rateAsked \notin {NoRequest, "USD"} /\ rateAsked' = NoRequest /\ manualRateError' = TRUE
    /\ UNCHANGED <<kept, used, listed, manualForm, editing, conversion, saving, saves, saveCount,
                   listUnsure, currencyVars>>
editManual(a) ==
    /\ a \in listed /\ editing' = [editing EXCEPT ![a.kind] = a.id]
    /\ SetsForm(a.kind, [amount |-> a.amount, currency |-> "USD"])
    /\ conversion' = IF a.kind = "investment" THEN 1 ELSE conversion
    /\ UNCHANGED <<kept, used, listed, saving, saves, saveCount, listUnsure, currencyVars>>
CancelEdit(k) ==
    /\ editing[k] # NoAccount /\ resetManualForm(k)
    /\ UNCHANGED <<kept, used, listed, saving, saves, saveCount, listUnsure, currencyVars>>

(* Add or Update: the button waits for a save of its kind and for the rate.  *)
StartsCall(e) ==
    /\ saveCount < MaxSaves /\ saveCount' = saveCount + 1 /\ saves' = saves \cup {e}
    /\ saving' = [saving EXCEPT ![e.kind] = TRUE]
Save(op, k, id, amount) ==
    [no |-> saveCount, op |-> op, kind |-> k, id |-> id, amount |-> amount,
     closes |-> op # "delete" \/ editing[k] = id, step |-> op, phase |-> "sent", got |-> {},
     alone |-> TRUE]
saveManual(k) ==
    /\ ~saving[k] /\ manualForm[k].amount > 0
    /\ k = "investment" => rateAsked = NoRequest /\ ~manualRateError
    /\ StartsCall(Save(IF editing[k] = NoAccount THEN "create" ELSE "update", k, editing[k],
                   manualForm[k].amount * (IF k = "investment" THEN conversion ELSE 1)))
    /\ UNCHANGED <<kept, used, listed, formVars, listUnsure, currencyVars>>
deleteManual(a) ==
    /\ a \in listed /\ StartsCall(Save("delete", a.kind, a.id, a.amount))
    /\ UNCHANGED <<kept, used, listed, formVars, listUnsure, currencyVars>>

(* The server does the call, or it fails before or after.                    *)
Read == {e \in saves : e.step = "load" /\ e.phase = "done"}
Crossed(E) == {[e EXCEPT !.alone = FALSE] : e \in E}
Turns(e, new) == saves' = (saves \ {e}) \cup {new}
SaveReached(e) ==
    /\ e \in saves /\ e.phase = "sent"
    /\ CASE e.step = "load" ->
              /\ saves' = (saves \ (Read \cup {e})) \cup Crossed(Read) \cup
                          {[e EXCEPT !.phase = "done", !.got = kept, !.alone = Read = {}]}
              /\ UNCHANGED <<kept, used>>
         [] e.step = "create" ->
              \E id \in Ids \ used :
                 /\ kept' = kept \cup {[id |-> id, kind |-> e.kind, amount |-> e.amount]}
                 /\ used' = used \cup {id} /\ Turns(e, [e EXCEPT !.phase = "done"])
         [] OTHER ->
              LET mine == {a \in kept : a.id = e.id}
              IN /\ kept' = (kept \ mine) \cup
                            (IF e.step = "update" THEN {[a EXCEPT !.amount = e.amount] : a \in mine} ELSE {})
                 /\ Turns(e, [e EXCEPT !.phase = IF mine = {} THEN "failed" ELSE "done"])
                 /\ UNCHANGED used
    /\ UNCHANGED <<listed, formVars, saving, saveCount, listUnsure, currencyVars>>
SaveBreaks(e) ==
    LET lost == e.phase = "done" /\ e.step # "load"
    IN /\ e \in saves /\ e.phase \in {"sent", "done"}
       /\ saves' = (saves \ (Read \cup {e})) \cup
                   (IF lost \/ e.step = "load" THEN Crossed(Read \ {e}) ELSE Read \ {e}) \cup
                   {[e EXCEPT !.phase = "failed"]}
       /\ listUnsure' = (listUnsure \/ lost)
       /\ UNCHANGED <<kept, used, listed, formVars, saving, saveCount, currencyVars>>

(* A save closes the form of its kind, whatever it holds by then; a deletion *)
(* does so when the account was being edited as it began.  Both read the     *)
(* lists, empty when that fails, then clear the flag, whoever set it.        *)
\* Mutant: the lists are not read again.
SavedUnseen(e) ==
    /\ e \in saves /\ e.step # "load" /\ e.phase = "done" /\ saves' = saves \ {e}
    /\ saving' = [saving EXCEPT ![e.kind] = FALSE]
    /\ IF e.closes THEN resetManualForm(e.kind) ELSE UNCHANGED formVars
    /\ UNCHANGED <<kept, used, listed, saveCount, listUnsure, currencyVars>>
Saved(e) ==
    /\ e \in saves /\ e.step # "load" /\ e.phase = "done"
    /\ Turns(e, [e EXCEPT !.step = "load", !.phase = "sent"])
    /\ IF e.closes THEN resetManualForm(e.kind) ELSE UNCHANGED formVars
    /\ UNCHANGED <<kept, used, listed, saving, saveCount, listUnsure, currencyVars>>
SaveFails(e) ==
    /\ e \in saves /\ e.step # "load" /\ e.phase = "failed" /\ saves' = saves \ {e}
    /\ saving' = [saving EXCEPT ![e.kind] = FALSE]
    /\ UNCHANGED <<kept, used, listed, formVars, saveCount, listUnsure, currencyVars>>
ListsShown(e) ==
    /\ e \in saves /\ e.step = "load" /\ e.phase \in {"done", "failed"} /\ saves' = saves \ {e}
    /\ listed' = e.got /\ listUnsure' = ~(e.phase = "done" /\ e.alone)
    /\ IF e.op = "page" THEN UNCHANGED <<saving, currencyVars>>
       ELSE /\ saving' = [saving EXCEPT ![e.kind] = FALSE]
            /\ AccountsChanged
    /\ UNCHANGED <<kept, used, formVars, saveCount>>

ManualInit ==
    /\ kept \in {{}} \cup {{[id |-> i, kind |-> k, amount |-> a]} : i \in Ids, k \in ManualKinds, a \in Balances}
    /\ used = {a.id : a \in kept} /\ listed = {} /\ listUnsure = TRUE
    /\ manualForm = [k \in ManualKinds |-> EmptyForm] /\ editing = [k \in ManualKinds |-> NoAccount]
    /\ conversion = 1 /\ rateAsked = "USD" /\ manualRateError = FALSE
    /\ saving = [k \in ManualKinds |-> FALSE] /\ saveCount = 0
    /\ saves = {[no |-> MaxSaves, op |-> "page", kind |-> "property", id |-> NoAccount, amount |-> 0,
                 closes |-> FALSE, step |-> "load", phase |-> "sent", got |-> {},
                 alone |-> TRUE]}
ManualNext ==
    \/ \E k \in ManualKinds : CancelEdit(k) \/ saveManual(k) \/ \E a \in Balances : TypesAmount(k, a)
    \/ \E c \in Currencies : ChoosesCurrency(c)
    \/ FormRateArrives \/ FormRateFails
    \/ \E a \in listed : editManual(a) \/ deleteManual(a)
    \/ \E e \in saves : SaveReached(e) \/ SaveBreaks(e) \/ Saved(e) \/ SaveFails(e) \/ ListsShown(e)
    \/ CurrencyNext /\ UNCHANGED manualVars
ManualSpec == ManualInit /\ CurrencyInit /\ [][ManualNext]_manualAccountsVars
-----------------------------------------------------------------------------
(* Whenever the Add button may be pressed, the rate held is the one of the   *)
(* currency the form names, never of one chosen before or after a reset, so  *)
(* an investment is sent in dollars; and what is shown in a currency is      *)
(* converted with that currency's rate, once nothing is loading and no error *)
(* is shown, unless requests of two currencies overtook each other.          *)
RatesMatch ==
    /\ rateAsked = NoRequest /\ ~manualRateError => conversion = UsdRate[manualForm["investment"].currency]
    /\ ~rateLoading /\ ~rateError /\ ~overtaken => rateOf = currency

(* When nothing is under way both lists are what the server keeps, unless    *)
(* the last read failed or was overtaken, or a change's answer was lost.     *)
ListsSettle == saves = {} /\ ~listUnsure => listed = kept
=============================================================================
