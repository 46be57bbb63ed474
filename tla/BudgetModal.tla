---------------------------- MODULE BudgetModal -----------------------------
(* The budgets of the transactions page: the dialog that sets, changes and   *)
(* deletes a budget without any optimism.  A save or a delete is two calls,  *)
(* the change and then the list again, and one flag disables the buttons     *)
(* while they run.  The rows of the "Manage Budgets" form have no such guard.*)
EXTENDS BudgetServer

CONSTANT NoCategory     \* no filter, or nothing chosen in the dialog

VARIABLES
    shown,              \* the page's list of budgets
    filter,             \* the category the page is filtered by
    isBudgetModalOpen,
    budgetModalCategory,
    budgetSaving,
    budgetError,
    crossed,            \* history: two jobs ran at once
    behind              \* history: a list failed or was open when a job began, or a
                        \* change lost its answer

modalOwn == <<shown, filter, isBudgetModalOpen, budgetModalCategory, budgetSaving,
              budgetError, crossed, behind>>
modalVars == <<serverVars, modalOwn>>

Matching(category) == {b \in shown : b.category = category}
Jobs == {c \in calls : c.job # "load"}
Saves == {c \in calls : c.job = "save"}

(* The user picks a filter behind the closed dialog, opens it for that       *)
(* category, or for all of them, and closes it whenever he likes.            *)
SelectFilter(k) ==
    /\ ~isBudgetModalOpen /\ k # filter /\ filter' = k
    /\ UNCHANGED <<serverVars, shown, isBudgetModalOpen, budgetModalCategory, budgetSaving,
                   budgetError, crossed, behind>>
OpenBudgetModal ==
    /\ ~isBudgetModalOpen /\ isBudgetModalOpen' = TRUE
    /\ budgetModalCategory' = filter /\ budgetError' = FALSE
    /\ UNCHANGED <<serverVars, shown, filter, budgetSaving, crossed, behind>>
CloseModal ==
    /\ isBudgetModalOpen /\ isBudgetModalOpen' = FALSE
    /\ UNCHANGED <<serverVars, shown, filter, budgetModalCategory, budgetSaving, budgetError,
                   crossed, behind>>
(* The select of the form, or the pencil of a row: the manage form only.     *)
PickCategory(k) ==
    /\ isBudgetModalOpen /\ filter = NoCategory /\ budgetModalCategory' = k
    /\ UNCHANGED <<serverVars, shown, filter, isBudgetModalOpen, budgetSaving, budgetError,
                   crossed, behind>>

(* A job begins: a change is sent.                                           *)
StartsJob(kind, job, b) ==
    /\ Sends(kind, job, {b}, {})
    /\ budgetSaving' = TRUE /\ budgetError' = FALSE
    /\ crossed' = (crossed \/ Jobs # {})
    /\ behind' = (behind \/ calls # Jobs)
    /\ UNCHANGED <<stored, cache, shown, filter, isBudgetModalOpen, budgetModalCategory>>

(* handleSaveBudget, with what the form was drafted to.                      *)
SaveBudget(amount) ==
    /\ isBudgetModalOpen /\ ~budgetSaving /\ budgetModalCategory # NoCategory
    /\ IF Matching(budgetModalCategory) # {}
       THEN \E b \in Matching(budgetModalCategory) :
                StartsJob("update", "save", [b EXCEPT !.amount = amount])
       ELSE StartsJob("create", "save", [n |-> made + 1, temp |-> TRUE,
                                      category |-> budgetModalCategory, amount |-> amount])

(* handleDeleteBudget, from the form of the filtered category, whose button  *)
(* is disabled while a job runs, or from a row of the manage form.           *)
DeleteBudget(b) ==
    /\ isBudgetModalOpen /\ b \in shown
    /\ filter # NoCategory => b.category = filter /\ ~budgetSaving
    /\ StartsJob("delete", IF budgetModalCategory = NoCategory THEN "delete" ELSE "clear", b)

(* The change is answered: the list is asked for, or the job ends in error.  *)
ChangeEnds(c) ==
    /\ Mutates(c) /\ Answered(c)
    /\ IF c.phase = "done"
       THEN /\ Becomes(c, [c EXCEPT !.kind = "list", !.about = {}, !.got = {}, !.phase = "sent"])
            /\ UNCHANGED <<made, budgetSaving, budgetError>>
       ELSE Retires(c) /\ budgetSaving' = FALSE /\ budgetError' = TRUE
    /\ UNCHANGED <<stored, cache, shown, filter, isBudgetModalOpen, budgetModalCategory,
                   crossed, behind>>

(* The list is answered: a list that fails leaves the old one; a save, or a  *)
(* delete with a category chosen, closes the dialog, whatever it shows now.  *)
ListEnds(c) ==
    /\ c.kind = "list" /\ Answered(c)
    /\ Retires(c)
    /\ shown' = IF c.phase = "done" THEN c.got ELSE shown
    /\ behind' = (behind \/ c.phase = "failed")
    /\ isBudgetModalOpen' = (isBudgetModalOpen /\ c.job \in {"load", "delete"})
    /\ budgetSaving' = (budgetSaving /\ c.job = "load")
    /\ UNCHANGED <<stored, cache, filter, budgetModalCategory, budgetError, crossed>>

ModalServer(c) == ServerDoes(c) /\ UNCHANGED modalOwn
ModalLoses(c) == /\ Breaks(c)
                 /\ behind' = (behind \/ (Mutates(c) /\ c.phase = "done"))
                 /\ UNCHANGED <<shown, filter, isBudgetModalOpen, budgetModalCategory,
                                budgetSaving, budgetError, crossed>>
ModalCacheExpires == CacheExpires /\ UNCHANGED modalOwn

ModalParts == /\ shown = {} /\ filter = NoCategory /\ budgetModalCategory = NoCategory
              /\ isBudgetModalOpen = FALSE /\ budgetSaving = FALSE /\ budgetError = FALSE
              /\ crossed = FALSE
ModalInit == ServerInit /\ ModalParts /\ behind = FALSE
ModalNext == \/ OpenBudgetModal \/ CloseModal \/ ModalCacheExpires
             \/ \E k \in Categories \cup {NoCategory} : SelectFilter(k) \/ PickCategory(k)
             \/ \E a \in Amounts : SaveBudget(a)
             \/ \E b \in shown : DeleteBudget(b)
             \/ \E c \in calls : ModalServer(c) \/ ModalLoses(c) \/ ChangeEnds(c) \/ ListEnds(c)
ModalSpec == ModalInit /\ [][ModalNext]_modalVars
-----------------------------------------------------------------------------
(* Once every call is answered the page shows the budgets that are stored,   *)
(* unless jobs crossed each other or the first list, a list failed or a      *)
(* change lost its answer: the list that follows a change is read after the  *)
(* cached list was dropped.                                                  *)
ShownIsStored ==
    calls = {} /\ ~crossed /\ ~behind => shown = stored
=============================================================================
