----------------------------- MODULE BudgetCrud -----------------------------
(* The budgets page: the hook useBudgets with its optimistic changes, and    *)
(* the page that calls it (BudgetsPage, BudgetList, BudgetForm).  Every      *)
(* change is shown at once, sent, and then confirmed or rolled back when the *)
(* answer comes, in any order; nothing stops the user from making the next   *)
(* change before the answer to the last.                                     *)
EXTENDS BudgetServer

VARIABLES
    budgets,        \* the hook's list
    loadedRef,      \* a list has been loaded; no other will be
    isLoading,      \* ... is being loaded
    error,          \* an error is shown, of a call or of the form
    isAdding,       \* the form of a new budget is open
    editingId,      \* the budget whose row is being edited, or none
    astray          \* history: budgets whose row may differ from the server's

pageVars == <<budgets, loadedRef, isLoading, error, isAdding, editingId, astray>>
crudVars == <<serverVars, pageVars>>

Id(b) == <<b.n, b.temp>>
NoId == <<0, TRUE>>
Of(list, k) == {b \in list : b.n = k}
(* What a call that is open may yet change.                                  *)
Concerns(c) == IF c.kind = "list" THEN Numbers ELSE {b.n : b \in c.about}
InFlight == UNION {Concerns(c) : c \in calls}
Overlapped(k) == astray' = astray \cup ({k} \cap InFlight)
Cancelled == isAdding' = FALSE /\ editingId' = NoId

(* The row that the call was about, if it is shown, becomes the answer.      *)
\* Mutant: the optimistic row is left as it is.
ConfirmedNothing(c) == budgets
Confirmed(c) == {IF \E d \in c.about : SameId(b, d) /\ c.got # {} THEN CHOOSE d \in c.got : TRUE
                 ELSE b : b \in budgets}

(* load: when the page opens (see CrudInit), and again whenever the month or *)
(* the accounts change while no list has been loaded yet.                    *)
Load ==
    /\ ~loadedRef
    /\ Sends("list", "load", {}, {})
    /\ isLoading' = TRUE /\ error' = FALSE
    /\ astray' = astray \cup InFlight
    /\ UNCHANGED <<stored, cache, budgets, loadedRef, isAdding, editingId>>
Loaded(c) ==
    /\ c.kind = "list" /\ Answered(c)
    /\ Retires(c)
    /\ isLoading' = FALSE
    /\ IF c.phase = "done"
       THEN budgets' = c.got /\ loadedRef' = TRUE /\ UNCHANGED error
       ELSE budgets' = {} /\ loadedRef' = FALSE /\ error' = TRUE
    /\ UNCHANGED <<stored, cache, isAdding, editingId, astray>>

(* The forms.  BudgetForm offers the categories that no row has; a row that  *)
(* is not being edited has the buttons Edit and Delete.                      *)
StartAdd == /\ ~isAdding /\ isAdding' = TRUE /\ editingId' = NoId
            /\ UNCHANGED <<serverVars, budgets, loadedRef, isLoading, error, astray>>
StartEdit(b) == /\ b \in budgets /\ Id(b) # editingId /\ editingId' = Id(b)
                /\ UNCHANGED <<serverVars, budgets, loadedRef, isLoading, error, isAdding, astray>>
Cancel == /\ isAdding \/ \E b \in budgets : Id(b) = editingId
          /\ Cancelled
          /\ UNCHANGED <<serverVars, budgets, loadedRef, isLoading, error, astray>>

(* onSaveAdd, add, optimisticCreate.                                         *)
\* Mutant: a category that has a budget is not refused.
ExistsNever(category) == FALSE
Exists(category) == \E b \in budgets : b.category = category
RefusesAdd(category) ==
    /\ isAdding /\ Exists(category)
    /\ error' = TRUE /\ Cancelled
    /\ UNCHANGED <<serverVars, budgets, loadedRef, isLoading, astray>>
Adds(category, amount) ==
    /\ isAdding /\ ~Exists(category)
    /\ LET item == [n |-> made + 1, temp |-> TRUE, category |-> category, amount |-> amount]
       IN /\ budgets' = budgets \cup {item}
          /\ Sends("create", "save", {item}, {})
          /\ Overlapped(item.n)
    /\ error' = FALSE
    /\ UNCHANGED <<stored, cache, loadedRef, isLoading, isAdding, editingId>>
AddAnswered(c) ==
    /\ c.kind = "create" /\ Answered(c)
    /\ budgets' = IF c.phase = "done" THEN Confirmed(c)
                  ELSE {b \in budgets : \A d \in c.about : ~SameId(b, d)}
    /\ error' = (error \/ c.phase = "failed")
    /\ Retires(c) /\ Cancelled
    /\ UNCHANGED <<stored, cache, loadedRef, isLoading, astray>>

(* onSaveEdit and update; onDelete and remove.  Both remember the whole list *)
(* as it was and put it back when the call fails.                            *)
Updates(b, amount) ==
    /\ b \in budgets /\ Id(b) = editingId
    /\ LET item == [b EXCEPT !.amount = amount]
       IN budgets' = Replaced(budgets, item) /\ Sends("update", "save", {item}, budgets)
    /\ Overlapped(b.n)
    /\ error' = FALSE
    /\ UNCHANGED <<stored, cache, loadedRef, isLoading, isAdding, editingId>>
Removes(b) ==
    /\ b \in budgets /\ Id(b) # editingId
    /\ budgets' = Without(budgets, b) /\ Sends("delete", "delete", {b}, budgets)
    /\ Overlapped(b.n)
    /\ error' = FALSE
    /\ UNCHANGED <<stored, cache, loadedRef, isLoading, isAdding, editingId>>

(* What putting the old list back undoes: every row that has changed since,  *)
(* but the one the failed call was about.                                    *)
Undone(c) == {k \in Numbers \ Concerns(c) : Of(budgets, k) # Of(c.was, k)}
ChangeAnswered(c) ==
    /\ c.kind \in {"update", "delete"} /\ Answered(c)
    /\ IF c.phase = "done"
       THEN /\ budgets' = Confirmed(c)
            /\ UNCHANGED <<error, astray>>
       ELSE budgets' = c.was /\ error' = TRUE /\ astray' = astray \cup Undone(c)
    /\ IF c.kind = "update" THEN Cancelled ELSE UNCHANGED <<isAdding, editingId>>
    /\ Retires(c)
    /\ UNCHANGED <<stored, cache, loadedRef, isLoading>>

(* An answer lost after the server has done its part, and the cached list    *)
(* being written after a change that it does not show, are outside the page. *)
Loses(c) == /\ Breaks(c)
            /\ astray' = IF Mutates(c) /\ c.phase = "done" THEN astray \cup Concerns(c) ELSE astray
            /\ UNCHANGED <<budgets, loadedRef, isLoading, error, isAdding, editingId>>
CrudServer(c) == ServerDoes(c) /\ UNCHANGED pageVars
CrudAnswer(c) == Loaded(c) \/ AddAnswered(c) \/ ChangeAnswered(c)

CrudTypeOK == /\ ServerTypeOK
              /\ budgets \subseteq Budget /\ astray \subseteq Numbers
              /\ {loadedRef, isLoading, isAdding, error} \subseteq BOOLEAN
              /\ editingId \in Numbers \X BOOLEAN
CrudParts == /\ budgets = {} /\ astray = {} /\ editingId = NoId
             /\ error = FALSE /\ loadedRef = FALSE /\ isLoading = TRUE /\ isAdding = FALSE
CrudInit == ServerInit /\ CrudParts
CrudNext == \/ Load \/ StartAdd \/ Cancel
            \/ \E b \in budgets : StartEdit(b) \/ Removes(b) \/ \E a \in Amounts : Updates(b, a)
            \/ \E k \in Categories : RefusesAdd(k) \/ \E a \in Amounts : Adds(k, a)
            \/ \E c \in calls : CrudServer(c) \/ Loses(c) \/ CrudAnswer(c)
CrudSpec == CrudInit /\ [][CrudNext]_crudVars
-----------------------------------------------------------------------------
(* When a list has been loaded and every answer has come, the page shows     *)
(* each budget exactly as the server stores it, except those that two calls  *)
(* were open about at once, whose answer was lost, or whose change was       *)
(* undone when another call failed.                                          *)
BudgetsSettle ==
    loadedRef /\ calls = {} =>
        \A k \in Numbers \ astray : Of(budgets, k) = Of(stored, k)

(* No answer, rollback or late list ever shows two budgets of one category.  *)
OneBudgetPerCategory ==
    \A b, d \in budgets : b.category = d.category => b = d
=============================================================================
