---------------------------- MODULE CategoryEdits ---------------------------
(* Categories of transactions, edited from the rows of the transactions      *)
(* page: the mutations of the hook useTransactions, the dropdown of a row    *)
(* (CategoryDropdown), the table with its pages (TransactionsTable), and the *)
(* filter by category, against the overrides and rules the server keeps.     *)
EXTENDS Naturals, FiniteSets

CONSTANTS
    Rows,           \* the transactions of the month: 1 .. n, in the order shown
    Labels,         \* the major categories
    Unlabelled,     \* no override, no rule, no filter
    Provided,       \* the provider's category of each transaction
    Matched,        \* the transactions whose merchant matches the rule's pattern
    PageSize,
    MaxEdits        \* how many edits the user makes

ASSUME EditsAssumption == /\ Rows \subseteq Nat \ {0} /\ IsFiniteSet(Rows)
                          /\ Unlabelled \notin Labels /\ Provided \in [Rows -> Labels]
                          /\ Matched \subseteq Rows /\ PageSize \in Nat \ {0}
                          /\ MaxEdits \in Nat

VARIABLES
    override,       \* server: transaction_category_overrides
    rule,           \* server: what the rule of the pattern assigns
    subcategories,  \* server: the labels under which the user's own name exists
    view,           \* the hook's list: what it says of each transaction it holds
    userCategories, \* the hook's copy of subcategories
    selectedCategory, currentPage,
    openRow,        \* the row whose dropdown is open
    savingRows,     \* the rows whose dropdown waits for its edit
    edits, edited,  \* the edits under way, and how many there have been
    adrift          \* history: rows whose label may differ from the server's

editServer == <<override, rule, subcategories>>
editVars == <<editServer, view, userCategories, selectedCategory, currentPage, openRow,
              savingRows, edits, edited, adrift>>

Label(t) == CASE override[t] # Unlabelled -> [t |-> t, label |-> override[t], by |-> "explicit"]
              [] override[t] = Unlabelled /\ t \in Matched /\ rule # Unlabelled ->
                    [t |-> t, label |-> rule, by |-> "rule"]
              [] OTHER -> [t |-> t, label |-> Provided[t], by |-> "provider"]
Listed == {Label(t) : t \in Rows}

(* filtered, its pages, and the row a dropdown can be in.                    *)
Filtered == {r \in view : selectedCategory \in {Unlabelled, r.label}}
Available == {r.label : r \in view}
Ceil(n) == (n + PageSize - 1) \div PageSize
totalPages == IF Filtered = {} THEN 1 ELSE Ceil(Cardinality(Filtered))
Place(r) == Cardinality({q \in Filtered : q.t <= r.t})
PageItems == {r \in Filtered : Ceil(Place(r)) = currentPage}
Mounted == {r.t : r \in PageItems}

(* What the effects of the hook and the unmounting of rows do after a step:  *)
(* a filter by a label that no row has is dropped, the page is put back to 1 *)
(* when the filter changed and never left past the last, and a dropdown that *)
(* went with its row forgets that it was open and waiting.                   *)
\* Mutant: a page past the last stays.
EffectsUnclamped(category, page, row, saving) ==
    /\ selectedCategory' = IF view' # {} /\ category \notin {r.label : r \in view'}
                           THEN Unlabelled ELSE category
    /\ currentPage' = IF selectedCategory' # selectedCategory THEN 1 ELSE page
    /\ openRow' = IF row \in Mounted' THEN row ELSE 0
    /\ savingRows' = saving \cap Mounted'
Effects(category, page, row, saving) ==
    /\ selectedCategory' = IF view' # {} /\ category \notin {r.label : r \in view'}
                           THEN Unlabelled ELSE category
    /\ currentPage' = IF selectedCategory' # selectedCategory THEN 1
                      ELSE IF page > totalPages' THEN totalPages' ELSE page
    /\ openRow' = IF row \in Mounted' THEN row ELSE 0
    /\ savingRows' = saving \cap Mounted'

(* The filter, the pages, the dropdown: only one is open, for a click        *)
(* elsewhere closes it, whether its edit is under way or not.                *)
SelectCategory(k) == /\ k # selectedCategory /\ k \in Available \cup {Unlabelled}
                     /\ UNCHANGED <<editServer, view, userCategories, edits, edited, adrift>>
                     /\ Effects(k, currentPage, 0, savingRows)
TurnPage(n) == /\ n \in {currentPage - 1, currentPage + 1} \cap (1 .. totalPages)
               /\ UNCHANGED <<editServer, view, userCategories, edits, edited, adrift>>
               /\ Effects(selectedCategory, n, 0, savingRows)
OpenDropdown(t) == /\ t \in Mounted /\ t # openRow
                   /\ UNCHANGED <<editServer, view, userCategories, edits, edited, adrift>>
                   /\ Effects(selectedCategory, currentPage, t, savingRows)
CloseDropdown == /\ openRow # 0
                 /\ UNCHANGED <<editServer, view, userCategories, edits, edited, adrift>>
                 /\ Effects(selectedCategory, currentPage, 0, savingRows)
(* An edit is a chain of calls, of which "step" is the one under way.        *)
Touches(e) == IF e.job = "rule" THEN Matched \cup {e.row} ELSE {e.row}
Reloads(e) == e.job \in {"reset", "rule"}
Meets(e, d) == e.row = d.row \/ Reloads(e) \/ Reloads(d)
StartsEdit(job, step, k) ==
    /\ edited < MaxEdits /\ edited' = edited + 1
    /\ openRow # 0 /\ openRow \notin savingRows
    /\ LET e == [no |-> edited + 1, job |-> job, row |-> openRow, label |-> k, step |-> step,
                 phase |-> "sent", got |-> {}]
       IN /\ edits' = edits \cup {e}
          /\ adrift' = adrift \cup UNION {Touches(e) \cup Touches(d) : d \in {d \in edits : Meets(e, d)}}
    /\ UNCHANGED <<editServer, userCategories>>

(* handleSelect; handleReset, offered on a row with an override; a new       *)
(* sub-category under a label; handleCreateRule, whose effect is shown       *)
(* before it is sent.                                                        *)
Saving == savingRows \cup {openRow}
Selects(k) == /\ StartsEdit("select", "set", k) /\ UNCHANGED view
              /\ Effects(selectedCategory, currentPage, openRow, Saving)
Resets == /\ \E r \in view : r.t = openRow /\ r.by = "explicit"
          /\ StartsEdit("reset", "unset", Unlabelled) /\ UNCHANGED view
          /\ Effects(selectedCategory, currentPage, openRow, Saving)
CreatesSubcategory(k) == /\ StartsEdit("create", "category", k) /\ UNCHANGED view
                         /\ Effects(selectedCategory, currentPage, openRow, Saving)
CreatesRule(k) ==
    /\ StartsEdit("rule", "rule", k)
    /\ view' = {IF r.t = openRow \/ (r.by # "explicit" /\ r.t \in Matched)
                THEN [r EXCEPT !.label = k, !.by = "rule"] ELSE r : r \in view}
    /\ Effects(selectedCategory, currentPage, openRow, Saving)

(* The server does the call that is under way.  A name that exists already   *)
(* is a conflict; a rule of the same pattern is replaced.                    *)
Phase(e, p) == edits' = (edits \ {e}) \cup {[e EXCEPT !.phase = p]}
EditReached(e) ==
    /\ e \in edits /\ e.phase = "sent"
    /\ IF e.step = "load" THEN edits' = (edits \ {e}) \cup {[e EXCEPT !.phase = "done", !.got = Listed]}
       ELSE Phase(e, IF e.step = "category" /\ e.label \in subcategories THEN "failed" ELSE "done")
    /\ override' = CASE e.step = "set" -> [override EXCEPT ![e.row] = e.label]
                     [] e.step = "unset" -> [override EXCEPT ![e.row] = Unlabelled]
                     [] OTHER -> override
    /\ rule' = IF e.step = "rule" THEN e.label ELSE rule
    /\ subcategories' = IF e.step = "category" THEN subcategories \cup {e.label} ELSE subcategories
    /\ UNCHANGED <<view, userCategories, selectedCategory, currentPage, openRow, savingRows,
                   edited, adrift>>
EditBreaks(e) ==
    /\ e \in edits /\ e.phase \in {"sent", "done"} /\ Phase(e, "failed")
    /\ adrift' = IF e.phase = "done" /\ e.step # "load" THEN adrift \cup Touches(e) ELSE adrift
    /\ UNCHANGED <<editServer, view, userCategories, selectedCategory, currentPage, openRow,
                   savingRows, edited>>

(* The next call of the chain.  Removing the override of a rule's row is     *)
(* tried and its failure ignored.                                            *)
Succ(e) == CASE e.job = "create" /\ e.step = "category" -> "set"
             [] e.job = "rule" /\ e.step = "rule" -> "unset"
             [] e.step = "unset" -> "load"
EditGoesOn(e) ==
    /\ e \in edits
    /\ \/ e.phase = "done" /\ e.step \in {"category", "rule", "unset"}
       \/ e.phase = "failed" /\ e.step = "unset" /\ e.job = "rule"
    /\ edits' = (edits \ {e}) \cup {[e EXCEPT !.step = Succ(e), !.phase = "sent"]}
    /\ userCategories' = IF e.step = "category" THEN userCategories \cup {e.label} ELSE userCategories
    /\ UNCHANGED <<editServer, view, selectedCategory, currentPage, openRow, savingRows,
                   edited, adrift>>

(* The chain ends.  A failed reload empties the page and is not an error of  *)
(* the dropdown; a failed edit leaves the dropdown open with a message, and  *)
(* a failed rule leaves what was shown for it.  The dropdown closes after a  *)
(* success, even if it was closed and opened again in the meantime.          *)
\* Mutant: the row does not say that its label is the user's own.
ShowsLabel(e) ==
    view' = CASE e.step = "load" -> IF e.phase = "done" THEN e.got ELSE {}
              [] e.step = "set" /\ e.phase = "done" ->
                    {IF r.t = e.row THEN [r EXCEPT !.label = e.label] ELSE r : r \in view}
              [] OTHER -> view
Shows(e) ==
    view' = CASE e.step = "load" -> IF e.phase = "done" THEN e.got ELSE {}
              [] e.step = "set" /\ e.phase = "done" ->
                    {IF r.t = e.row THEN [r EXCEPT !.label = e.label, !.by = "explicit"] ELSE r
                     : r \in view}
              [] OTHER -> view
EditEnds(e) ==
    /\ e \in edits
    /\ \/ e.phase = "done" /\ e.step \in {"set", "load"}
       \/ e.phase = "failed" /\ ~(e.step = "unset" /\ e.job = "rule")
    /\ edits' = edits \ {e}
    /\ Shows(e)
    /\ adrift' = IF e.step = "rule" THEN adrift \cup Touches(e) ELSE adrift
    /\ LET closes == openRow = e.row /\ (e.phase = "done" \/ e.step = "load")
       IN Effects(selectedCategory, currentPage, IF closes THEN 0 ELSE openRow,
                  savingRows \ {e.row})
    /\ UNCHANGED <<editServer, userCategories, edited>>

EditsInit ==
    /\ override \in {[t \in Rows |-> Unlabelled]} \cup
                    {[t \in Rows |-> IF t = u THEN k ELSE Unlabelled] : u \in Rows, k \in Labels}
    /\ rule = Unlabelled /\ subcategories = {} /\ userCategories = {}
    /\ view = Listed
    /\ selectedCategory = Unlabelled /\ currentPage = 1
    /\ openRow = 0 /\ savingRows = {}
    /\ edits = {} /\ edited = 0 /\ adrift = {}
EditsNext ==
    \/ \E k \in Labels \cup {Unlabelled} : SelectCategory(k)
    \/ \E n \in 1 .. Cardinality(Rows) : TurnPage(n)
    \/ \E t \in Rows : OpenDropdown(t)
    \/ CloseDropdown \/ Resets
    \/ \E k \in Labels : Selects(k) \/ CreatesSubcategory(k) \/ CreatesRule(k)
    \/ \E e \in edits : EditReached(e) \/ EditBreaks(e) \/ EditGoesOn(e) \/ EditEnds(e)
EditsSpec == EditsInit /\ [][EditsNext]_editVars
-----------------------------------------------------------------------------
(* When no edit is under way every row shown has the label, and says where   *)
(* it comes from, as the server would list it, except the rows of edits that *)
(* met, whose answer was lost, or of a rule that could not be saved.         *)
EditsSettle == edits = {} => \A r \in view : r.t \notin adrift => r = Label(r.t)

(* The table never shows an empty page while the filter has rows: edits that *)
(* take the last row from the last page bring the page back.                 *)
PageNeverBlank == Filtered # {} => PageItems # {}
=============================================================================
