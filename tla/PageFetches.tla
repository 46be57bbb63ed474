----------------------------- MODULE PageFetches ----------------------------
(* What the pages read: nine hooks that ask the server anew whenever the     *)
(* account filter or the period changes, each with its own way of coping     *)
(* with an answer that comes after the next question.  "hook" says which of  *)
(* them is mounted; React runs its effect right after the change that its    *)
(* dependencies name, before the next event.                                 *)
EXTENDS AccountFilter

CONSTANTS Hooks, Periods, Nothing

(* A hook that ignores the answers to all but its last question, and one     *)
(* that shows them in the order they come.                                   *)
Aborting == {"analytics", "netWorth"}
Cancelling == {"charges", "sankey", "line"}
Guarded == Hooks \cap (Aborting \cup Cancelling)
(* A hook with a blocking and a refreshing spinner.                          *)
Refreshing == {"analytics", "netWorth", "overview"}
(* A hook that depends on the period, and one that depends on the list of    *)
(* accounts by identity rather than by its length.                           *)
ByPeriod == {"transactions", "ytd", "budgets", "analytics", "sankey", "line"}
ByIdentity == {"transactions", "budgets", "analytics", "netWorth", "overview"}
(* A hook that empties what it shows when the answer is an error.            *)
ClearsOnError == {"transactions", "budgets", "netWorth", "charges", "sankey", "line"}

VARIABLES
    hook, period, viewMode,
    shows,          \* the question whose answer it shows, or Nothing
    spinning, refreshing,
    failed,         \* an error is shown; of "ytd" and "budgets", which show none, that
                    \* the last answer was one
    hasLoadedRef, lastRangeRef,
    asked,          \* the requests it has open
    runs,           \* history: how often the effect has run
    applied         \* history: the run whose outcome is shown

hookVars == <<hook, period, viewMode, shows, spinning, refreshing, failed, hasLoadedRef,
              lastRangeRef, asked, runs, applied>>
pagesVars == <<filterVars, hookVars>>

(* The accounts a request names: none of them when all are selected.         *)
Question(list, sel, p) ==
    IF hook = "ytd" THEN <<Accounts, p>>
    ELSE <<IF sel # {} /\ sel # list THEN sel ELSE Accounts,
           IF hook \in ByPeriod THEN p ELSE Nothing>>
Wanted == IF NoneSelected /\ hook # "ytd" THEN Nothing ELSE Question(accounts, selected, period)

(* What the effect's dependencies are, after the step and before it.         *)
\* Mutant: the selection is missing from the dependencies.
DependenciesCounted == <<accountsLoading, Cardinality(accounts), isAllAccountsSelected>>
Dependencies == <<accountsLoading, Cardinality(accounts), isAllAccountsSelected, selected>>
Triggered(answered) ==
    \/ hook # "ytd" /\ (Dependencies' # Dependencies \/ (hook \in ByIdentity /\ answered))
    \/ hook \in ByPeriod /\ period' # period
    \/ hook = "line" /\ viewMode' # viewMode

(* The cleanup of the last run, then the run: nothing while the accounts are *)
(* loading; no request, and an empty page, when none is selected.            *)
Live == {r \in asked : ~r.aborted}
\* Mutant: the cleanup aborts nothing.
DroppedNone == asked
Dropped == IF hook \in Guarded THEN {[r EXCEPT !.aborted = TRUE] : r \in asked} ELSE asked
Blocks == hook \notin Refreshing \/ ~hasLoadedRef
Request(n, q) == [n |-> n, q |-> q, blocking |-> Blocks, silent |-> FALSE, aborted |-> FALSE]
(* useBudgets asks in its own effect, when the range or the accounts are not *)
(* those it last asked for, and again because the page calls load.           *)
Requests(q) == IF hook = "budgets" /\ q # lastRangeRef
               THEN {Request(runs + 1, q), Request(runs + 2, q)}
               ELSE {Request(runs + 1, q)}
Spins == hook \notin {"ytd"}

RunsIdle == asked' = Dropped
            /\ UNCHANGED <<shows, spinning, refreshing, failed, hasLoadedRef, runs, applied>>
RunsEmpty ==
    /\ asked' = Dropped
    /\ shows' = Nothing /\ hasLoadedRef' = TRUE
    /\ runs' = runs + 1 /\ applied' = runs + 1
    /\ failed' = (failed /\ hook \in {"sankey", "line", "budgets"})
    /\ spinning' = (spinning /\ (hook = "budgets" \/ ~Blocks))
    /\ refreshing' = FALSE
RunsAsking(q) ==
    /\ asked' = Dropped \cup Requests(q)
    /\ runs' = runs + Cardinality(Requests(q))
    /\ failed' = (failed /\ hook \in {"line", "ytd", "budgets"})
    /\ spinning' = (spinning \/ (Spins /\ Blocks))
    /\ refreshing' = ~Blocks
    /\ UNCHANGED <<shows, hasLoadedRef, applied>>
Runs ==
    /\ lastRangeRef' = IF hook = "budgets" THEN Wanted' ELSE lastRangeRef
    /\ IF (accountsLoading' /\ hook # "ytd") \/ (hook = "line" /\ viewMode' # "line")
       THEN RunsIdle
       ELSE IF Wanted' = Nothing THEN RunsEmpty ELSE RunsAsking(Wanted')
Effect(answered) ==
    IF Triggered(answered) THEN Runs
    ELSE UNCHANGED <<shows, spinning, refreshing, failed, hasLoadedRef, lastRangeRef, asked,
                     runs, applied>>

(* The filter changes; the page's month, or the chart of TrendsPage, does.   *)
FilterChanges == /\ \/ \E a \in Accounts : AccountsChange(a) \/ ToggleAccount(a)
                    \/ \E bank \in Institutions : ToggleBank(bank)
                    \/ SelectAll
                 /\ UNCHANGED <<hook, period, viewMode>> /\ Effect(FALSE)
ListAnswered == /\ \E f \in fetches : FetchAnswered(f) \/ FetchFails(f)
                /\ UNCHANGED <<hook, period, viewMode>> /\ Effect(TRUE)
ListReads == (\E f \in fetches : FetchReads(f)) /\ UNCHANGED hookVars
PeriodChanges == /\ Counted /\ period' \in Periods \ {period}
                 /\ UNCHANGED <<held, accounts, selected, accountsLoading, fetches>>
                 /\ UNCHANGED <<hook, viewMode>> /\ Effect(FALSE)
ViewChanges == /\ hook = "line" /\ Counted
               /\ viewMode' = IF viewMode = "line" THEN "sankey" ELSE "line"
               /\ UNCHANGED <<held, accounts, selected, accountsLoading, fetches>>
               /\ UNCHANGED <<hook, period>> /\ Effect(FALSE)

(* load(true), after a category was edited; refresh, the Retry button.       *)
SilentLoad ==
    /\ hook = "transactions" /\ ~accountsLoading /\ Counted
    /\ IF Wanted = Nothing
       THEN shows' = Nothing /\ applied' = runs + 1 /\ UNCHANGED asked
       ELSE asked' = asked \cup {[Request(runs + 1, Wanted) EXCEPT !.silent = TRUE]}
            /\ UNCHANGED <<shows, applied>>
    /\ failed' = FALSE /\ runs' = runs + 1
    /\ UNCHANGED <<held, accounts, selected, accountsLoading, fetches, hook, period, viewMode,
                   spinning, refreshing, hasLoadedRef, lastRangeRef>>
Retry ==
    /\ hook = "overview" /\ failed /\ ~spinning /\ ~accountsLoading /\ Counted
    /\ IF Wanted = Nothing THEN RunsEmpty ELSE RunsAsking(Wanted)
    /\ UNCHANGED <<held, accounts, selected, accountsLoading, fetches, hook, period, viewMode,
                   lastRangeRef>>

(* The answer to a request: dropped if it was aborted; else shown, and the   *)
(* spinner that the request started is stopped.                              *)
Stops(r) == /\ spinning' = (spinning /\ (r.silent \/ ~r.blocking))
            /\ refreshing' = FALSE
Outcome(r, ok) ==
    /\ shows' = IF ok THEN r.q ELSE IF hook \in ClearsOnError THEN Nothing ELSE shows
    /\ hasLoadedRef' = (hasLoadedRef \/ ok)
    /\ failed' = (~ok \/ (failed /\ hook \notin {"ytd", "budgets"}))
    /\ applied' = r.n
    /\ Stops(r)
RequestAnswered(r) ==
    /\ asked' = asked \ {r}
    /\ IF r.aborted
       THEN UNCHANGED <<shows, spinning, refreshing, failed, hasLoadedRef, applied>>
       ELSE \E ok \in BOOLEAN : Outcome(r, ok)
    /\ UNCHANGED <<filterVars, hook, period, viewMode, lastRangeRef, runs>>

(* The application opens: the hooks ask for everything, and then the         *)
(* filter's first fetch begins, which is a change of their dependencies.     *)
PagesInit ==
    /\ FilterInit
    /\ hook \in Hooks /\ period \in Periods /\ viewMode = "sankey"
    /\ shows = Nothing /\ failed = FALSE /\ hasLoadedRef = FALSE /\ refreshing = FALSE
    /\ applied = 0
    /\ LET q == Question({}, {}, period)
       IN lastRangeRef = q /\ asked = IF hook = "line" THEN {}
                  ELSE {[n |-> 1, q |-> q, blocking |-> TRUE, silent |-> FALSE,
                         aborted |-> hook \in Guarded]}
    /\ spinning = (hook \notin {"ytd", "line"})
    /\ runs = IF hook = "line" THEN 0 ELSE 1
PagesNext == \/ FilterChanges \/ ListAnswered \/ ListReads \/ PeriodChanges \/ ViewChanges
             \/ SilentLoad \/ Retry
             \/ \E r \in asked : RequestAnswered(r)
PagesSpec == PagesInit /\ [][PagesNext]_pagesVars
-----------------------------------------------------------------------------
Spinning == (spinning \/ refreshing) /\ (hook = "line" => viewMode = "line")
Settled == ~accountsLoading /\ Live = {} /\ (hook = "line" => viewMode = "line")

(* What the pages draw in the place of each hook's data.                     *)
Filled == IF shows = Nothing THEN "empty" ELSE "data"
TransactionsPanel == IF spinning THEN "loading" ELSE Filled
CategoriesPanel == IF spinning THEN "loading" ELSE Filled
MerchantsPanel == IF spinning THEN "loading" ELSE Filled
NetWorthPanel == IF spinning THEN "loading" ELSE IF failed THEN "error" ELSE Filled
ChargesPanel == IF spinning THEN "loading" ELSE IF failed THEN "error" ELSE Filled
OverviewPanel == IF spinning THEN "loading" ELSE IF failed THEN "error" ELSE Filled
SankeyPanel == IF spinning THEN "loading" ELSE Filled
LinePanel == IF spinning THEN "loading" ELSE Filled
Panels ==
    CASE hook = "transactions" -> {TransactionsPanel}
      [] hook = "analytics" -> {CategoriesPanel, MerchantsPanel}
      [] hook = "netWorth" -> {NetWorthPanel}
      [] hook = "charges" -> {ChargesPanel}
      [] hook = "overview" -> {OverviewPanel}
      [] hook = "sankey" -> {SankeyPanel}
      [] hook = "line" -> {LinePanel}
      [] OTHER -> {Filled}

(* A hook that aborts or cancels shows, once its requests are answered, what *)
(* the filter and the period now ask for, and its panels say that there is   *)
(* nothing only when no account is selected; or else the last try failed.    *)
GuardedShowsWanted ==
    Settled /\ hook \in Guarded =>
        failed \/ (shows = Wanted /\ Panels = {IF Wanted = Nothing THEN "empty" ELSE "data"})

(* At no time does a hook that aborts or cancels put an answer in place of   *)
(* what it shows but that to the question the filter and the period now ask. *)
Promised == INSTANCE LatestAnswer WITH wanted <- Wanted,
                                       shown <- IF hook \in Guarded THEN shows ELSE Nothing
LatestSpec == Promised!Spec

(* A hook that shows every answer shows the wanted one whenever the last     *)
(* outcome is that of its last run: no change goes unnoticed by its effect.  *)
(* Whatever the order of the answers, no spinner is left turning.            *)
LastRunShowsWanted ==
    Settled /\ hook \notin Guarded => ~Spinning /\ (applied = runs => failed \/ shows = Wanted)
=============================================================================
