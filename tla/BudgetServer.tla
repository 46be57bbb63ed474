---------------------------- MODULE BudgetServer ----------------------------
(* The budget endpoints of the server and the calls the client has open on   *)
(* them: the four handlers of main.rs, the checks of BudgetService and the   *)
(* list kept in Redis.  The pages that make the calls are BudgetCrud and     *)
(* BudgetModal.                                                              *)
EXTENDS Naturals, FiniteSets

CONSTANTS
    Categories,     \* what a budget may be for (names differing in case are one)
    Amounts,        \* amounts greater than zero, with their frequency and rollover
    MaxCalls,       \* how many calls the page makes in one behaviour
    NoList          \* Redis holds no list

ASSUME MaxCallsAssumption == MaxCalls \in Nat \ {0}

VARIABLES
    stored,         \* table budgets, for the one user
    cache,          \* Redis, budgets:user:<id>: a list, or NoList
    calls,          \* the calls that the client has not had the answer of
    made            \* how many it has made

serverVars == <<stored, cache, calls, made>>

(* A budget is numbered by the call that created it; the id the client made  *)
(* up for it and the id the server gave it differ in "temp".                 *)
Numbers == 0 .. MaxCalls
Budget == [n : Numbers, temp : BOOLEAN, category : Categories, amount : Amounts]

Kinds == {"list", "create", "update", "delete"}
Phases == {"sent", "filling", "committed", "done", "failed"}
Call == [no : 1 .. MaxCalls, kind : Kinds, job : {"load", "save", "delete", "clear"},
         about : {{}} \cup {{b} : b \in Budget},   \* the budget it is about
         got : SUBSET Budget,                      \* the answer's body
         was : SUBSET Budget,                      \* the client's snapshot
         phase : Phases]

SameId(b, d) == b.n = d.n /\ b.temp = d.temp
Replaced(list, d) == {IF SameId(b, d) THEN d ELSE b : b \in list}
Without(list, d) == {b \in list : ~SameId(b, d)}
Becomes(c, d) == calls' = (calls \ {c}) \cup {d}
Mutates(c) == c.kind # "list"

(* The client sends a call of a kind, for a job, about a budget or none.     *)
Sends(kind, job, about, was) ==
    /\ made < MaxCalls /\ made' = made + 1
    /\ calls' = calls \cup {[no |-> made + 1, kind |-> kind, job |-> job, about |-> about,
                             got |-> {}, was |-> was, phase |-> "sent"]}
Retires(c) == calls' = calls \ {c} /\ UNCHANGED made

(* get_authenticated_budgets: the cached list is the answer as it stands;    *)
(* otherwise the table is read, and the list written to Redis after that.    *)
CacheHit(c) ==
    /\ c.kind = "list" /\ c.phase = "sent" /\ cache # NoList
    /\ Becomes(c, [c EXCEPT !.phase = "done", !.got = cache])
    /\ UNCHANGED <<stored, cache, made>>
ReadsTable(c) ==
    /\ c.kind = "list" /\ c.phase = "sent" /\ cache = NoList
    /\ Becomes(c, [c EXCEPT !.phase = "filling", !.got = stored])
    /\ UNCHANGED <<stored, cache, made>>
FillsCache(c) ==
    /\ c.phase = "filling"
    /\ cache' = c.got
    /\ Becomes(c, [c EXCEPT !.phase = "done"])
    /\ UNCHANGED <<stored, made>>

(* The create, update and delete handlers: the statement commits, and then   *)
(* the cached list is dropped.  A second budget of a category is a conflict; *)
(* an update of no row fails; a delete of no row succeeds.                   *)
Inserts(c, b) ==
    IF \E d \in stored : d.category = b.category
    THEN Becomes(c, [c EXCEPT !.phase = "failed"]) /\ UNCHANGED stored
    ELSE LET row == [b EXCEPT !.temp = FALSE]
         IN stored' = stored \cup {row}
            /\ Becomes(c, [c EXCEPT !.phase = "committed", !.got = {row}])
Amends(c, b) ==
    IF \E d \in stored : SameId(d, b)
    THEN stored' = Replaced(stored, b)
         /\ Becomes(c, [c EXCEPT !.phase = "committed", !.got = {b}])
    ELSE Becomes(c, [c EXCEPT !.phase = "failed"]) /\ UNCHANGED stored
Erases(c, b) ==
    stored' = Without(stored, b) /\ Becomes(c, [c EXCEPT !.phase = "committed"])
Commits(c) ==
    /\ Mutates(c) /\ c.phase = "sent"
    /\ \E b \in c.about : \/ c.kind = "create" /\ Inserts(c, b)
                          \/ c.kind = "update" /\ Amends(c, b)
                          \/ c.kind = "delete" /\ Erases(c, b)
    /\ UNCHANGED <<cache, made>>
\* Mutant: the cached list is kept.
InvalidatesNothing(c) ==
    /\ c.phase = "committed"
    /\ Becomes(c, [c EXCEPT !.phase = "done"])
    /\ UNCHANGED <<stored, cache, made>>
Invalidates(c) ==
    /\ c.phase = "committed"
    /\ cache' = NoList
    /\ Becomes(c, [c EXCEPT !.phase = "done"])
    /\ UNCHANGED <<stored, made>>

(* The call breaks: before the server did it, or with its answer lost.       *)
Breaks(c) ==
    /\ c.phase \in {"sent", "done"}
    /\ Becomes(c, [c EXCEPT !.phase = "failed"])
    /\ UNCHANGED <<stored, cache, made>>

(* The 300 seconds of the cached list.                                       *)
CacheExpires == cache # NoList /\ cache' = NoList /\ UNCHANGED <<stored, calls, made>>

ServerDoes(c) == \/ CacheHit(c) \/ ReadsTable(c) \/ FillsCache(c)
                 \/ Commits(c) \/ Invalidates(c)

Answered(c) == c.phase \in {"done", "failed"}

ServerTypeOK == /\ stored \subseteq Budget
                /\ cache \in {NoList} \cup SUBSET Budget
                /\ calls \subseteq Call /\ made \in 0 .. MaxCalls

(* A page opens: it asks for the list.                                       *)
ServerInit == /\ stored \in {{}} \cup {{b} : b \in {b \in Budget : b.n = 0 /\ ~b.temp}}
              /\ cache \in {NoList, stored}
              /\ made = 1
              /\ calls = {[no |-> 1, kind |-> "list", job |-> "load", about |-> {},
                           got |-> {}, was |-> {}, phase |-> "sent"]}
=============================================================================
