-------------------------- MODULE BudgetCrud_proofs --------------------------
(***************************************************************************)
(* Proofs about BudgetCrud and BudgetModal, for any categories, amounts    *)
(* and number of calls: the variables keep their types, no order of        *)
(* answers, rollbacks and late lists shows two budgets of one category,    *)
(* and what either page shows settles to what is stored.                   *)
(***************************************************************************)
EXTENDS BudgetCrud, BudgetModal, TLAPS

USE MaxCallsAssumption

(* Types.                                                                    *)
Abouts == {{}} \cup {{b} : b \in Budget}
JobKinds == {"load", "save", "delete", "clear"}

LEMMA NoIdType == NoId \in Numbers \X BOOLEAN
  <1>1. 0 \in Numbers /\ TRUE \in BOOLEAN
    BY MaxCallsAssumption DEF Numbers
  <1> QED BY <1>1 DEF NoId

LEMMA CallType == Call = [no : 1 .. MaxCalls, kind : Kinds, job : JobKinds, about : Abouts,
                          got : SUBSET Budget, was : SUBSET Budget, phase : Phases]
  BY DEF Call, JobKinds, Abouts
LEMMA AboutTypes == {} \in Abouts /\ \A b \in Budget : {b} \in Abouts
  BY DEF Abouts
LEMMA AboutRows == \A about \in Abouts : about \subseteq Budget
  BY DEF Abouts

LEMMA InitTypes == CrudInit => CrudTypeOK
  <1> SUFFICES ASSUME CrudInit PROVE CrudTypeOK
    OBVIOUS
  <1>1. stored \subseteq Budget
    BY DEF CrudInit, ServerInit
  <1>2. calls \subseteq Call /\ made \in 0 .. MaxCalls
    BY DEF CrudInit, ServerInit, Call, Kinds, Phases
  <1>3. cache \in {NoList} \cup SUBSET Budget
    BY <1>1 DEF CrudInit, ServerInit
  <1>4. NoId \in Numbers \X BOOLEAN
    BY NoIdType
  <1> QED BY <1>1, <1>2, <1>3, <1>4 DEF CrudInit, CrudParts, CrudTypeOK, ServerTypeOK

\* A call that is sent is a call.
LEMMA SendsTypes ==
    ASSUME ServerTypeOK, NEW kind \in Kinds, NEW job \in JobKinds,
           NEW about \in Abouts, NEW was \in SUBSET Budget,
           Sends(kind, job, about, was)
    PROVE  calls' \subseteq Call /\ made' \in 0 .. MaxCalls /\ made' = made + 1
  <1>1. made' = made + 1 /\ made' \in 1 .. MaxCalls
    BY DEF Sends, ServerTypeOK
  <1>2. [no |-> made + 1, kind |-> kind, job |-> job, about |-> about,
         got |-> {}, was |-> was, phase |-> "sent"] \in Call
    <2>1. made + 1 \in 1 .. MaxCalls /\ {} \in SUBSET Budget /\ "sent" \in Phases
      BY <1>1 DEF Phases
    <2> QED BY <2>1, CallType
  <1> QED BY <1>1, <1>2 DEF Sends, ServerTypeOK

\* A list in which a row was replaced is a list.
LEMMA ReplacedTypes ==
    ASSUME NEW list \in SUBSET Budget, NEW d \in Budget
    PROVE  Replaced(list, d) \subseteq Budget
  BY DEF Replaced

\* What the server makes of a call is a call.
LEMMA ServerTypes ==
    ASSUME ServerTypeOK, NEW c \in calls, ServerDoes(c) \/ Breaks(c)
    PROVE  ServerTypeOK'
  <1> USE DEF ServerTypeOK
  <1>1. c \in Call /\ c.about \subseteq Budget /\ c.got \subseteq Budget
    BY CallType, AboutRows
  <1>2. \A p \in Phases, g \in SUBSET Budget :
           [c EXCEPT !.phase = p, !.got = g] \in Call /\ [c EXCEPT !.phase = p] \in Call
    BY <1>1, CallType
  <1>3. ASSUME CacheHit(c) \/ ReadsTable(c) PROVE ServerTypeOK'
    <2>1. PICK g \in SUBSET Budget, p \in Phases : calls' = (calls \ {c}) \cup {[c EXCEPT !.phase = p, !.got = g]}
      BY <1>3 DEF CacheHit, ReadsTable, Becomes, Phases
    <2> QED BY <1>2, <1>3, <2>1 DEF CacheHit, ReadsTable
  <1>4. ASSUME FillsCache(c) \/ Invalidates(c) \/ Breaks(c) PROVE ServerTypeOK'
    <2>1. PICK p \in Phases : calls' = (calls \ {c}) \cup {[c EXCEPT !.phase = p]}
      BY <1>4 DEF FillsCache, Invalidates, Breaks, Becomes, Phases
    <2>2. cache' \in {NoList} \cup SUBSET Budget
      BY <1>1, <1>4 DEF FillsCache, Invalidates, Breaks, Call
    <2> QED BY <1>2, <1>4, <2>1, <2>2 DEF FillsCache, Invalidates, Breaks
  <1>5. ASSUME NEW b \in c.about, Inserts(c, b) PROVE stored' \subseteq Budget /\ calls' \subseteq Call
    <2>1. [b EXCEPT !.temp = FALSE] \in Budget
      BY <1>1, <1>5 DEF Budget
    <2>2. CASE Becomes(c, [c EXCEPT !.phase = "failed"]) /\ UNCHANGED stored
      BY <1>2, <2>2 DEF Becomes, Phases
    <2>3. CASE /\ stored' = stored \cup {[b EXCEPT !.temp = FALSE]}
               /\ Becomes(c, [c EXCEPT !.phase = "committed", !.got = {[b EXCEPT !.temp = FALSE]}])
      <3> DEFINE row == [b EXCEPT !.temp = FALSE]
      <3>1. {row} \in SUBSET Budget /\ "committed" \in Phases
        BY <2>1 DEF Phases
      <3>2. [c EXCEPT !.phase = "committed", !.got = {row}] \in Call
        BY <1>2, <3>1
      <3> QED BY <2>1, <2>3, <3>2 DEF Becomes
    <2> QED BY <1>5, <2>2, <2>3 DEF Inserts
  <1>6. ASSUME NEW b \in c.about, Amends(c, b) PROVE stored' \subseteq Budget /\ calls' \subseteq Call
    <2>2. CASE Becomes(c, [c EXCEPT !.phase = "failed"]) /\ UNCHANGED stored
      BY <1>2, <2>2 DEF Becomes, Phases
    <2>3. CASE /\ stored' = Replaced(stored, b)
               /\ Becomes(c, [c EXCEPT !.phase = "committed", !.got = {b}])
      <3>1. {b} \in SUBSET Budget /\ "committed" \in Phases
        BY <1>1 DEF Phases
      <3>2. [c EXCEPT !.phase = "committed", !.got = {b}] \in Call
        BY <1>2, <3>1
      <3> QED BY <1>1, <2>3, <3>2, ReplacedTypes DEF Becomes
    <2> QED BY <1>6, <2>2, <2>3 DEF Amends
  <1>7. ASSUME NEW b \in c.about, Erases(c, b) PROVE stored' \subseteq Budget /\ calls' \subseteq Call
    BY <1>2, <1>7 DEF Erases, Without, Becomes, Phases
  <1>8. ASSUME Commits(c) PROVE ServerTypeOK'
    BY <1>5, <1>6, <1>7, <1>8 DEF Commits
  <1> QED BY <1>3, <1>4, <1>8 DEF ServerDoes

LEMMA NextTypes == CrudTypeOK /\ [CrudNext]_crudVars => CrudTypeOK'
  <1> SUFFICES ASSUME CrudTypeOK, [CrudNext]_crudVars PROVE CrudTypeOK'
    OBVIOUS
  <1> USE DEF CrudTypeOK
  <1>1. NoId \in Numbers \X BOOLEAN
    BY NoIdType
  <1>2. \A b \in Budget : Id(b) \in Numbers \X BOOLEAN /\ b.n \in Numbers
    BY DEF Id, Budget
  <1>3. \A c \in calls : c \in Call /\ c.got \subseteq Budget /\ c.was \subseteq Budget
                         /\ c.about \subseteq Budget
    BY CallType, AboutRows DEF ServerTypeOK
  <1>4. \A c \in calls : Concerns(c) \subseteq Numbers /\ Undone(c) \subseteq Numbers
    BY <1>2, <1>3 DEF Concerns, Undone
  <1>5. InFlight \subseteq Numbers
    BY <1>4 DEF InFlight
  <1>6. ASSUME Load PROVE CrudTypeOK'
    <2>1. calls' \subseteq Call /\ made' \in 0 .. MaxCalls
      BY <1>6, SendsTypes, AboutTypes DEF Load, Kinds, JobKinds
    <2> QED BY <1>5, <1>6, <2>1 DEF Load, ServerTypeOK
  <1>7. ASSUME StartAdd \/ Cancel PROVE CrudTypeOK'
    BY <1>1, <1>7 DEF StartAdd, Cancel, Cancelled, ServerTypeOK, serverVars
  <1>8. ASSUME NEW b \in budgets, StartEdit(b) PROVE CrudTypeOK'
    BY <1>2, <1>8 DEF StartEdit, ServerTypeOK, serverVars
  <1>9. ASSUME NEW b \in budgets, Removes(b) PROVE CrudTypeOK'
    <2>1. calls' \subseteq Call /\ made' \in 0 .. MaxCalls
      BY <1>9, SendsTypes, AboutTypes DEF Removes, Kinds, JobKinds
    <2> QED BY <1>5, <1>9, <2>1 DEF Removes, ServerTypeOK, Without, Overlapped
  <1>10. ASSUME NEW b \in budgets, NEW a \in Amounts, Updates(b, a) PROVE CrudTypeOK'
    <2> DEFINE item == [b EXCEPT !.amount = a]
    <2>1. item \in Budget
      BY DEF Budget
    <2>2. budgets' = Replaced(budgets, item) /\ Sends("update", "save", {item}, budgets)
      BY <1>10 DEF Updates
    <2> HIDE DEF item
    <2>3. calls' \subseteq Call /\ made' \in 0 .. MaxCalls
      BY <2>1, <2>2, SendsTypes, AboutTypes DEF Kinds, JobKinds
    <2> QED BY <1>5, <1>10, <2>1, <2>2, <2>3, ReplacedTypes DEF Updates, ServerTypeOK, Overlapped
  <1>11. ASSUME NEW k \in Categories, RefusesAdd(k) PROVE CrudTypeOK'
    BY <1>1, <1>11 DEF RefusesAdd, Cancelled, ServerTypeOK, serverVars
  <1>12. ASSUME NEW k \in Categories, NEW a \in Amounts, Adds(k, a) PROVE CrudTypeOK'
    <2> DEFINE item == [n |-> made + 1, temp |-> TRUE, category |-> k, amount |-> a]
    <2>1. made < MaxCalls
      BY <1>12 DEF Adds, Sends
    <2>2. item \in Budget
      BY <2>1 DEF Budget, Numbers, ServerTypeOK
    <2>3. budgets' = budgets \cup {item} /\ Sends("create", "save", {item}, {})
          /\ Overlapped(item.n)
      BY <1>12 DEF Adds
    <2> HIDE DEF item
    <2>4. calls' \subseteq Call /\ made' \in 0 .. MaxCalls
      <3>1. "create" \in Kinds /\ "save" \in JobKinds /\ {item} \in Abouts /\ {} \in SUBSET Budget
        BY <2>2, AboutTypes DEF Kinds, JobKinds
      <3> QED BY <2>3, <3>1, SendsTypes
    <2> QED BY <1>5, <1>12, <2>2, <2>3, <2>4 DEF Adds, ServerTypeOK, Overlapped
  <1>13. ASSUME NEW c \in calls, CrudServer(c) PROVE CrudTypeOK'
    BY <1>13, ServerTypes DEF CrudServer, pageVars
  <1>14. ASSUME NEW c \in calls, Loses(c) PROVE CrudTypeOK'
    BY <1>4, <1>14, ServerTypes DEF Loses
  <1>15. ASSUME NEW c \in calls PROVE Confirmed(c) \subseteq Budget
    <2>1. c.got # {} => (CHOOSE d \in c.got : TRUE) \in Budget
      BY <1>3
    <2> QED BY <2>1 DEF Confirmed
  <1>16. ASSUME NEW c \in calls, CrudAnswer(c) PROVE CrudTypeOK'
    <2>1. calls' \subseteq Call /\ UNCHANGED <<stored, cache, made>>
      BY <1>16 DEF CrudAnswer, Loaded, AddAnswered, ChangeAnswered, Retires, ServerTypeOK
    <2>2. ServerTypeOK'
      BY <2>1 DEF ServerTypeOK
    <2>3. CASE Loaded(c)
      BY <1>3, <2>2, <2>3 DEF Loaded
    <2>4. CASE AddAnswered(c)
      BY <1>1, <1>15, <2>2, <2>4 DEF AddAnswered, Cancelled
    <2>5. CASE ChangeAnswered(c)
      <3>1. budgets' \subseteq Budget /\ astray' \subseteq Numbers /\ error' \in BOOLEAN
        BY <1>3, <1>4, <1>15, <2>5 DEF ChangeAnswered
      <3>2. isAdding' \in BOOLEAN /\ editingId' \in Numbers \X BOOLEAN
        BY <1>1, <2>5 DEF ChangeAnswered, Cancelled
      <3> QED BY <2>2, <2>5, <3>1, <3>2 DEF ChangeAnswered
    <2> QED BY <1>16, <2>3, <2>4, <2>5 DEF CrudAnswer
  <1>17. CASE UNCHANGED crudVars
    BY <1>17 DEF crudVars, serverVars, pageVars, ServerTypeOK
  <1> QED BY <1>6, <1>7, <1>8, <1>9, <1>10, <1>11, <1>12, <1>13, <1>14, <1>16, <1>17 DEF CrudNext
-----------------------------------------------------------------------------
(* The rows in sight, wherever they are: shown, stored, cached, on their way *)
(* or remembered.                                                            *)
Seen(b) == \/ b \in budgets \/ b \in stored \/ (cache # NoList /\ b \in cache)
           \/ \E c \in calls : b \in c.got \/ b \in c.was \/ b \in c.about

\* A number is used once: all rows that bear it are of one category.
NumberedOK == /\ \A b \in Budget : Seen(b) => b.n <= made
              /\ \A b, d \in Budget : Seen(b) /\ Seen(d) /\ b.n = d.n => b.category = d.category
\* Every list has one row of each category, those to come or to be put back too.
OneEach(list) == \A b, d \in list : b.category = d.category => b = d
ListsOK == /\ OneEach(budgets) /\ OneEach(stored) /\ (cache # NoList => OneEach(cache))
           /\ \A c \in calls : OneEach(c.got) /\ OneEach(c.was)
\* The answer to a change is about the budget that the change was about.
AnswersOK == \A c \in calls : c.kind # "list" => \A b \in c.got, d \in c.about : b.n = d.n
CrudInv == CrudTypeOK /\ NumberedOK /\ ListsOK /\ AnswersOK

\* A row in sight has the number and the category of this one.
Kin(b) == \E d \in Budget : Seen(d) /\ d.n = b.n /\ d.category = b.category

LEMMA InitInv == CrudInit => CrudInv
  <1> SUFFICES ASSUME CrudInit PROVE CrudInv
    OBVIOUS
  <1>1. CrudTypeOK
    BY InitTypes
  <1>2. budgets = {} /\ made = 1 /\ cache \in {NoList, stored}
        /\ \A c \in calls : c.got = {} /\ c.was = {} /\ c.about = {}
    BY DEF CrudInit, CrudParts, ServerInit
  <1>3. stored = {} \/ \E b \in Budget : b.n = 0 /\ stored = {b}
    BY DEF CrudInit, ServerInit
  <1>4. \A b \in Budget : Seen(b) => b \in stored
    BY <1>2 DEF Seen
  <1>5. NumberedOK
    BY <1>2, <1>3, <1>4 DEF NumberedOK
  <1>6. ListsOK
    BY <1>2, <1>3 DEF ListsOK, OneEach
  <1>7. AnswersOK
    BY <1>2 DEF AnswersOK
  <1> QED BY <1>1, <1>5, <1>6, <1>7 DEF CrudInv

LEMMA CallParts ==
    ASSUME CrudTypeOK
    PROVE  /\ \A c \in calls : /\ c \in Call /\ c.got \subseteq Budget /\ c.was \subseteq Budget
                               /\ c.about \subseteq Budget
           /\ budgets \subseteq Budget /\ stored \subseteq Budget
           /\ cache # NoList => cache \subseteq Budget
           /\ made \in Nat
  BY CallType, AboutRows DEF CrudTypeOK, ServerTypeOK

\* A row of a list that the page or the server holds is in sight.
LEMMA SeenIsKin == \A b \in Budget : Seen(b) => Kin(b)
  BY DEF Kin

LEMMA Inherited ==
    ASSUME NumberedOK, made \in Nat, made' \in Nat, made' >= made,
           \A b \in Budget : Seen(b)' => Kin(b)
    PROVE  NumberedOK'
  <1>1. \A b \in Budget : b.n \in Nat
    BY DEF Budget, Numbers
  <1>2. \A b \in Budget : Seen(b)' => b.n <= made'
    BY <1>1 DEF Kin, NumberedOK
  <1>3. \A b, d \in Budget : Seen(b)' /\ Seen(d)' /\ b.n = d.n => b.category = d.category
    BY DEF Kin, NumberedOK
  <1> QED BY <1>2, <1>3 DEF NumberedOK

\* A change of rows that keeps their categories keeps them one of each.
LEMMA ReplacedEach ==
    ASSUME NEW list \in SUBSET Budget, OneEach(list), NEW d \in Budget,
           \A b \in list : b.n = d.n => b.category = d.category
    PROVE  OneEach(Replaced(list, d))
  <1> DEFINE f(b) == IF SameId(b, d) THEN d ELSE b
  <1>1. \A b \in list : f(b).category = b.category
    BY DEF SameId
  <1>2. Replaced(list, d) = {f(b) : b \in list}
    BY DEF Replaced
  <1>3. \A b, e \in list : f(b).category = f(e).category => f(b) = f(e)
    BY <1>1 DEF OneEach
  <1> HIDE DEF f
  <1> QED BY <1>2, <1>3 DEF OneEach
LEMMA ReplacedRows ==
    ASSUME NEW list, NEW d, NEW b \in Replaced(list, d)
    PROVE  b = d \/ b \in list
  BY DEF Replaced

(* A step of the server, or the loss of an answer: one call turns into x.    *)
LEMMA CallTurns ==
    ASSUME CrudInv, CrudTypeOK', made' = made, budgets' = budgets,
           NEW c \in calls, NEW x, calls' = (calls \ {c}) \cup {x},
           x.was = c.was, x.about = c.about, x.kind = c.kind,
           \A b \in Budget : b \in x.got \/ b \in stored' \/ (cache' # NoList /\ b \in cache') => Kin(b),
           OneEach(x.got), OneEach(stored'), cache' # NoList => OneEach(cache'),
           x.kind # "list" => \A b \in x.got, d \in x.about : b.n = d.n
    PROVE  CrudInv'
  <1> USE DEF CrudInv
  <1>1. \A b \in Budget : Seen(b)' => Kin(b)
    <2>1. SUFFICES ASSUME NEW b \in Budget, Seen(b)' PROVE Kin(b)
      OBVIOUS
    <2>2. CASE b \in x.got \/ b \in stored' \/ (cache' # NoList /\ b \in cache')
      BY <2>2
    <2>3. CASE b \in budgets \/ \E e \in calls : b \in e.got \/ b \in e.was \/ b \in e.about
      BY <2>3, SeenIsKin DEF Seen
    <2> QED BY <2>1, <2>2, <2>3 DEF Seen
  <1>2. NumberedOK'
    BY <1>1, Inherited, CallParts
  <1>3. ListsOK'
    BY DEF ListsOK
  <1>4. AnswersOK'
    BY DEF AnswersOK
  <1> QED BY <1>2, <1>3, <1>4
LEMMA ServerKeeps ==
    ASSUME CrudInv, CrudTypeOK', budgets' = budgets,
           NEW c \in calls, ServerDoes(c) \/ Breaks(c)
    PROVE  CrudInv'
  <1>0. /\ c \in Call /\ c.got \subseteq Budget /\ c.about \subseteq Budget /\ stored \subseteq Budget
        /\ OneEach(c.got) /\ OneEach(stored) /\ (cache # NoList => OneEach(cache))
        /\ c.kind # "list" => \A b \in c.got, d \in c.about : b.n = d.n
    BY CallParts DEF CrudInv, ListsOK, AnswersOK
  <1>1. \A b \in Budget : b \in c.got \/ b \in c.about \/ b \in stored \/ (cache # NoList /\ b \in cache) => Kin(b)
    BY SeenIsKin DEF Seen
  <1>2. \A p, g : LET x == [c EXCEPT !.phase = p, !.got = g]
                  IN x.was = c.was /\ x.about = c.about /\ x.kind = c.kind /\ x.got = g
    BY <1>0, CallType
  <1>3. \A p : LET x == [c EXCEPT !.phase = p]
               IN x.was = c.was /\ x.about = c.about /\ x.kind = c.kind /\ x.got = c.got
    BY <1>0, CallType
  <1>4. made' = made
    BY DEF ServerDoes, CacheHit, ReadsTable, FillsCache, Commits, Invalidates, Breaks
  <1>5. ASSUME CacheHit(c) PROVE CrudInv'
    <2> DEFINE x == [c EXCEPT !.phase = "done", !.got = cache]
    <2>1. calls' = (calls \ {c}) \cup {x} /\ UNCHANGED <<stored, cache>>
          /\ cache # NoList /\ c.kind = "list"
      BY <1>5 DEF CacheHit, Becomes
    <2>2. x.was = c.was /\ x.about = c.about /\ x.kind = c.kind /\ x.got = cache
      BY <1>2
    <2> HIDE DEF x
    <2> QED BY <1>0, <1>1, <1>4, <2>1, <2>2, CallTurns
  <1>6. ASSUME ReadsTable(c) PROVE CrudInv'
    <2> DEFINE x == [c EXCEPT !.phase = "filling", !.got = stored]
    <2>1. calls' = (calls \ {c}) \cup {x} /\ UNCHANGED <<stored, cache>> /\ c.kind = "list"
      BY <1>6 DEF ReadsTable, Becomes
    <2>2. x.was = c.was /\ x.about = c.about /\ x.kind = c.kind /\ x.got = stored
      BY <1>2
    <2> HIDE DEF x
    <2> QED BY <1>0, <1>1, <1>4, <2>1, <2>2, CallTurns
  <1>7. ASSUME FillsCache(c) \/ Invalidates(c) \/ Breaks(c) PROVE CrudInv'
    <2>1. PICK p : calls' = (calls \ {c}) \cup {[c EXCEPT !.phase = p]}
      BY <1>7 DEF FillsCache, Invalidates, Breaks, Becomes
    <2>2. stored' = stored /\ cache' \in {cache, NoList, c.got}
      BY <1>7 DEF FillsCache, Invalidates, Breaks
    <2> DEFINE x == [c EXCEPT !.phase = p]
    <2>3. x.was = c.was /\ x.about = c.about /\ x.kind = c.kind /\ x.got = c.got
      BY <1>3
    <2>4. calls' = (calls \ {c}) \cup {x}
      BY <2>1
    <2> HIDE DEF x
    <2> QED BY <1>0, <1>1, <1>4, <2>2, <2>3, <2>4, CallTurns
  <1>8. ASSUME NEW p, calls' = (calls \ {c}) \cup {[c EXCEPT !.phase = p]}, cache' = cache,
               stored' \subseteq stored
        PROVE  CrudInv'
    <2> DEFINE x == [c EXCEPT !.phase = p]
    <2>1. x.was = c.was /\ x.about = c.about /\ x.kind = c.kind /\ x.got = c.got
      BY <1>3
    <2>2. calls' = (calls \ {c}) \cup {x} /\ OneEach(stored')
      BY <1>0, <1>8 DEF OneEach
    <2> HIDE DEF x
    <2> QED BY <1>0, <1>1, <1>4, <1>8, <2>1, <2>2, CallTurns
  <1>9. ASSUME NEW b \in c.about, Commits(c), Inserts(c, b), c.about = {b} PROVE CrudInv'
    <2> DEFINE row == [b EXCEPT !.temp = FALSE]
               x == [c EXCEPT !.phase = "committed", !.got = {row}]
    <2>1. row.n = b.n /\ row.category = b.category /\ Kin(b)
      BY <1>0, <1>1 DEF Budget
    <2>2. CASE \E d \in stored : d.category = b.category
      <3>1. stored' = stored /\ cache' = cache
            /\ calls' = (calls \ {c}) \cup {[c EXCEPT !.phase = "failed"]}
        BY <1>9, <2>2 DEF Inserts, Commits, Becomes
      <3> QED BY <1>8, <3>1
    <2>3. CASE ~\E d \in stored : d.category = b.category
      <3>1. stored' = stored \cup {row} /\ cache' = cache /\ calls' = (calls \ {c}) \cup {x}
        BY <1>9, <2>3 DEF Inserts, Commits, Becomes
      <3>2. x.was = c.was /\ x.about = c.about /\ x.kind = c.kind /\ x.got = {row}
        BY <1>2
      <3>3. Kin(row) /\ OneEach({row}) /\ OneEach(stored')
        BY <1>0, <2>1, <2>3, <3>1 DEF Kin, OneEach
      <3> HIDE DEF x, row
      <3> QED BY <1>0, <1>1, <1>4, <1>9, <2>1, <3>1, <3>2, <3>3, CallTurns
    <2> QED BY <2>2, <2>3
  <1>10. ASSUME NEW b \in c.about, Commits(c), Amends(c, b), c.about = {b} PROVE CrudInv'
    <2> DEFINE x == [c EXCEPT !.phase = "committed", !.got = {b}]
    <2>1. CASE ~\E d \in stored : SameId(d, b)
      <3>1. stored' = stored /\ cache' = cache
            /\ calls' = (calls \ {c}) \cup {[c EXCEPT !.phase = "failed"]}
        BY <1>10, <2>1 DEF Amends, Commits, Becomes
      <3> QED BY <1>8, <3>1
    <2>2. CASE \E d \in stored : SameId(d, b)
      <3>1. stored' = Replaced(stored, b) /\ cache' = cache /\ calls' = (calls \ {c}) \cup {x}
        BY <1>10, <2>2 DEF Amends, Commits, Becomes
      <3>2. x.was = c.was /\ x.about = c.about /\ x.kind = c.kind /\ x.got = {b}
        BY <1>2
      <3>3. b \in Budget /\ \A d \in stored : d.n = b.n => d.category = b.category
        BY <1>0 DEF CrudInv, NumberedOK, Seen
      <3>4. OneEach(stored') /\ OneEach({b})
        BY <1>0, <3>1, <3>3, ReplacedEach DEF OneEach
      <3>5. \A d \in Budget : d \in stored' => Kin(d)
        BY <1>1, <3>1, ReplacedRows
      <3> HIDE DEF x
      <3> QED BY <1>0, <1>1, <1>4, <1>10, <3>1, <3>2, <3>4, <3>5, CallTurns
    <2> QED BY <2>1, <2>2
  <1>11. ASSUME NEW b \in c.about, Commits(c), Erases(c, b) PROVE CrudInv'
    <2>1. stored' \subseteq stored /\ cache' = cache
          /\ calls' = (calls \ {c}) \cup {[c EXCEPT !.phase = "committed"]}
      BY <1>11 DEF Erases, Without, Commits, Becomes
    <2> QED BY <1>8, <2>1
  <1>12. ASSUME Commits(c) PROVE CrudInv'
    <2>1. PICK b \in c.about : Inserts(c, b) \/ Amends(c, b) \/ Erases(c, b)
      BY <1>12 DEF Commits
    <2>2. c.about = {b}
      BY <1>0, <2>1, CallType DEF Abouts
    <2> QED BY <1>9, <1>10, <1>11, <1>12, <2>1, <2>2
  <1> QED BY <1>5, <1>6, <1>7, <1>12 DEF ServerDoes
-----------------------------------------------------------------------------
(* The page's steps: a call is sent, or answered.                            *)
LEMMA NewNumber ==
    ASSUME CrudTypeOK, NumberedOK, made' = made + 1,
           NEW new, \A b, d \in new : b = d /\ b.n = made + 1,
           \A b \in Budget : Seen(b)' => Kin(b) \/ b \in new
    PROVE  NumberedOK'
  <1>1. made \in Nat /\ \A b \in Budget : b.n \in Nat
    BY CallParts DEF Budget, Numbers
  <1>2. \A b \in Budget : Kin(b) => b.n <= made
    BY DEF Kin, NumberedOK
  <1>3. \A b, d \in Budget : Kin(b) /\ Kin(d) /\ b.n = d.n => b.category = d.category
    BY DEF Kin, NumberedOK
  <1>4. \A b \in Budget : Seen(b)' => b.n <= made'
    BY <1>1, <1>2
  <1>5. \A b, d \in Budget : Seen(b)' /\ Seen(d)' /\ b.n = d.n => b.category = d.category
    BY <1>1, <1>2, <1>3
  <1> QED BY <1>4, <1>5 DEF NumberedOK

LEMMA SendsKeeps ==
    ASSUME CrudInv, CrudTypeOK', UNCHANGED <<stored, cache>>,
           NEW kind, NEW job, NEW about, NEW was, Sends(kind, job, about, was),
           NEW new, \A b, d \in new : b = d /\ b.n = made + 1,
           \A b \in Budget : b \in budgets' \/ b \in was \/ b \in about => Kin(b) \/ b \in new,
           OneEach(budgets'), OneEach(was)
    PROVE  CrudInv'
  <1> USE DEF CrudInv
  <1> DEFINE call == [no |-> made + 1, kind |-> kind, job |-> job, about |-> about,
                      got |-> {}, was |-> was, phase |-> "sent"]
  <1>1. calls' = calls \cup {call} /\ made' = made + 1
    BY DEF Sends
  <1>2. call.got = {} /\ call.was = was /\ call.about = about
    OBVIOUS
  <1> HIDE DEF call
  <1>3. ASSUME NEW b \in Budget, Seen(b)' PROVE Kin(b) \/ b \in new
    <2>1. CASE b \in budgets' \/ b \in was \/ b \in about
      BY <2>1
    <2>2. CASE Seen(b)
      BY <2>2, SeenIsKin
    <2> QED BY <1>1, <1>2, <1>3, <2>1, <2>2 DEF Seen
  <1>4. NumberedOK'
    BY <1>1, <1>3, NewNumber
  <1>5. ListsOK'
    BY <1>1, <1>2 DEF ListsOK, OneEach
  <1>6. AnswersOK'
    BY <1>1, <1>2 DEF AnswersOK
  <1> QED BY <1>4, <1>5, <1>6

LEMMA AnsweredKeeps ==
    ASSUME CrudInv, CrudTypeOK', UNCHANGED <<stored, cache, made>>,
           calls' \subseteq calls, OneEach(budgets'),
           \A b \in Budget : b \in budgets' => Kin(b)
    PROVE  CrudInv'
  <1> USE DEF CrudInv
  <1>1. ASSUME NEW b \in Budget, Seen(b)' PROVE Kin(b)
    <2>1. CASE b \in budgets'
      BY <2>1
    <2>2. CASE Seen(b)
      BY <2>2, SeenIsKin
    <2> QED BY <1>1, <2>1, <2>2 DEF Seen
  <1>2. NumberedOK'
    BY <1>1, Inherited, CallParts
  <1>3. ListsOK' /\ AnswersOK'
    BY DEF ListsOK, AnswersOK
  <1> QED BY <1>2, <1>3

\* A confirmed row is of the category of the row it replaces.
LEMMA ConfirmedEach ==
    ASSUME CrudInv, NEW c \in calls, c.kind # "list"
    PROVE  OneEach(Confirmed(c)) /\ \A b \in Budget : b \in Confirmed(c) => Kin(b)
  <1> DEFINE hit(b) == \E d \in c.about : SameId(b, d) /\ c.got # {}
             answer == CHOOSE d \in c.got : TRUE
             f(b) == IF hit(b) THEN answer ELSE b
  <1>1. c.got \subseteq Budget /\ c.about \subseteq Budget /\ budgets \subseteq Budget
    BY CallParts DEF CrudInv
  <1>2. ASSUME NEW b \in budgets PROVE f(b).category = b.category /\ f(b) \in Budget /\ Seen(f(b))
    <2>1. CASE hit(b)
      <3>1. PICK d \in c.about : SameId(b, d) /\ c.got # {}
        BY <2>1
      <3>2. answer \in c.got
        BY <3>1
      <3>3. answer.n = b.n
        BY <3>1, <3>2 DEF CrudInv, AnswersOK, SameId
      <3>4. Seen(answer) /\ Seen(b)
        BY <3>2 DEF Seen
      <3> QED BY <1>1, <2>1, <3>2, <3>3, <3>4 DEF CrudInv, NumberedOK
    <2>2. CASE ~hit(b)
      BY <1>1, <2>2 DEF Seen
    <2> QED BY <2>1, <2>2
  <1>3. Confirmed(c) = {f(b) : b \in budgets}
    BY DEF Confirmed
  <1> HIDE DEF f
  <1>4. OneEach(Confirmed(c))
    BY <1>2, <1>3 DEF CrudInv, ListsOK, OneEach
  <1> QED BY <1>2, <1>3, <1>4, SeenIsKin

LEMMA NextInv == CrudInv /\ [CrudNext]_crudVars => CrudInv'
  <1> SUFFICES ASSUME CrudInv, [CrudNext]_crudVars PROVE CrudInv'
    OBVIOUS
  <1>1. CrudTypeOK /\ CrudTypeOK'
    BY NextTypes DEF CrudInv
  <1>2. /\ OneEach(budgets) /\ OneEach({}) /\ budgets \subseteq Budget
        /\ \A b \in Budget : b \in budgets => Kin(b)
    BY <1>1, CallParts, SeenIsKin DEF CrudInv, ListsOK, OneEach, Seen
  <1>3. \A c \in calls : /\ OneEach(c.got) /\ OneEach(c.was)
                         /\ \A b \in Budget : b \in c.got \/ b \in c.was => Kin(b)
    BY SeenIsKin DEF CrudInv, ListsOK, Seen
  <1>4. ASSUME NEW kind, NEW job, NEW about, NEW was, Sends(kind, job, about, was),
               UNCHANGED <<stored, cache>>, OneEach(budgets'), OneEach(was),
               \A b \in Budget : b \in budgets' \/ b \in was \/ b \in about => Kin(b)
        PROVE  CrudInv'
    <2> DEFINE new == {}
    <2>1. \A b, d \in new : b = d /\ b.n = made + 1
      OBVIOUS
    <2>2. \A b \in Budget : b \in budgets' \/ b \in was \/ b \in about => Kin(b) \/ b \in new
      BY <1>4
    <2> HIDE DEF new
    <2> QED BY <1>1, <1>4, <2>1, <2>2, SendsKeeps
  <1>5. ASSUME Load PROVE CrudInv'
    BY <1>1, <1>2, <1>4, <1>5 DEF Load
  <1>6. ASSUME NEW b \in budgets, NEW a \in Amounts, Updates(b, a) PROVE CrudInv'
    <2> DEFINE item == [b EXCEPT !.amount = a]
    <2>1. item \in Budget /\ item.n = b.n /\ item.category = b.category
      BY <1>2 DEF Budget
    <2>2. budgets' = Replaced(budgets, item) /\ Sends("update", "save", {item}, budgets)
          /\ UNCHANGED <<stored, cache>>
      BY <1>6 DEF Updates
    <2> HIDE DEF item
    <2>3. Kin(item)
      BY <1>2, <2>1 DEF Kin
    <2>4. \A d \in budgets : d.n = item.n => d.category = item.category
      BY <1>2, <2>1 DEF CrudInv, NumberedOK, Seen
    <2>5. OneEach(budgets')
      BY <1>2, <2>1, <2>2, <2>4, ReplacedEach
    <2>6. \A d \in Budget : d \in budgets' => Kin(d)
      BY <1>2, <2>2, <2>3, ReplacedRows
    <2> QED BY <1>1, <1>2, <2>2, <2>3, <2>5, <2>6, <1>4
  <1>7. ASSUME NEW b \in budgets, Removes(b) PROVE CrudInv'
    <2>1. budgets' \subseteq budgets /\ Sends("delete", "delete", {b}, budgets)
          /\ UNCHANGED <<stored, cache>>
      BY <1>7 DEF Removes, Without
    <2>2. OneEach(budgets')
      BY <1>2, <2>1 DEF OneEach
    <2> QED BY <1>1, <1>2, <2>1, <2>2, <1>4
  <1>8. ASSUME NEW k \in Categories, NEW a \in Amounts, Adds(k, a) PROVE CrudInv'
    <2> DEFINE item == [n |-> made + 1, temp |-> TRUE, category |-> k, amount |-> a]
    <2>1. made + 1 \in Numbers
      BY <1>1, <1>8 DEF Adds, Sends, Numbers, CrudTypeOK, ServerTypeOK
    <2>2. item \in Budget /\ item.n = made + 1 /\ item.category = k
      BY <2>1 DEF Budget
    <2>3. budgets' = budgets \cup {item} /\ Sends("create", "save", {item}, {})
          /\ UNCHANGED <<stored, cache>> /\ ~Exists(k)
      BY <1>8 DEF Adds
    <2> HIDE DEF item
    <2>4. OneEach(budgets')
      BY <1>2, <2>2, <2>3 DEF OneEach, Exists
    <2>5. \A b \in Budget : b \in budgets' \/ b \in {} \/ b \in {item} => Kin(b) \/ b \in {item}
      BY <1>2, <2>3
    <2>6. \A b, d \in {item} : b = d /\ b.n = made + 1
      BY <2>2
    <2> QED BY <1>1, <1>2, <2>3, <2>4, <2>5, <2>6, SendsKeeps
  <1>9. ASSUME UNCHANGED <<serverVars, budgets>> PROVE CrudInv'
    BY <1>1, <1>2, <1>9, AnsweredKeeps DEF serverVars
  <1>10. ASSUME NEW c \in calls, CrudServer(c) \/ Loses(c) PROVE CrudInv'
    <2>1. (ServerDoes(c) \/ Breaks(c)) /\ budgets' = budgets
      BY <1>10 DEF CrudServer, Loses, pageVars
    <2> QED BY <1>1, <2>1, ServerKeeps
  <1>11. ASSUME NEW c \in calls, CrudAnswer(c) PROVE CrudInv'
    <2>1. calls' \subseteq calls /\ UNCHANGED <<stored, cache, made>>
      BY <1>11 DEF CrudAnswer, Loaded, AddAnswered, ChangeAnswered, Retires
    <2>2. OneEach(budgets') /\ \A b \in Budget : b \in budgets' => Kin(b)
      <3>1. CASE Loaded(c)
        BY <1>2, <1>3, <3>1 DEF Loaded
      <3>2. ASSUME c.kind # "list", budgets' = Confirmed(c)
            PROVE  OneEach(budgets') /\ \A b \in Budget : b \in budgets' => Kin(b)
        BY <3>2, ConfirmedEach
      <3>3. CASE AddAnswered(c)
        <4>1. c.kind # "list" /\ (budgets' = Confirmed(c) \/ budgets' \subseteq budgets)
          BY <3>3 DEF AddAnswered
        <4> QED BY <1>2, <3>2, <4>1 DEF OneEach
      <3>4. CASE ChangeAnswered(c)
        BY <1>3, <3>2, <3>4 DEF ChangeAnswered
      <3> QED BY <1>11, <3>1, <3>3, <3>4 DEF CrudAnswer
    <2> QED BY <1>1, <2>1, <2>2, AnsweredKeeps
  <1>12. ASSUME StartAdd \/ Cancel \/ (\E b \in budgets : StartEdit(b))
                \/ (\E k \in Categories : RefusesAdd(k)) \/ UNCHANGED crudVars
         PROVE  CrudInv'
    BY <1>9, <1>12 DEF StartAdd, Cancel, StartEdit, RefusesAdd, crudVars, pageVars
  <1> QED BY <1>5, <1>6, <1>7, <1>8, <1>10, <1>11, <1>12 DEF CrudNext

-----------------------------------------------------------------------------
(* The variables of the page, the server and the calls keep their types.     *)
THEOREM CrudTypes == CrudSpec => []CrudTypeOK
  BY InitTypes, NextTypes, PTL DEF CrudSpec

(* No order of answers, rollbacks and late lists shows two budgets of one    *)
(* category: the check of the form looks at the list of the page only, but   *)
(* the row it lets in is the first of a number, the server refuses a second  *)
(* row of a category, and lists are only put back as a whole.                *)
THEOREM OneOfEachCategory == CrudSpec => []OneBudgetPerCategory
  <1>1. CrudInv => OneBudgetPerCategory
    BY DEF CrudInv, ListsOK, OneEach, OneBudgetPerCategory
  <1> QED BY <1>1, InitInv, NextInv, PTL DEF CrudSpec

-----------------------------------------------------------------------------
(* What is shown settles.  For every number that is not astray one open call *)
(* concerns it at most; the cached list has its rows, unless a committed     *)
(* change is about to drop it; a list that was read has its rows; and once a *)
(* list was loaded, the page and the table differ by what that call has yet  *)
(* to do, and by nothing without one.                                        *)
Level(k) == Of(budgets, k) = Of(stored, k)
Served(c) == c.phase \in {"committed", "done"}
Alone(k) == \A c, d \in calls : k \in Concerns(c) /\ k \in Concerns(d) => c = d
CacheLevel(k) == \/ cache = NoList
                 \/ Of(cache, k) = Of(stored, k)
                 \/ \E c \in calls : c.kind # "list" /\ k \in Concerns(c) /\ c.phase = "committed"
ListLevel(k, c) == c.kind = "list" /\ c.phase \in {"filling", "done"} => Of(c.got, k) = Of(stored, k)
CreateLevel(k, c, d) ==
    c.kind = "create" =>
        /\ Of(budgets, k) = {d}
        /\ IF Served(c) THEN c.got = {[d EXCEPT !.temp = FALSE]} /\ Of(stored, k) = c.got
           ELSE Of(stored, k) = {}
UpdateLevel(k, c, d) ==
    c.kind = "update" =>
        IF Served(c) THEN c.got = {d} /\ Level(k) /\ \A b \in Of(stored, k) : SameId(b, d) => b = d
        ELSE Of(c.was, k) = Of(stored, k) /\ Of(budgets, k) = Replaced(Of(stored, k), d)
DeleteLevel(k, c, d) ==
    c.kind = "delete" =>
        /\ c.got = {}
        /\ IF Served(c) THEN Level(k)
           ELSE Of(c.was, k) = Of(stored, k) /\ Of(budgets, k) = Without(Of(stored, k), d)
ChangeLevel(k, c) == \A d \in c.about : CreateLevel(k, c, d) /\ UpdateLevel(k, c, d) /\ DeleteLevel(k, c, d)
CallLevel(k, c) == ListLevel(k, c) /\ (loadedRef => ChangeLevel(k, c))
Settled(k) == /\ Alone(k) /\ CacheLevel(k)
              /\ \A c \in calls : k \in Concerns(c) => CallLevel(k, c)
              /\ loadedRef /\ k \notin InFlight => Level(k)
PhasesOK == \A c \in calls : /\ c.phase = "filling" => c.kind = "list"
                             /\ c.phase = "committed" => c.kind # "list"
SettleInv == CrudInv /\ PhasesOK /\ \A k \in Numbers \ astray : Settled(k)

\* The rows of a number in a list that was changed.
LEMMA ReplacedOf ==
    ASSUME NEW list, NEW d, NEW k
    PROVE  /\ d.n = k => Of(Replaced(list, d), k) = Replaced(Of(list, k), d)
           /\ d.n # k => Of(Replaced(list, d), k) = Of(list, k)
  BY DEF Of, Replaced, SameId
LEMMA WithoutOf ==
    ASSUME NEW list, NEW d, NEW k
    PROVE  /\ d.n = k => Of(Without(list, d), k) = Without(Of(list, k), d)
           /\ d.n # k => Of(Without(list, d), k) = Of(list, k)
  BY DEF Of, Without, SameId
LEMMA AddedOf ==
    ASSUME NEW list, NEW d, NEW k
    PROVE  /\ d.n = k => Of(list \cup {d}, k) = Of(list, k) \cup {d}
           /\ d.n # k => Of(list \cup {d}, k) = Of(list, k)
  BY DEF Of

LEMMA InFlightIs == \A k : k \in InFlight <=> \E c \in calls : k \in Concerns(c)
  BY DEF InFlight

\* A call says the same of rows that do not change.
LEMMA SameLevel ==
    ASSUME NEW k, NEW c, CallLevel(k, c), loadedRef' = loadedRef,
           Of(stored', k) = Of(stored, k), Of(budgets', k) = Of(budgets, k)
    PROVE  CallLevel(k, c)'
  BY DEF CallLevel, ListLevel, ChangeLevel, CreateLevel, UpdateLevel, DeleteLevel, Level

\* A change is sent about a number that no open call concerns.
LEMMA SentSettles ==
    ASSUME NEW k, Settled(k), NEW call, NEW d, calls' = calls \cup {call},
           call.kind # "list", call.about = {d}, UNCHANGED <<stored, cache, loadedRef>>,
           k = d.n => k \notin InFlight /\ (loadedRef => ChangeLevel(k, call)'),
           k # d.n => Of(budgets', k) = Of(budgets, k)
    PROVE  Settled(k)'
  <1>1. k \in Concerns(call) <=> k = d.n
    BY DEF Concerns
  <1>2. CASE k = d.n
    <2>1. \A c \in calls : k \notin Concerns(c)
      BY <1>2, InFlightIs
    <2>2. Alone(k)' /\ CacheLevel(k)'
      BY <2>1 DEF Settled, Alone, CacheLevel
    <2>3. CallLevel(k, call)'
      BY <1>2 DEF CallLevel, ListLevel
    <2>4. k \in InFlight'
      BY <1>1, <1>2 DEF InFlight
    <2> QED BY <2>1, <2>2, <2>3, <2>4 DEF Settled
  <1>3. CASE k # d.n
    <2>1. Alone(k)' /\ CacheLevel(k)'
      BY <1>1, <1>3 DEF Settled, Alone, CacheLevel
    <2>2. ASSUME NEW c \in calls', k \in Concerns(c) PROVE CallLevel(k, c)'
      BY <1>1, <1>3, <2>2, SameLevel DEF Settled
    <2>3. k \in InFlight' <=> k \in InFlight
      BY <1>1, <1>3 DEF InFlight
    <2>4. loadedRef' /\ k \notin InFlight' => Level(k)'
      BY <1>3, <2>3 DEF Settled, Level
    <2> QED BY <2>1, <2>2, <2>4 DEF Settled
  <1> QED BY <1>2, <1>3

\* An open call goes on, on the server or to its failure.
LEMMA TurnSettles ==
    ASSUME NEW k, Settled(k), NEW c \in calls, NEW x, calls' = (calls \ {c}) \cup {x},
           Concerns(x) = Concerns(c), Of(budgets', k) = Of(budgets, k), loadedRef' = loadedRef,
           k \notin Concerns(c) => Of(stored', k) = Of(stored, k) /\ cache' \in {cache, NoList},
           k \in Concerns(c) => CacheLevel(k)' /\ CallLevel(k, x)'
    PROVE  Settled(k)'
  <1>1. Alone(k)'
    BY DEF Settled, Alone
  <1>2. \A e \in calls : k \in Concerns(c) /\ k \in Concerns(e) => e = c
    BY DEF Settled, Alone
  <1>3. CASE k \in Concerns(c)
    <2>1. k \in InFlight'
      BY <1>3 DEF InFlight
    <2> QED BY <1>1, <1>2, <1>3, <2>1 DEF Settled
  <1>4. CASE k \notin Concerns(c)
    <2>1. CacheLevel(k)'
      BY <1>4 DEF Settled, CacheLevel
    <2>2. ASSUME NEW e \in calls', k \in Concerns(e) PROVE CallLevel(k, e)'
      BY <1>4, <2>2, SameLevel DEF Settled
    <2>3. k \in InFlight' <=> k \in InFlight
      BY <1>4 DEF InFlight
    <2>4. loadedRef' /\ k \notin InFlight' => Level(k)'
      BY <1>4, <2>3 DEF Settled, Level
    <2> QED BY <1>1, <2>1, <2>2, <2>4 DEF Settled
  <1> QED BY <1>3, <1>4

\* An open call is answered.
LEMMA AnswerSettles ==
    ASSUME NEW k, Settled(k), NEW c \in calls, calls' = calls \ {c}, UNCHANGED <<stored, cache>>,
           c.phase # "committed",
           k \notin Concerns(c) => Of(budgets', k) = Of(budgets, k) /\ loadedRef' = loadedRef,
           k \in Concerns(c) => (loadedRef' => Level(k)')
    PROVE  Settled(k)'
  <1>1. Alone(k)'
    BY DEF Settled, Alone
  <1>2. \A e \in calls : k \in Concerns(c) /\ k \in Concerns(e) => e = c
    BY DEF Settled, Alone
  <1>3. CacheLevel(k)'
    BY DEF Settled, CacheLevel
  <1>4. CASE k \in Concerns(c)
    BY <1>1, <1>2, <1>3, <1>4 DEF Settled
  <1>5. CASE k \notin Concerns(c)
    <2>2. ASSUME NEW e \in calls', k \in Concerns(e) PROVE CallLevel(k, e)'
      BY <1>5, <2>2, SameLevel DEF Settled
    <2>3. k \in InFlight' <=> k \in InFlight
      BY <1>5 DEF InFlight
    <2>4. loadedRef' /\ k \notin InFlight' => Level(k)'
      BY <1>5, <2>3 DEF Settled, Level
    <2> QED BY <1>1, <1>3, <2>2, <2>4 DEF Settled
  <1> QED BY <1>4, <1>5

LEMMA TurnsKeepKind ==
    ASSUME NEW c \in Call
    PROVE  /\ \A p : LET x == [c EXCEPT !.phase = p]
                     IN /\ x.was = c.was /\ x.about = c.about /\ x.kind = c.kind /\ x.got = c.got
                        /\ x.phase = p
           /\ \A p, g : LET x == [c EXCEPT !.phase = p, !.got = g]
                        IN /\ x.was = c.was /\ x.about = c.about /\ x.kind = c.kind /\ x.got = g
                           /\ x.phase = p
  BY CallType

\* The steps of the server, and lost answers.
LEMMA ServerSettles ==
    ASSUME SettleInv, NEW c \in calls, CrudServer(c) \/ Loses(c), NEW k \in Numbers \ astray'
    PROVE  Settled(k)'
  <1> USE DEF SettleInv, CrudInv
  <1>1. UNCHANGED <<budgets, loadedRef>> /\ k \notin astray
    BY DEF CrudServer, Loses, pageVars
  <1>2. /\ c \in Call /\ Settled(k) /\ stored \subseteq Budget
        /\ k \in Concerns(c) => CallLevel(k, c)
    BY <1>1, CallParts DEF Settled
  <1>3. c.phase # "committed" /\ k \in Concerns(c) => cache = NoList \/ Of(cache, k) = Of(stored, k)
    BY <1>2 DEF Settled, Alone, CacheLevel
  <1>4. ASSUME NEW x, calls' = (calls \ {c}) \cup {x}, x.kind = c.kind, x.about = c.about,
               k \notin Concerns(c) => Of(stored', k) = Of(stored, k) /\ cache' \in {cache, NoList},
               k \in Concerns(c) => CacheLevel(k)' /\ CallLevel(k, x)'
        PROVE  Settled(k)'
    <2>1. Concerns(x) = Concerns(c)
      BY <1>4 DEF Concerns
    <2> QED BY <1>1, <1>2, <1>4, <2>1, TurnSettles
  <1>5. c.kind = "list" => k \in Concerns(c)
    BY DEF Concerns
  <1>6. CASE Loses(c)
    <2> DEFINE x == [c EXCEPT !.phase = "failed"]
    <2>1. /\ calls' = (calls \ {c}) \cup {x} /\ UNCHANGED <<stored, cache>>
          /\ c.phase \in {"sent", "done"}
          /\ c.kind # "list" /\ c.phase = "done" => k \notin Concerns(c)
      BY <1>6 DEF Loses, Breaks, Becomes, Mutates
    <2>2. /\ x.was = c.was /\ x.about = c.about /\ x.kind = c.kind /\ x.got = c.got
          /\ x.phase = "failed"
      BY <1>2, TurnsKeepKind
    <2> HIDE DEF x
    <2>3. ASSUME k \in Concerns(c) PROVE CacheLevel(k)' /\ CallLevel(k, x)'
      <3>1. CacheLevel(k)'
        BY <1>3, <2>1, <2>3 DEF CacheLevel
      <3>2. CASE c.kind = "list"
        BY <2>2, <3>1, <3>2 DEF CallLevel, ListLevel, ChangeLevel, CreateLevel, UpdateLevel, DeleteLevel
      <3>3. CASE c.kind # "list"
        <4>1. c.phase = "sent" /\ CallLevel(k, c)'
          BY <1>1, <1>2, <2>1, <2>3, <3>3, SameLevel
        <4> QED BY <2>2, <3>1, <3>3, <4>1
                DEF CallLevel, ListLevel, ChangeLevel, CreateLevel, UpdateLevel, DeleteLevel, Level, Served
      <3> QED BY <3>1, <3>2, <3>3
    <2> QED BY <1>4, <2>1, <2>2, <2>3
  <1>7. CASE CacheHit(c)
    <2>0. PICK g : g = cache
      OBVIOUS
    <2> DEFINE x == [c EXCEPT !.phase = "done", !.got = g]
    <2>1. /\ calls' = (calls \ {c}) \cup {x} /\ UNCHANGED <<stored, cache>>
          /\ c.phase = "sent" /\ c.kind = "list" /\ cache # NoList
      BY <1>7, <2>0 DEF CacheHit, Becomes
    <2>2. x.about = c.about /\ x.kind = c.kind /\ x.got = g
      BY <1>2, TurnsKeepKind
    <2> HIDE DEF x
    <2>3. Of(g, k) = Of(stored, k)
      BY <1>3, <1>5, <2>0, <2>1
    <2>4. CacheLevel(k)' /\ CallLevel(k, x)'
      BY <2>0, <2>1, <2>2, <2>3
         DEF CacheLevel, CallLevel, ListLevel, ChangeLevel, CreateLevel, UpdateLevel, DeleteLevel
    <2> QED BY <1>4, <1>5, <2>1, <2>2, <2>4
  <1>8. CASE ReadsTable(c)
    <2>0. PICK g : g = stored
      OBVIOUS
    <2> DEFINE x == [c EXCEPT !.phase = "filling", !.got = g]
    <2>1. /\ calls' = (calls \ {c}) \cup {x} /\ UNCHANGED <<stored, cache>>
          /\ c.kind = "list" /\ cache = NoList
      BY <1>8, <2>0 DEF ReadsTable, Becomes
    <2>2. x.about = c.about /\ x.kind = c.kind /\ x.got = g
      BY <1>2, TurnsKeepKind
    <2> HIDE DEF x
    <2>4. CacheLevel(k)' /\ CallLevel(k, x)'
      BY <2>0, <2>1, <2>2
         DEF CacheLevel, CallLevel, ListLevel, ChangeLevel, CreateLevel, UpdateLevel, DeleteLevel
    <2> QED BY <1>4, <1>5, <2>1, <2>2, <2>4
  <1>9. CASE FillsCache(c)
    <2> DEFINE x == [c EXCEPT !.phase = "done"]
    <2>1. /\ calls' = (calls \ {c}) \cup {x} /\ stored' = stored /\ cache' = c.got
          /\ c.kind = "list" /\ c.phase = "filling"
      BY <1>9 DEF FillsCache, Becomes, PhasesOK
    <2>2. x.about = c.about /\ x.kind = c.kind /\ x.got = c.got
      BY <1>2, TurnsKeepKind
    <2> HIDE DEF x
    <2>3. Of(c.got, k) = Of(stored, k)
      BY <1>2, <1>5, <2>1 DEF CallLevel, ListLevel
    <2>4. CacheLevel(k)' /\ CallLevel(k, x)'
      BY <2>1, <2>2, <2>3
         DEF CacheLevel, CallLevel, ListLevel, ChangeLevel, CreateLevel, UpdateLevel, DeleteLevel
    <2> QED BY <1>4, <1>5, <2>1, <2>2, <2>4
  <1>10. CASE Invalidates(c)
    <2> DEFINE x == [c EXCEPT !.phase = "done"]
    <2>1. /\ calls' = (calls \ {c}) \cup {x} /\ stored' = stored /\ cache' = NoList
          /\ c.kind # "list" /\ c.phase = "committed"
      BY <1>10 DEF Invalidates, Becomes, PhasesOK
    <2>2. /\ x.was = c.was /\ x.about = c.about /\ x.kind = c.kind /\ x.got = c.got
          /\ x.phase = "done"
      BY <1>2, TurnsKeepKind
    <2> HIDE DEF x
    <2>3. ASSUME k \in Concerns(c) PROVE CallLevel(k, x)'
      <3>1. CallLevel(k, c)'
        BY <1>1, <1>2, <2>1, <2>3, SameLevel
      <3> QED BY <2>1, <2>2, <3>1
              DEF CallLevel, ListLevel, ChangeLevel, CreateLevel, UpdateLevel, DeleteLevel, Level, Served
    <2>4. CacheLevel(k)'
      BY <2>1 DEF CacheLevel
    <2> QED BY <1>4, <2>1, <2>2, <2>3, <2>4
  <1>11. CASE Commits(c)
    <2>1. /\ c.kind # "list" /\ c.phase = "sent" /\ cache' = cache
      BY <1>11 DEF Commits, Mutates
    <2>2. PICK b \in c.about : \/ c.kind = "create" /\ Inserts(c, b)
                               \/ c.kind = "update" /\ Amends(c, b)
                               \/ c.kind = "delete" /\ Erases(c, b)
      BY <1>11 DEF Commits
    <2>3. c.about = {b} /\ (k \in Concerns(c) <=> b.n = k)
      BY <1>2, <2>1, CallType DEF Abouts, Concerns
    <2>4. k \in Concerns(c) => ListLevel(k, c) /\ (loadedRef => ChangeLevel(k, c))
      BY <1>2 DEF CallLevel
    <2>5. CASE calls' = (calls \ {c}) \cup {[c EXCEPT !.phase = "failed"]} /\ stored' = stored
      <3> DEFINE x == [c EXCEPT !.phase = "failed"]
      <3>1. /\ x.was = c.was /\ x.about = c.about /\ x.kind = c.kind /\ x.got = c.got
            /\ x.phase = "failed" /\ calls' = (calls \ {c}) \cup {x}
        BY <1>2, <2>5, TurnsKeepKind
      <3> HIDE DEF x
      <3>2. ASSUME k \in Concerns(c) PROVE CacheLevel(k)' /\ CallLevel(k, x)'
        <4>1. CacheLevel(k)'
          BY <1>3, <2>1, <2>5, <3>2 DEF CacheLevel
        <4>2. CallLevel(k, c)'
          BY <1>1, <1>2, <2>5, <3>2, SameLevel
        <4>3. CallLevel(k, x)'
          BY <2>1, <3>1, <4>2
             DEF CallLevel, ListLevel, ChangeLevel, CreateLevel, UpdateLevel, DeleteLevel, Level, Served
        <4> QED BY <4>1, <4>3
      <3> QED BY <1>4, <2>1, <2>5, <3>1, <3>2
    <2>6. ASSUME NEW x, calls' = (calls \ {c}) \cup {x}, x.was = c.was, x.about = c.about,
                 x.kind = c.kind, x.phase = "committed",
                 b.n # k => Of(stored', k) = Of(stored, k),
                 b.n = k => (loadedRef => ChangeLevel(k, x)')
          PROVE  Settled(k)'
      <3>1. ASSUME k \in Concerns(c) PROVE CacheLevel(k)' /\ CallLevel(k, x)'
        <4>1. k \in Concerns(x)
          BY <2>6, <3>1 DEF Concerns
        <4>2. CacheLevel(k)'
          BY <2>1, <2>6, <4>1 DEF CacheLevel
        <4>3. CallLevel(k, x)'
          BY <1>1, <2>1, <2>3, <2>6, <3>1 DEF CallLevel, ListLevel
        <4> QED BY <4>2, <4>3
      <3> QED BY <1>4, <2>1, <2>3, <2>6, <3>1
    <2>7. CASE c.kind = "create" /\ Inserts(c, b)
      <3> DEFINE row == [b EXCEPT !.temp = FALSE]
                 x == [c EXCEPT !.phase = "committed", !.got = {row}]
      <3>1. CASE stored' = stored \cup {row} /\ calls' = (calls \ {c}) \cup {x}
        <4>1. /\ x.was = c.was /\ x.about = c.about /\ x.kind = c.kind /\ x.phase = "committed"
              /\ x.got = {row}
          BY <1>2, TurnsKeepKind
        <4>2. row.n = b.n
          BY <1>2, <2>3, CallParts DEF Budget
        <4>3. Of(stored', k) = IF b.n = k THEN Of(stored, k) \cup {row} ELSE Of(stored, k)
          BY <3>1, <4>2 DEF Of
        <4>4. ASSUME b.n = k, loadedRef PROVE ChangeLevel(k, x)'
          <5>1. CreateLevel(k, c, b)
            BY <2>3, <2>4, <4>4 DEF ChangeLevel
          <5>2. Of(stored, k) = {} /\ Of(budgets', k) = {b}
            BY <1>1, <2>1, <2>7, <5>1 DEF CreateLevel, Served
          <5>3. x.got = {[b EXCEPT !.temp = FALSE]} /\ Of(stored', k) = x.got
            BY <4>1, <4>3, <4>4, <5>2
          <5> HIDE DEF x, row
          <5> QED BY <2>3, <2>7, <4>1, <5>2, <5>3 DEF ChangeLevel, CreateLevel, UpdateLevel, DeleteLevel, Served
        <4> HIDE DEF x, row
        <4> QED BY <2>6, <3>1, <4>1, <4>3, <4>4
      <3> QED BY <2>5, <2>7, <3>1 DEF Inserts, Becomes
    <2>8. CASE c.kind = "update" /\ Amends(c, b)
      <3> DEFINE x == [c EXCEPT !.phase = "committed", !.got = {b}]
      <3>1. CASE stored' = Replaced(stored, b) /\ calls' = (calls \ {c}) \cup {x}
        <4>1. /\ x.was = c.was /\ x.about = c.about /\ x.kind = c.kind /\ x.phase = "committed"
              /\ x.got = {b}
          BY <1>2, TurnsKeepKind
        <4> HIDE DEF x
        <4>2. Of(stored', k) = IF b.n = k THEN Replaced(Of(stored, k), b) ELSE Of(stored, k)
          BY <3>1, ReplacedOf
        <4>3. ASSUME b.n = k, loadedRef PROVE ChangeLevel(k, x)'
          <5>1. UpdateLevel(k, c, b)
            BY <2>3, <2>4, <4>3 DEF ChangeLevel
          <5>2. Of(budgets', k) = Of(stored', k)
            BY <1>1, <2>1, <2>8, <4>2, <4>3, <5>1 DEF UpdateLevel, Served
          <5>3. \A e \in Of(stored', k) : SameId(e, b) => e = b
            BY <4>2, <4>3 DEF Replaced
          <5> QED BY <2>3, <2>8, <4>1, <5>2, <5>3
                  DEF ChangeLevel, CreateLevel, UpdateLevel, DeleteLevel, Served, Level
        <4> QED BY <2>6, <3>1, <4>1, <4>2, <4>3
      <3> QED BY <2>5, <2>8, <3>1 DEF Amends, Becomes
    <2>9. CASE c.kind = "delete" /\ Erases(c, b)
      <3> DEFINE x == [c EXCEPT !.phase = "committed"]
      <3>1. stored' = Without(stored, b) /\ calls' = (calls \ {c}) \cup {x}
        BY <2>9 DEF Erases, Becomes
      <3>2. /\ x.was = c.was /\ x.about = c.about /\ x.kind = c.kind /\ x.phase = "committed"
            /\ x.got = c.got
        BY <1>2, TurnsKeepKind
      <3> HIDE DEF x
      <3>3. Of(stored', k) = IF b.n = k THEN Without(Of(stored, k), b) ELSE Of(stored, k)
        BY <3>1, WithoutOf
      <3>4. ASSUME b.n = k, loadedRef PROVE ChangeLevel(k, x)'
        <4>1. DeleteLevel(k, c, b)
          BY <2>3, <2>4, <3>4 DEF ChangeLevel
        <4>2. Of(budgets', k) = Of(stored', k) /\ c.got = {}
          BY <1>1, <2>1, <2>9, <3>3, <3>4, <4>1 DEF DeleteLevel, Served
        <4> QED BY <2>3, <2>9, <3>2, <4>2
                DEF ChangeLevel, CreateLevel, UpdateLevel, DeleteLevel, Served, Level
      <3> QED BY <2>6, <3>1, <3>2, <3>3, <3>4
    <2> QED BY <2>2, <2>7, <2>8, <2>9
  <1> QED BY <1>6, <1>7, <1>8, <1>9, <1>10, <1>11 DEF CrudServer, ServerDoes

\* The answers: what they leave of a number, shown and stored, is the same.
LEMMA ConfirmedOf ==
    ASSUME CrudInv, NEW c \in calls, c.kind # "list", NEW d, c.about = {d}, NEW k
    PROVE  /\ c.got = {} \/ d.n # k => Of(Confirmed(c), k) = Of(budgets, k)
           /\ \A g : c.got = {g} /\ d.n = k =>
                 Of(Confirmed(c), k) = {IF SameId(b, d) THEN g ELSE b : b \in Of(budgets, k)}
  <1>1. \A g \in c.got : g.n = d.n
    BY DEF CrudInv, AnswersOK
  <1>2. CASE c.got = {}
    <2>1. Confirmed(c) = budgets
      BY <1>2 DEF Confirmed
    <2> QED BY <1>2, <2>1
  <1>3. CASE c.got # {}
    <2> DEFINE g == CHOOSE e \in c.got : TRUE
    <2>1. g \in c.got /\ g.n = d.n
      BY <1>1, <1>3
    <2>2. \A e : c.got = {e} => g = e
      BY <2>1
    <2>3. Confirmed(c) = {IF SameId(b, d) THEN g ELSE b : b \in budgets}
      BY <1>3 DEF Confirmed
    <2> HIDE DEF g
    <2>4. d.n # k => Of(Confirmed(c), k) = Of(budgets, k)
      BY <2>1, <2>3 DEF Of, SameId
    <2>5. d.n = k => Of(Confirmed(c), k) = {IF SameId(b, d) THEN g ELSE b : b \in Of(budgets, k)}
      BY <2>1, <2>3 DEF Of, SameId
    <2> QED BY <1>3, <2>2, <2>4, <2>5
  <1> QED BY <1>2, <1>3

LEMMA AnswersSettle ==
    ASSUME SettleInv, NEW c \in calls, CrudAnswer(c), NEW k \in Numbers \ astray'
    PROVE  Settled(k)'
  <1> USE DEF SettleInv, CrudInv
  <1>1. /\ calls' = calls \ {c} /\ UNCHANGED <<stored, cache>> /\ Answered(c) /\ k \notin astray
    BY DEF CrudAnswer, Loaded, AddAnswered, ChangeAnswered, Retires
  <1>2. /\ c \in Call /\ Settled(k) /\ c.phase # "committed"
        /\ k \in Concerns(c) => CallLevel(k, c)
    BY <1>1, CallParts DEF Settled, Answered
  <1>3. CASE Loaded(c)
    <2>1. c.kind = "list" /\ k \in Concerns(c)
      BY <1>3 DEF Loaded, Concerns
    <2>2. loadedRef' => Level(k)'
      BY <1>1, <1>2, <1>3, <2>1 DEF Loaded, CallLevel, ListLevel, Level
    <2> QED BY <1>1, <1>2, <2>1, <2>2, AnswerSettles
  <1>4. ASSUME c.kind # "list", c.about = {} PROVE k \notin Concerns(c) /\ Confirmed(c) = budgets
    BY <1>4 DEF Concerns, Confirmed
  <1>5. c.about = {} \/ \E d \in Budget : c.about = {d}
    BY <1>2, CallType DEF Abouts
  <1>6. CASE AddAnswered(c)
    <2>1. /\ c.kind = "create" /\ loadedRef' = loadedRef
          /\ budgets' = IF c.phase = "done" THEN Confirmed(c)
                        ELSE {b \in budgets : \A d \in c.about : ~SameId(b, d)}
      BY <1>6 DEF AddAnswered
    <2>2. CASE c.about = {}
      <3>1. budgets' = budgets
        BY <1>4, <2>1, <2>2
      <3> QED BY <1>1, <1>2, <1>4, <2>1, <2>2, <3>1, AnswerSettles
    <2>3. ASSUME NEW d \in Budget, c.about = {d} PROVE Settled(k)'
      <3>1. k \in Concerns(c) <=> d.n = k
        BY <2>1, <2>3 DEF Concerns
      <3>2. d.n # k => Of(budgets', k) = Of(budgets, k)
        <4>1. CASE c.phase = "done"
          BY <2>1, <2>3, <4>1, ConfirmedOf
        <4>2. CASE c.phase # "done"
          BY <2>1, <2>3, <4>2 DEF Of, SameId
        <4> QED BY <4>1, <4>2
      <3>3. ASSUME d.n = k, loadedRef' PROVE Level(k)'
        <4>1. CreateLevel(k, c, d)
          BY <1>2, <2>1, <2>3, <3>1, <3>3 DEF CallLevel, ChangeLevel
        <4>2. Of(budgets, k) = {d}
          BY <2>1, <4>1 DEF CreateLevel
        <4>3. CASE c.phase = "done"
          <5> DEFINE row == [d EXCEPT !.temp = FALSE]
          <5>1. c.got = {row} /\ Of(stored, k) = {row}
            BY <2>1, <4>1, <4>3 DEF CreateLevel, Served
          <5> HIDE DEF row
          <5>2. Of(budgets', k) = {IF SameId(b, d) THEN row ELSE b : b \in Of(budgets, k)}
            BY <2>1, <2>3, <3>3, <4>3, <5>1, ConfirmedOf
          <5>3. Of(budgets', k) = {row}
            BY <4>2, <5>2 DEF SameId
          <5> QED BY <1>1, <5>1, <5>3 DEF Level
        <4>4. CASE c.phase # "done"
          <5>1. Of(stored, k) = {}
            BY <1>1, <2>1, <4>1, <4>4 DEF CreateLevel, Served, Answered
          <5>2. Of(budgets', k) = {}
            BY <2>1, <2>3, <4>2, <4>4 DEF Of, SameId
          <5> QED BY <1>1, <5>1, <5>2 DEF Level
        <4> QED BY <4>3, <4>4
      <3> QED BY <1>1, <1>2, <2>1, <3>1, <3>2, <3>3, AnswerSettles
    <2> QED BY <1>5, <2>2, <2>3
  <1>7. CASE ChangeAnswered(c)
    <2>1. /\ c.kind \in {"update", "delete"} /\ loadedRef' = loadedRef
          /\ c.phase = "done" => budgets' = Confirmed(c)
          /\ c.phase # "done" => budgets' = c.was /\ k \notin Undone(c)
      BY <1>7 DEF ChangeAnswered
    <2>2. CASE c.about = {}
      <3>1. k \notin Concerns(c) /\ Confirmed(c) = budgets
        BY <1>4, <2>1, <2>2
      <3>2. Of(budgets', k) = Of(budgets, k)
        BY <2>1, <3>1 DEF Undone
      <3> QED BY <1>1, <1>2, <2>1, <3>1, <3>2, AnswerSettles
    <2>3. ASSUME NEW d \in Budget, c.about = {d} PROVE Settled(k)'
      <3>1. k \in Concerns(c) <=> d.n = k
        BY <2>1, <2>3 DEF Concerns
      <3>2. d.n # k => Of(budgets', k) = Of(budgets, k)
        <4>1. CASE c.phase = "done"
          BY <2>1, <2>3, <4>1, ConfirmedOf
        <4>2. CASE c.phase # "done"
          BY <2>1, <3>1, <4>2 DEF Undone
        <4> QED BY <4>1, <4>2
      <3>3. ASSUME d.n = k, loadedRef' PROVE Level(k)'
        <4>1. UpdateLevel(k, c, d) /\ DeleteLevel(k, c, d)
          BY <1>2, <2>1, <2>3, <3>1, <3>3 DEF CallLevel, ChangeLevel
        <4>2. CASE c.phase # "done"
          <5>1. Of(c.was, k) = Of(stored, k)
            BY <1>1, <2>1, <4>1, <4>2 DEF UpdateLevel, DeleteLevel, Served, Answered
          <5> QED BY <1>1, <2>1, <4>2, <5>1 DEF Level
        <4>3. CASE c.phase = "done" /\ c.kind = "delete"
          <5>1. c.got = {} /\ Level(k)
            BY <4>1, <4>3 DEF DeleteLevel, Served
          <5>2. Of(budgets', k) = Of(budgets, k)
            BY <2>1, <2>3, <4>3, <5>1, ConfirmedOf
          <5> QED BY <1>1, <5>1, <5>2 DEF Level
        <4>4. CASE c.phase = "done" /\ c.kind = "update"
          <5>1. c.got = {d} /\ Level(k) /\ \A b \in Of(stored, k) : SameId(b, d) => b = d
            BY <4>1, <4>4 DEF UpdateLevel, Served
          <5>2. Of(budgets', k) = {IF SameId(b, d) THEN d ELSE b : b \in Of(budgets, k)}
            BY <2>1, <2>3, <3>3, <4>4, <5>1, ConfirmedOf
          <5>3. Of(budgets', k) = Of(budgets, k)
            BY <5>1, <5>2 DEF Level
          <5> QED BY <1>1, <5>1, <5>3 DEF Level
        <4> QED BY <2>1, <4>2, <4>3, <4>4
      <3> QED BY <1>1, <1>2, <2>1, <3>1, <3>2, <3>3, AnswerSettles
    <2> QED BY <1>5, <2>2, <2>3
  <1> QED BY <1>3, <1>6, <1>7 DEF CrudAnswer

LEMMA NextPhases == SettleInv /\ [CrudNext]_crudVars => PhasesOK'
  <1> SUFFICES ASSUME SettleInv, [CrudNext]_crudVars PROVE PhasesOK'
    OBVIOUS
  <1> USE DEF SettleInv
  <1>1. \A c \in calls : c \in Call
    BY CallParts DEF CrudInv
  <1>2. ASSUME NEW kind, NEW job, NEW about, NEW was, Sends(kind, job, about, was) PROVE PhasesOK'
    BY <1>2 DEF PhasesOK, Sends
  <1>3. ASSUME NEW c \in calls, ServerDoes(c) \/ Breaks(c) PROVE PhasesOK'
    <2>1. ASSUME NEW x, calls' = (calls \ {c}) \cup {x}, x.kind = c.kind,
                 x.phase = "filling" => c.kind = "list", x.phase = "committed" => c.kind # "list"
          PROVE  PhasesOK'
      BY <2>1 DEF PhasesOK
    <2>2. ASSUME NEW p, calls' = (calls \ {c}) \cup {[c EXCEPT !.phase = p]},
                 p # "filling", p = "committed" => c.kind # "list"
          PROVE  PhasesOK'
      <3> DEFINE x == [c EXCEPT !.phase = p]
      <3>1. calls' = (calls \ {c}) \cup {x} /\ x.kind = c.kind /\ x.phase = p
        BY <1>1, <2>2, TurnsKeepKind
      <3> HIDE DEF x
      <3> QED BY <2>1, <2>2, <3>1
    <2>4. CASE CacheHit(c) \/ ReadsTable(c)
      <3>1. PICK p, g : /\ calls' = (calls \ {c}) \cup {[c EXCEPT !.phase = p, !.got = g]}
                        /\ c.kind = "list" /\ p # "committed"
        BY <2>4 DEF CacheHit, ReadsTable, Becomes
      <3> DEFINE x == [c EXCEPT !.phase = p, !.got = g]
      <3>2. calls' = (calls \ {c}) \cup {x} /\ x.kind = c.kind /\ x.phase = p
        BY <1>1, <3>1, TurnsKeepKind
      <3> HIDE DEF x
      <3> QED BY <2>1, <3>1, <3>2
    <2>6. CASE FillsCache(c) \/ Invalidates(c) \/ Breaks(c)
      BY <2>2, <2>6 DEF FillsCache, Invalidates, Breaks, Becomes
    <2>7. CASE Commits(c)
      <3>1. c.kind # "list"
        BY <2>7 DEF Commits, Mutates
      <3>2. PICK b \in c.about : Inserts(c, b) \/ Amends(c, b) \/ Erases(c, b)
        BY <2>7 DEF Commits
      <3>3. CASE calls' = (calls \ {c}) \cup {[c EXCEPT !.phase = "failed"]}
        BY <2>2, <3>3
      <3>4. CASE calls' = (calls \ {c}) \cup {[c EXCEPT !.phase = "committed"]}
        BY <2>2, <3>1, <3>4
      <3>5. CASE \E g : calls' = (calls \ {c}) \cup {[c EXCEPT !.phase = "committed", !.got = g]}
        <4>1. PICK g : calls' = (calls \ {c}) \cup {[c EXCEPT !.phase = "committed", !.got = g]}
          BY <3>5
        <4> DEFINE x == [c EXCEPT !.phase = "committed", !.got = g]
        <4>2. calls' = (calls \ {c}) \cup {x} /\ x.kind = c.kind /\ x.phase = "committed"
          BY <1>1, <4>1, TurnsKeepKind
        <4> HIDE DEF x
        <4> QED BY <2>1, <3>1, <4>2
      <3> QED BY <3>2, <3>3, <3>4, <3>5 DEF Inserts, Amends, Erases, Becomes
    <2> QED BY <1>3, <2>4, <2>6, <2>7 DEF ServerDoes
  <1>4. ASSUME calls' \subseteq calls PROVE PhasesOK'
    BY <1>4 DEF PhasesOK
  <1>5. CASE Load \/ (\E k \in Categories, a \in Amounts : Adds(k, a))
             \/ (\E b \in budgets : Removes(b) \/ \E a \in Amounts : Updates(b, a))
    BY <1>2, <1>5 DEF Load, Adds, Removes, Updates
  <1>6. ASSUME NEW c \in calls, CrudServer(c) \/ Loses(c) PROVE PhasesOK'
    BY <1>3, <1>6 DEF CrudServer, Loses
  <1>7. ASSUME NEW c \in calls, CrudAnswer(c) PROVE PhasesOK'
    BY <1>4, <1>7 DEF CrudAnswer, Loaded, AddAnswered, ChangeAnswered, Retires
  <1>8. CASE StartAdd \/ Cancel \/ (\E b \in budgets : StartEdit(b))
             \/ (\E k \in Categories : RefusesAdd(k)) \/ UNCHANGED crudVars
    BY <1>4, <1>8 DEF StartAdd, Cancel, StartEdit, RefusesAdd, crudVars, serverVars
  <1> QED BY <1>5, <1>6, <1>7, <1>8 DEF CrudNext

\* A change about b is sent, with the list it leaves shown.
LEMMA ChangeSettles ==
    ASSUME SettleInv, NEW kind \in {"create", "update", "delete"}, NEW job, NEW d, NEW was,
           Sends(kind, job, {d}, was), Overlapped(d.n), UNCHANGED <<stored, cache, loadedRef>>,
           NEW k \in Numbers \ astray',
           k # d.n => Of(budgets', k) = Of(budgets, k),
           k = d.n /\ loadedRef /\ Level(k) =>
              CASE kind = "create" -> Of(budgets', k) = {d} /\ Of(stored, k) = {}
                [] kind = "update" -> /\ Of(was, k) = Of(stored, k)
                                      /\ Of(budgets', k) = Replaced(Of(stored, k), d)
                [] kind = "delete" -> /\ Of(was, k) = Of(stored, k)
                                      /\ Of(budgets', k) = Without(Of(stored, k), d)
    PROVE  Settled(k)'
  <1> DEFINE call == [no |-> made + 1, kind |-> kind, job |-> job, about |-> {d},
                      got |-> {}, was |-> was, phase |-> "sent"]
  <1>1. PICK c : c = call
    OBVIOUS
  <1>2. /\ calls' = calls \cup {c} /\ c.kind = kind /\ c.about = {d} /\ c.got = {} /\ c.was = was
        /\ c.phase = "sent"
    BY <1>1 DEF Sends
  <1> HIDE DEF call
  <1>3. k \notin astray /\ Settled(k)
    BY DEF Overlapped, SettleInv
  <1>4. k = d.n => k \notin InFlight
    BY DEF Overlapped
  <1>5. ASSUME k = d.n, loadedRef PROVE ChangeLevel(k, c)'
    <2>1. Level(k)
      BY <1>3, <1>4, <1>5 DEF Settled
    <2>2. /\ kind = "create" => Of(budgets', k) = {d} /\ Of(stored, k) = {}
          /\ kind = "update" => /\ Of(was, k) = Of(stored, k)
                                /\ Of(budgets', k) = Replaced(Of(stored, k), d)
          /\ kind = "delete" => /\ Of(was, k) = Of(stored, k)
                                /\ Of(budgets', k) = Without(Of(stored, k), d)
      BY <1>5, <2>1
    <2> QED BY <1>2, <2>2 DEF ChangeLevel, CreateLevel, UpdateLevel, DeleteLevel, Served
  <1>6. c.kind # "list"
    BY <1>2
  <1> QED BY <1>2, <1>3, <1>4, <1>5, <1>6, SentSettles

LEMMA NextSettles ==
    ASSUME SettleInv, [CrudNext]_crudVars, NEW k \in Numbers \ astray'
    PROVE  Settled(k)'
  <1> USE DEF SettleInv
  <1>1. /\ budgets \subseteq Budget /\ stored \subseteq Budget /\ made \in Nat
        /\ NumberedOK /\ k \in Nat
    BY CallParts DEF CrudInv, Numbers
  <1>2. ASSUME Load PROVE Settled(k)'
    <2>1. k \notin InFlight /\ Settled(k) /\ ~loadedRef' /\ UNCHANGED <<stored, cache>>
      BY <1>2 DEF Load
    <2> DEFINE call == [no |-> made + 1, kind |-> "list", job |-> "load", about |-> {},
                        got |-> {}, was |-> {}, phase |-> "sent"]
    <2>2. PICK c : c = call
      OBVIOUS
    <2>3. calls' = calls \cup {c} /\ c.kind = "list" /\ c.phase = "sent"
      BY <1>2, <2>2 DEF Load, Sends
    <2> HIDE DEF call
    <2>4. \A e \in calls : k \notin Concerns(e)
      BY <2>1, InFlightIs
    <2>5. Alone(k)' /\ CacheLevel(k)'
      BY <2>1, <2>3, <2>4 DEF Settled, Alone, CacheLevel
    <2>6. CallLevel(k, c)'
      BY <2>1, <2>3 DEF CallLevel, ListLevel
    <2> QED BY <2>1, <2>3, <2>4, <2>5, <2>6 DEF Settled
  <1>3. ASSUME NEW g \in Categories, NEW a \in Amounts, Adds(g, a) PROVE Settled(k)'
    <2>0. PICK d : d = [n |-> made + 1, temp |-> TRUE, category |-> g, amount |-> a]
      OBVIOUS
    <2>1. /\ budgets' = budgets \cup {d} /\ Sends("create", "save", {d}, {}) /\ Overlapped(d.n)
          /\ UNCHANGED <<stored, cache, loadedRef>> /\ d.n = made + 1
      BY <1>3, <2>0 DEF Adds
    <2>2. k # d.n => Of(budgets', k) = Of(budgets, k)
      BY <2>1 DEF Of
    <2>3. ASSUME k = d.n PROVE Of(budgets', k) = {d} /\ Of(stored, k) = {}
      <3>1. \A b \in Budget : b \in budgets \/ b \in stored => b.n <= made /\ b.n \in Nat
        BY <1>1 DEF NumberedOK, Seen, Budget, Numbers
      <3>2. \A b \in budgets \cup stored : b.n # k
        BY <1>1, <2>1, <2>3, <3>1
      <3> QED BY <2>1, <2>3, <3>2 DEF Of
    <2> QED BY <2>1, <2>2, <2>3, ChangeSettles
  <1>4. ASSUME NEW b \in budgets, NEW a \in Amounts, Updates(b, a) PROVE Settled(k)'
    <2>0. PICK d : d = [b EXCEPT !.amount = a]
      OBVIOUS
    <2>1. /\ budgets' = Replaced(budgets, d) /\ Sends("update", "save", {d}, budgets)
          /\ Overlapped(d.n) /\ UNCHANGED <<stored, cache, loadedRef>>
      <3>1. d.n = b.n
        BY <1>1, <2>0 DEF Budget
      <3> QED BY <1>4, <2>0, <3>1 DEF Updates
    <2>2. k # d.n => Of(budgets', k) = Of(budgets, k)
      BY <2>1, ReplacedOf
    <2>3. k = d.n => Of(budgets', k) = Replaced(Of(budgets, k), d)
      BY <2>1, ReplacedOf
    <2>4. PICK was : was = budgets
      OBVIOUS
    <2> QED BY <2>1, <2>2, <2>3, <2>4, ChangeSettles DEF Level
  <1>5. ASSUME NEW b \in budgets, Removes(b) PROVE Settled(k)'
    <2>1. /\ budgets' = Without(budgets, b) /\ Sends("delete", "delete", {b}, budgets)
          /\ Overlapped(b.n) /\ UNCHANGED <<stored, cache, loadedRef>>
      BY <1>5 DEF Removes
    <2>2. k # b.n => Of(budgets', k) = Of(budgets, k)
      BY <2>1, WithoutOf
    <2>3. k = b.n => Of(budgets', k) = Without(Of(budgets, k), b)
      BY <2>1, WithoutOf
    <2>4. PICK was : was = budgets
      OBVIOUS
    <2> QED BY <2>1, <2>2, <2>3, <2>4, ChangeSettles DEF Level
  <1>6. ASSUME UNCHANGED <<stored, cache, calls, budgets, loadedRef, astray>> PROVE Settled(k)'
    BY <1>6 DEF Settled, Alone, CacheLevel, CallLevel, ListLevel, ChangeLevel, CreateLevel,
                UpdateLevel, DeleteLevel, Level, InFlight
  <1>7. CASE StartAdd \/ Cancel \/ (\E b \in budgets : StartEdit(b))
             \/ (\E g \in Categories : RefusesAdd(g)) \/ UNCHANGED crudVars
    BY <1>6, <1>7 DEF StartAdd, Cancel, StartEdit, RefusesAdd, crudVars, serverVars, pageVars
  <1> QED BY <1>2, <1>3, <1>4, <1>5, <1>7, ServerSettles, AnswersSettle DEF CrudNext

LEMMA InitSettle == CrudInit => SettleInv
  <1> SUFFICES ASSUME CrudInit PROVE SettleInv
    OBVIOUS
  <1>1. ~loadedRef /\ cache \in {NoList, stored} /\ (\A c, d \in calls : c = d)
        /\ \A c \in calls : c.phase = "sent" /\ c.kind = "list"
    BY DEF CrudInit, CrudParts, ServerInit
  <1>2. PhasesOK
    BY <1>1 DEF PhasesOK
  <1>3. \A k \in Numbers : Settled(k)
    BY <1>1 DEF Settled, Alone, CacheLevel, CallLevel, ListLevel
  <1> QED BY <1>2, <1>3, InitInv DEF SettleInv

(* What the page shows settles: whatever order optimistic changes, answers,  *)
(* rollbacks, lost answers and cached lists come in, every budget that no    *)
(* two calls overlapped on, and no failure of another call undid, is shown   *)
(* as it is stored when all is answered.                                     *)
THEOREM ShownBudgetsSettle == CrudSpec => []BudgetsSettle
  <1>1. SettleInv /\ [CrudNext]_crudVars => SettleInv'
    BY NextInv, NextPhases, NextSettles DEF SettleInv
  <1>2. SettleInv => BudgetsSettle
    <2>1. calls = {} => InFlight = {}
      BY DEF InFlight
    <2> QED BY <2>1 DEF SettleInv, Settled, Level, BudgetsSettle
  <1> QED BY <1>1, <1>2, InitSettle, PTL DEF CrudSpec

-----------------------------------------------------------------------------
(* The dialog of the transactions page.                                      *)
ModalTypeOK == ServerTypeOK /\ shown \subseteq Budget
ChosenOK == {filter, budgetModalCategory} \subseteq Categories \cup {NoCategory}
(* While no job overlaps another call, and no list failed and no change lost *)
(* its answer, one call at most is under way.  What it has yet to do is all  *)
(* that lies between the page and the table: before the change is committed, *)
(* or when it was refused, nothing does, and the cached list is the table;   *)
(* once the change is answered the cached list is gone; and a list that was  *)
(* read is the table.                                                        *)
Fresh == cache \in {NoList, stored}
JobOK(c) == /\ c.phase = "committed" => Mutates(c)
            /\ c.phase = "filling" => ~Mutates(c)
            /\ Mutates(c) /\ c.phase \in {"sent", "failed"} => shown = stored /\ Fresh
            /\ Mutates(c) /\ c.phase = "done" => cache = NoList
            /\ ~Mutates(c) => Fresh
            /\ ~Mutates(c) /\ c.phase \in {"filling", "done"} => c.got = stored
JobsOK == ~crossed /\ ~behind => /\ \A c, d \in calls : c = d
                                 /\ calls = {} => shown = stored /\ Fresh
                                 /\ \A c \in calls : JobOK(c)
ModalInv == ModalTypeOK /\ JobsOK

LEMMA InitModal == ModalInit => ModalInv
  <1> SUFFICES ASSUME ModalInit PROVE ModalInv
    OBVIOUS
  <1>1. stored \subseteq Budget /\ Fresh
    BY DEF ModalInit, ServerInit, Fresh
  <1>2. calls \subseteq Call /\ made \in 0 .. MaxCalls
    BY DEF ModalInit, ServerInit, Call, Kinds, Phases
  <1>3. cache \in {NoList} \cup SUBSET Budget
    BY <1>1 DEF Fresh
  <1>4. calls # {} /\ \A c, d \in calls : c = d
    BY DEF ModalInit, ServerInit
  <1>5. \A c \in calls : c.kind = "list" /\ c.phase = "sent"
    BY DEF ModalInit, ServerInit
  <1>6. JobsOK
    BY <1>1, <1>4, <1>5 DEF JobsOK, JobOK, Mutates
  <1> QED BY <1>1, <1>2, <1>3, <1>6 DEF ModalInit, ModalParts, ModalInv, ModalTypeOK, ServerTypeOK

LEMMA ModalCallParts ==
    ASSUME ModalTypeOK
    PROVE  /\ \A c \in calls : c \in Call /\ c.got \subseteq Budget /\ c.about \subseteq Budget
           /\ made \in Nat
  BY CallType, AboutRows DEF ModalTypeOK, ServerTypeOK

\* A call that changes its phase, and its answer, keeps what it is.
LEMMA TurnedCall ==
    ASSUME NEW c \in Call
    PROVE  /\ \A p : LET x == [c EXCEPT !.phase = p]
                     IN x.kind = c.kind /\ x.got = c.got /\ x.phase = p
           /\ \A p, g : LET x == [c EXCEPT !.phase = p, !.got = g]
                        IN x.kind = c.kind /\ x.got = g /\ x.phase = p
  BY CallType

\* A job that begins is the only call, or crosses another.
LEMMA JobBegins ==
    ASSUME ModalInv, NEW kind \in {"create", "update", "delete"}, NEW job \in JobKinds,
           NEW b \in Budget, StartsJob(kind, job, b)
    PROVE  ModalInv'
  <1> USE DEF ModalInv, ModalTypeOK
  <1>1. Sends(kind, job, {b}, {}) /\ UNCHANGED <<stored, cache, shown>>
    BY DEF StartsJob
  <1>2. {b} \in Abouts /\ {} \in SUBSET Budget /\ kind \in Kinds
    BY AboutTypes DEF Kinds
  <1>3. ServerTypeOK'
    BY <1>1, <1>2, SendsTypes DEF ServerTypeOK
  <1>4. ASSUME ~crossed', ~behind' PROVE calls = {} /\ ~crossed /\ ~behind
    BY <1>4 DEF StartsJob
  <1> DEFINE call == [no |-> made + 1, kind |-> kind, job |-> job, about |-> {b},
                      got |-> {}, was |-> {}, phase |-> "sent"]
  <1>5. calls' = calls \cup {call} /\ call.kind = kind /\ call.phase = "sent"
    BY <1>1 DEF Sends
  <1> HIDE DEF call
  <1>6. JobsOK'
    BY <1>1, <1>4, <1>5 DEF JobsOK, JobOK, Mutates, Fresh
  <1> QED BY <1>1, <1>3, <1>6

\* The only call under way turns into another.
LEMMA JobTurns ==
    ASSUME ModalInv, ServerTypeOK', shown' = shown, crossed' = crossed, behind => behind',
           NEW c \in calls, NEW x, calls' = (calls \ {c}) \cup {x},
           ~crossed' /\ ~behind' => JobOK(x)'
    PROVE  ModalInv'
  <1> USE DEF ModalInv, ModalTypeOK
  <1>1. ASSUME ~crossed', ~behind' PROVE calls' = {x}
    BY <1>1 DEF JobsOK
  <1>2. JobsOK'
    BY <1>1 DEF JobsOK
  <1> QED BY <1>2

LEMMA ModalServerKeeps ==
    ASSUME ModalInv, NEW c \in calls, ModalServer(c) \/ ModalLoses(c)
    PROVE  ModalInv'
  <1> USE DEF ModalInv, ModalTypeOK
  <1>1. /\ ServerDoes(c) \/ Breaks(c)
        /\ shown' = shown /\ crossed' = crossed /\ (behind => behind')
    <2>1. CASE ModalServer(c)
      BY <2>1 DEF ModalServer, modalOwn
    <2>2. CASE ModalLoses(c)
      <3>1. behind => behind'
        BY <2>2, Zenon DEF ModalLoses
      <3> QED BY <2>2, <3>1 DEF ModalLoses
    <2> QED BY <2>1, <2>2
  <1>2. ServerTypeOK'
    BY <1>1, ServerTypes
  <1>3. c \in Call
    BY ModalCallParts
  <1>4. ~crossed' /\ ~behind' => JobOK(c)
    BY <1>1 DEF JobsOK
  <1>5. CASE ModalLoses(c)
    <2> DEFINE x == [c EXCEPT !.phase = "failed"]
    <2>1. /\ calls' = (calls \ {c}) \cup {x} /\ UNCHANGED <<stored, cache>>
          /\ c.phase \in {"sent", "done"} /\ (Mutates(c) /\ c.phase = "done" => behind')
      BY <1>5 DEF ModalLoses, Breaks, Becomes
    <2>2. x.kind = c.kind /\ x.phase = "failed"
      BY <1>3, TurnedCall
    <2> HIDE DEF x
    <2>3. ~crossed' /\ ~behind' => JobOK(x)'
      BY <1>1, <1>4, <2>1, <2>2 DEF JobOK, Mutates, Fresh
    <2> QED BY <1>1, <1>2, <2>1, <2>3, JobTurns
  <1>6. CASE CacheHit(c) \/ ReadsTable(c)
    <2>1. CASE CacheHit(c)
      <3>0. PICK g : g = cache
        OBVIOUS
      <3> DEFINE x == [c EXCEPT !.phase = "done", !.got = g]
      <3>1. /\ calls' = (calls \ {c}) \cup {x} /\ UNCHANGED <<stored, cache>>
            /\ cache # NoList /\ c.kind = "list"
        BY <2>1, <3>0 DEF CacheHit, Becomes
      <3>2. x.kind = c.kind /\ x.phase = "done" /\ x.got = g
        BY <1>3, TurnedCall
      <3> HIDE DEF x
      <3>3. ~crossed' /\ ~behind' => JobOK(x)'
        BY <1>1, <1>4, <3>0, <3>1, <3>2 DEF JobOK, Mutates, Fresh
      <3> QED BY <1>1, <1>2, <3>1, <3>3, JobTurns
    <2>2. CASE ReadsTable(c)
      <3>0. PICK g : g = stored
        OBVIOUS
      <3> DEFINE x == [c EXCEPT !.phase = "filling", !.got = g]
      <3>1. calls' = (calls \ {c}) \cup {x} /\ UNCHANGED <<stored, cache>> /\ c.kind = "list"
        BY <2>2, <3>0 DEF ReadsTable, Becomes
      <3>2. x.kind = c.kind /\ x.phase = "filling" /\ x.got = g
        BY <1>3, TurnedCall
      <3> HIDE DEF x
      <3>3. ~crossed' /\ ~behind' => JobOK(x)'
        BY <1>1, <1>4, <3>0, <3>1, <3>2 DEF JobOK, Mutates, Fresh
      <3> QED BY <1>1, <1>2, <3>1, <3>3, JobTurns
    <2> QED BY <1>6, <2>1, <2>2
  <1>7. CASE FillsCache(c) \/ Invalidates(c)
    <2> DEFINE x == [c EXCEPT !.phase = "done"]
    <2>1. /\ calls' = (calls \ {c}) \cup {x} /\ stored' = stored
          /\ \/ c.phase = "filling" /\ cache' = c.got
             \/ c.phase = "committed" /\ cache' = NoList
      BY <1>7 DEF FillsCache, Invalidates, Becomes
    <2>2. x.kind = c.kind /\ x.phase = "done" /\ x.got = c.got
      BY <1>3, TurnedCall
    <2> HIDE DEF x
    <2>3. ~crossed' /\ ~behind' => JobOK(x)'
      BY <1>1, <1>4, <2>1, <2>2 DEF JobOK, Mutates, Fresh
    <2> QED BY <1>1, <1>2, <2>1, <2>3, JobTurns
  <1>8. CASE Commits(c)
    <2>1. PICK b \in c.about : Inserts(c, b) \/ Amends(c, b) \/ Erases(c, b)
      BY <1>8 DEF Commits
    <2>2. Mutates(c) /\ c.phase = "sent" /\ cache' = cache
      BY <1>8 DEF Commits
    <2>3. CASE calls' = (calls \ {c}) \cup {[c EXCEPT !.phase = "failed"]} /\ stored' = stored
      <3> DEFINE x == [c EXCEPT !.phase = "failed"]
      <3>1. x.kind = c.kind /\ x.phase = "failed" /\ calls' = (calls \ {c}) \cup {x}
        BY <1>3, <2>3, TurnedCall
      <3> HIDE DEF x
      <3>2. ~crossed' /\ ~behind' => JobOK(x)'
        BY <1>1, <1>4, <2>2, <2>3, <3>1 DEF JobOK, Mutates, Fresh
      <3> QED BY <1>1, <1>2, <3>1, <3>2, JobTurns
    <2>4. ASSUME NEW x, calls' = (calls \ {c}) \cup {x}, x.kind = c.kind, x.phase = "committed"
          PROVE  ModalInv'
      <3>1. JobOK(x)'
        BY <2>2, <2>4 DEF JobOK, Mutates
      <3> QED BY <1>1, <1>2, <2>4, <3>1, JobTurns
    <2>5. ASSUME NEW g, calls' = (calls \ {c}) \cup {[c EXCEPT !.phase = "committed", !.got = g]}
          PROVE  ModalInv'
      <3> DEFINE x == [c EXCEPT !.phase = "committed", !.got = g]
      <3>1. x.kind = c.kind /\ x.phase = "committed" /\ calls' = (calls \ {c}) \cup {x}
        BY <1>3, <2>5, TurnedCall
      <3> HIDE DEF x
      <3> QED BY <2>4, <3>1
    <2>6. CASE calls' = (calls \ {c}) \cup {[c EXCEPT !.phase = "committed"]}
      <3> DEFINE x == [c EXCEPT !.phase = "committed"]
      <3>1. x.kind = c.kind /\ x.phase = "committed" /\ calls' = (calls \ {c}) \cup {x}
        BY <1>3, <2>6, TurnedCall
      <3> HIDE DEF x
      <3> QED BY <2>4, <3>1
    <2> QED BY <2>1, <2>3, <2>5, <2>6 DEF Inserts, Amends, Erases, Becomes
  <1> QED BY <1>1, <1>5, <1>6, <1>7, <1>8 DEF ModalServer, ModalLoses, ServerDoes

LEMMA NextChosen == ChosenOK /\ [ModalNext]_modalVars => ChosenOK'
  <1> SUFFICES ASSUME ChosenOK, [ModalNext]_modalVars PROVE ChosenOK'
    OBVIOUS
  <1> USE DEF ChosenOK
  <1>1. ASSUME NEW k \in Categories \cup {NoCategory}, SelectFilter(k) \/ PickCategory(k)
        PROVE  ChosenOK'
    BY <1>1 DEF SelectFilter, PickCategory
  <1>2. ASSUME NEW a \in Amounts, SaveBudget(a) PROVE ChosenOK'
    BY <1>2 DEF SaveBudget, StartsJob
  <1>3. ASSUME NEW b \in shown, DeleteBudget(b) PROVE ChosenOK'
    BY <1>3 DEF DeleteBudget, StartsJob
  <1>4. ASSUME NEW c \in calls, ModalServer(c) \/ ModalLoses(c) \/ ChangeEnds(c) \/ ListEnds(c)
        PROVE  ChosenOK'
    BY <1>4 DEF ModalServer, ModalLoses, ChangeEnds, ListEnds, modalOwn
  <1>5. CASE OpenBudgetModal \/ CloseModal \/ ModalCacheExpires \/ UNCHANGED modalVars
    BY <1>5 DEF OpenBudgetModal, CloseModal, ModalCacheExpires, modalVars, modalOwn
  <1> QED BY <1>1, <1>2, <1>3, <1>4, <1>5 DEF ModalNext

LEMMA NextModal == ModalInv /\ ChosenOK /\ [ModalNext]_modalVars => ModalInv'
  <1> SUFFICES ASSUME ModalInv, ChosenOK, [ModalNext]_modalVars PROVE ModalInv'
    OBVIOUS
  <1> USE DEF ModalInv, ModalTypeOK
  <1>1. /\ \A c \in calls : c \in Call /\ c.got \subseteq Budget
        /\ made \in Nat
    BY ModalCallParts
  <1>2. ASSUME NEW a \in Amounts, SaveBudget(a), budgetModalCategory \in Categories PROVE ModalInv'
    <2>1. CASE Matching(budgetModalCategory) # {}
      <3>1. PICK b \in Matching(budgetModalCategory) : StartsJob("update", "save", [b EXCEPT !.amount = a])
        BY <1>2, <2>1 DEF SaveBudget
      <3> DEFINE item == [b EXCEPT !.amount = a]
      <3>2. item \in Budget
        BY DEF Matching, Budget
      <3>3. StartsJob("update", "save", item)
        BY <3>1
      <3> HIDE DEF item
      <3> QED BY <3>2, <3>3, JobBegins DEF JobKinds
    <2>2. CASE Matching(budgetModalCategory) = {}
      <3> DEFINE item == [n |-> made + 1, temp |-> TRUE,
                          category |-> budgetModalCategory, amount |-> a]
      <3>1. StartsJob("create", "save", item)
        BY <1>2, <2>2 DEF SaveBudget
      <3>2. made + 1 \in Numbers
        BY <3>1, <1>1 DEF StartsJob, Sends, Numbers
      <3>3. item \in Budget
        BY <1>2, <3>2 DEF Budget
      <3> HIDE DEF item
      <3> QED BY <3>1, <3>3, JobBegins DEF JobKinds
    <2> QED BY <2>1, <2>2
  <1>3. ASSUME NEW b \in shown, DeleteBudget(b) PROVE ModalInv'
    <2>1. PICK job \in {"delete", "clear"} : StartsJob("delete", job, b)
      BY <1>3 DEF DeleteBudget
    <2> QED BY <2>1, JobBegins DEF JobKinds
  <1>4. ASSUME UNCHANGED <<serverVars, shown, crossed, behind>> PROVE ModalInv'
    BY <1>4 DEF serverVars, ServerTypeOK, JobsOK, JobOK, Mutates, Fresh
  <1>5. ASSUME OpenBudgetModal \/ CloseModal \/ UNCHANGED modalVars
               \/ \E k \in Categories \cup {NoCategory} : SelectFilter(k) \/ PickCategory(k)
        PROVE  ModalInv'
    BY <1>4, <1>5 DEF OpenBudgetModal, CloseModal, SelectFilter, PickCategory, modalVars, modalOwn
  <1>6. ASSUME ModalCacheExpires PROVE ModalInv'
    BY <1>6 DEF ModalCacheExpires, CacheExpires, modalOwn, ServerTypeOK, JobsOK, JobOK, Mutates, Fresh
  <1>7. ASSUME NEW c \in calls, ChangeEnds(c) PROVE ModalInv'
    <2>1. UNCHANGED <<stored, cache, shown, crossed, behind, made>> /\ Mutates(c) /\ Answered(c)
      BY <1>7 DEF ChangeEnds, Retires
    <2>2. ~crossed /\ ~behind => JobOK(c)
      BY DEF JobsOK
    <2>3. CASE c.phase = "done"
      <3> DEFINE x == [c EXCEPT !.kind = "list", !.about = {}, !.got = {}, !.phase = "sent"]
      <3>1. x.kind = "list" /\ x.phase = "sent"
        BY <1>1, CallType
      <3>2. x \in Call
        <4>1. {} \in Abouts /\ {} \in SUBSET Budget /\ "list" \in Kinds /\ "sent" \in Phases
          BY AboutTypes DEF Kinds, Phases
        <4> QED BY <1>1, <4>1, CallType
      <3>3. calls' = (calls \ {c}) \cup {x}
        BY <1>7, <2>3 DEF ChangeEnds, Becomes
      <3> HIDE DEF x
      <3>4. ServerTypeOK'
        BY <2>1, <3>2, <3>3 DEF ServerTypeOK
      <3>5. ~crossed' /\ ~behind' => JobOK(x)'
        BY <2>1, <2>2, <2>3, <3>1 DEF JobOK, Mutates, Fresh
      <3> QED BY <2>1, <3>3, <3>4, <3>5, JobTurns
    <2>4. CASE c.phase # "done"
      <3>1. calls' = calls \ {c} /\ c.phase = "failed"
        BY <1>7, <2>1, <2>4 DEF ChangeEnds, Retires, Answered
      <3>2. ServerTypeOK'
        BY <2>1, <3>1 DEF ServerTypeOK
      <3>3. ~crossed' /\ ~behind' => calls' = {} /\ shown' = stored' /\ Fresh'
        BY <2>1, <2>2, <3>1 DEF JobsOK, JobOK, Fresh
      <3>4. JobsOK'
        BY <3>3 DEF JobsOK
      <3> QED BY <2>1, <3>2, <3>4
    <2> QED BY <2>3, <2>4
  <1>8. ASSUME NEW c \in calls, ListEnds(c) PROVE ModalInv'
    <2>1. /\ UNCHANGED <<stored, cache, crossed, made>> /\ ~Mutates(c) /\ calls' = calls \ {c}
          /\ behind' = (behind \/ c.phase = "failed") /\ Answered(c)
          /\ shown' = IF c.phase = "done" THEN c.got ELSE shown
      BY <1>8 DEF ListEnds, Retires, Mutates
    <2>2. ServerTypeOK' /\ shown' \subseteq Budget
      BY <1>1, <2>1 DEF ServerTypeOK
    <2>3. ~crossed' /\ ~behind' => calls' = {} /\ shown' = stored' /\ Fresh'
      BY <2>1 DEF JobsOK, JobOK, Fresh, Answered
    <2>4. JobsOK'
      BY <2>3 DEF JobsOK
    <2> QED BY <2>2, <2>4
  <1>9. ASSUME NEW a \in Amounts, SaveBudget(a) PROVE ModalInv'
    BY <1>2, <1>9 DEF SaveBudget, ChosenOK
  <1> QED BY <1>3, <1>5, <1>6, <1>7, <1>8, <1>9, ModalServerKeeps DEF ModalNext

(* Once every call is answered the dialog's page shows what is stored, for   *)
(* any number of saves, deletions, failures and expiries: the list that      *)
(* follows a change is sent when the change is answered, and a change is     *)
(* answered when the cached list is gone.                                    *)
THEOREM DialogShowsStored == ModalSpec => []ShownIsStored
  <1>1. ModalInv => ShownIsStored
    BY DEF ModalInv, JobsOK, ShownIsStored
  <1>2. ModalInit => ModalInv /\ ChosenOK
    BY InitModal DEF ModalInit, ModalParts, ChosenOK
  <1>3. ModalInv /\ ChosenOK /\ [ModalNext]_modalVars => (ModalInv /\ ChosenOK)'
    BY NextModal, NextChosen
  <1> QED BY <1>1, <1>2, <1>3, PTL DEF ModalSpec
=============================================================================
