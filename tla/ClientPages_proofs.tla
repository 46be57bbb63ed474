--------------------------- MODULE ClientPages_proofs ------------------------
(***************************************************************************)
(* Proofs about PageFetches, for any accounts, banks, periods and hooks: a *)
(* hook that aborts or cancels shows what is wanted, and implements        *)
(* LatestAnswer; about CategoryEdits,                                      *)
(* for any rows, labels and edits: the labels shown settle to those of the *)
(* server, and no page is blank while there are rows; and about            *)
(* ManualAccounts with DisplayCurrency.                                    *)
(***************************************************************************)
EXTENDS PageFetches, CategoryEdits, ManualAccounts, FiniteSetTheorems, WellFoundedInduction, TLAPS

\* The effect has run for what the filter, the period and the view now are.
Current == ~accountsLoading /\ (hook = "line" => viewMode = "line")

\* A request that may still be shown blocks the page, unless a first answer
\* has been shown already.
RequestsOK ==
    /\ \A r \in asked : "aborted" \in DOMAIN r
    /\ \A r \in Live : ~r.silent /\ (r.blocking \/ (hook \in Refreshing /\ hasLoadedRef))
\* After a first answer the blocking spinner does not come back.
SpinnerOK == hook \in Refreshing /\ hasLoadedRef => ~spinning
\* The last effect's request is the only one that may be shown, and asks for
\* what is wanted; or it has been answered.
LastOK ==
    Current => \/ \E r \in Live : Live = {r} /\ r.q = Wanted
               \/ Live = {} /\ (failed \/ (shows = Wanted /\ ~spinning))

GuardedOK == hook \in Guarded => RequestsOK /\ SpinnerOK /\ LastOK
PagesInv == FilterTypeOK /\ GuardedOK

USE BankAssumption

-----------------------------------------------------------------------------
LEMMA InitInv == PagesInit => PagesInv
  <1> SUFFICES ASSUME PagesInit PROVE PagesInv
    OBVIOUS
  <1>1. FilterTypeOK
    BY DEF PagesInit, FilterInit, FilterTypeOK, Asked
  <1>2. ASSUME hook \in Guarded PROVE RequestsOK /\ SpinnerOK /\ LastOK
    <2> DEFINE first(q) == [n |-> 1, q |-> q, blocking |-> TRUE, silent |-> FALSE,
                            aborted |-> hook \in Guarded]
    <2>3. asked \subseteq {first(Question({}, {}, period))}
      BY DEF PagesInit
    <2>4. \A q : first(q).aborted = TRUE /\ "aborted" \in DOMAIN first(q)
      BY <1>2
    <2>1. \A r \in asked : r.aborted /\ "aborted" \in DOMAIN r
      BY <2>3, <2>4
    <2>2. Live = {}
      BY <2>1 DEF Live
    <2>5. ~Current
      BY DEF PagesInit, FilterInit, Current
    <2> QED BY <2>1, <2>2, <2>5 DEF RequestsOK, SpinnerOK, LastOK, PagesInit
  <1> QED BY <1>1, <1>2 DEF PagesInv, GuardedOK

-----------------------------------------------------------------------------
(* The type of the filter's variables.                                       *)
FilterAction ==
    \/ \E a \in Accounts : AccountsChange(a) \/ ToggleAccount(a)
    \/ \E bank \in Institutions : ToggleBank(bank)
    \/ SelectAll
    \/ \E f \in fetches : FetchAnswered(f) \/ FetchFails(f) \/ FetchReads(f)

LEMMA FilterActionTypes == FilterTypeOK /\ FilterAction => FilterTypeOK'
  <1> SUFFICES ASSUME FilterTypeOK, FilterAction PROVE FilterTypeOK'
    OBVIOUS
  <1> USE DEF FilterTypeOK
  <1>1. ASSUME NEW a \in Accounts, AccountsChange(a) PROVE FilterTypeOK'
    <2>1. held' \subseteq Accounts
      BY <1>1 DEF AccountsChange
    <2>2. changes' \in 0 .. MaxChanges
      BY <1>1 DEF AccountsChange, Counted
    <2>3. changes' = changes + 1 /\ fetches' = fetches \cup {Asked(changes')}
      BY <1>1 DEF AccountsChange, Counted, Fetch
    <2>4. Asked(changes') \in [at : 0 .. MaxChanges, read : BOOLEAN, got : SUBSET Accounts]
      BY <2>2 DEF Asked
    <2> QED BY <1>1, <2>1, <2>2, <2>3, <2>4 DEF AccountsChange, Fetch
  <1>2. ASSUME NEW set \in SUBSET accounts, SetsSelection(set) PROVE FilterTypeOK'
    BY <1>2 DEF SetsSelection, Counted
  <1>3. ASSUME NEW set \in SUBSET Accounts, SetsSelection(set) PROVE FilterTypeOK'
    BY <1>3 DEF SetsSelection, Counted
  <1>4. ASSUME NEW a \in Accounts, ToggleAccount(a) PROVE FilterTypeOK'
    BY <1>3, <1>4 DEF ToggleAccount
  <1>5. ASSUME NEW bank \in Institutions, ToggleBank(bank) PROVE FilterTypeOK'
    BY <1>3, <1>5 DEF ToggleBank, OfBank
  <1>6. ASSUME SelectAll PROVE FilterTypeOK'
    BY <1>3, <1>6 DEF SelectAll
  <1>7. ASSUME NEW f \in fetches, FetchAnswered(f) PROVE FilterTypeOK'
    BY <1>7 DEF FetchAnswered, Reselected
  <1>8. ASSUME NEW f \in fetches, FetchFails(f) PROVE FilterTypeOK'
    BY <1>8 DEF FetchFails
  <1>9. ASSUME NEW f \in fetches, FetchReads(f) PROVE FilterTypeOK'
    BY <1>9 DEF FetchReads
  <1> QED BY <1>1, <1>4, <1>5, <1>6, <1>7, <1>8, <1>9 DEF FilterAction

LEMMA NextTypes == FilterTypeOK /\ [PagesNext]_pagesVars => FilterTypeOK'
  <1> SUFFICES ASSUME FilterTypeOK, [PagesNext]_pagesVars PROVE FilterTypeOK'
    OBVIOUS
  <1>1. CASE FilterAction
    BY <1>1, FilterActionTypes
  <1>2. CASE Counted /\ UNCHANGED <<held, accounts, selected, accountsLoading, fetches>>
    BY <1>2 DEF FilterTypeOK, Counted
  <1>3. CASE UNCHANGED filterVars
    BY <1>3 DEF FilterTypeOK, filterVars
  <1> QED BY <1>1, <1>2, <1>3 DEF PagesNext, FilterAction, FilterChanges, ListAnswered,
             ListReads, PeriodChanges, ViewChanges, SilentLoad, Retry, RequestAnswered, pagesVars
-----------------------------------------------------------------------------
(* What is wanted depends on what the effect depends on: the number of the   *)
(* accounts and whether all are selected say enough of their list.           *)
LEMMA SameDependenciesSameWanted ==
    ASSUME FilterTypeOK, FilterTypeOK', hook' = hook,
           hook \in ByPeriod => period' = period,
           selected' = selected, isAllAccountsSelected' = isAllAccountsSelected,
           Cardinality(accounts') = Cardinality(accounts)
    PROVE  hook # "ytd" => Wanted' = Wanted
  <1>1. IsFiniteSet(accounts) /\ IsFiniteSet(accounts')
    BY FS_Subset DEF FilterTypeOK
  <1>2. accounts = {} <=> accounts' = {}
    BY <1>1, FS_EmptySet
  <1>3. NoneSelected' = NoneSelected
    BY <1>2 DEF NoneSelected
  <1>4. selected # {} => (selected = accounts <=> selected' = accounts')
    BY DEF isAllAccountsSelected
  <1>5. hook # "ytd" => Question(accounts, selected, period)' = Question(accounts, selected, period)
    BY <1>4 DEF Question
  <1> QED BY <1>3, <1>5 DEF Wanted

\* Of a guarded hook, an effect that does not run has nothing to notice.
LEMMA NotTriggered ==
    ASSUME FilterTypeOK, FilterTypeOK', hook' = hook, hook \in Guarded,
           NEW answered \in BOOLEAN, ~Triggered(answered),
           hook # "line" => viewMode' = viewMode
    PROVE  Wanted' = Wanted /\ Current' = Current
  <1>1. hook # "ytd"
    BY DEF Guarded, Aborting, Cancelling
  <1>2. Dependencies' = Dependencies
    BY <1>1 DEF Triggered
  <1>3. /\ accountsLoading' = accountsLoading /\ selected' = selected
        /\ isAllAccountsSelected' = isAllAccountsSelected
        /\ Cardinality(accounts') = Cardinality(accounts)
    BY <1>2 DEF Dependencies
  <1>4. Wanted' = Wanted
    BY <1>1, <1>3, SameDependenciesSameWanted DEF Triggered
  <1>5. Current' = Current
    BY <1>3 DEF Current, Triggered
  <1> QED BY <1>4, <1>5

\* The cleanup of a guarded hook leaves no request that may be shown.
LEMMA DroppedIsAborted ==
    ASSUME hook \in Guarded, RequestsOK
    PROVE  \A r \in Dropped : r.aborted /\ "aborted" \in DOMAIN r
  BY DEF RequestsOK, Dropped

(* Each run of the effect, and each step without one.                        *)
LEMMA EffectKeeps ==
    ASSUME FilterTypeOK, FilterTypeOK', hook' = hook, hook \in Guarded,
           NEW answered \in BOOLEAN, Effect(answered),
           hook # "line" => viewMode' = viewMode,
           RequestsOK, SpinnerOK, LastOK
    PROVE  RequestsOK' /\ SpinnerOK' /\ LastOK'
  <1>1. CASE ~Triggered(answered)
    <2>1. UNCHANGED <<shows, spinning, failed, hasLoadedRef, asked>>
      BY <1>1 DEF Effect
    <2>2. Live' = Live
      BY <2>1 DEF Live
    <2> QED BY <1>1, <2>1, <2>2, NotTriggered DEF RequestsOK, SpinnerOK, LastOK
  <1> SUFFICES ASSUME Triggered(answered) PROVE RequestsOK' /\ SpinnerOK' /\ LastOK'
    BY <1>1
  <1>2. Runs
    BY DEF Effect
  <1>3. Spins /\ hook # "budgets" /\ hook # "ytd"
    BY DEF Spins, Guarded, Aborting, Cancelling
  <1>4. CASE asked' = Dropped
    <2>1. Live' = {}
      BY <1>4, DroppedIsAborted DEF Live
    <2>2. \A r \in asked' : "aborted" \in DOMAIN r
      BY <1>4, DroppedIsAborted
    <2>3. CASE RunsIdle /\ ~Current'
      BY <2>1, <2>2, <2>3 DEF RunsIdle, RequestsOK, SpinnerOK, LastOK
    <2>4. CASE RunsEmpty /\ Wanted' = Nothing
      <3>1. shows' = Nothing /\ spinning' = FALSE
        BY <1>3, <2>4 DEF RunsEmpty, Blocks, SpinnerOK
      <3> QED BY <2>1, <2>2, <2>4, <3>1 DEF RequestsOK, SpinnerOK, LastOK
    <2>5. ~RunsAsking(Wanted')
      <3>1. SUFFICES ASSUME RunsAsking(Wanted') PROVE FALSE
        OBVIOUS
      <3>2. Request(runs + 1, Wanted') \in asked'
        BY <1>3, <3>1 DEF RunsAsking, Requests
      <3>3. ~Request(runs + 1, Wanted').aborted
        BY DEF Request
      <3> QED BY <2>1, <3>2, <3>3 DEF Live
    <2> QED BY <1>2, <2>3, <2>4, <2>5 DEF Runs, Current
  <1>5. CASE RunsAsking(Wanted')
    <2> DEFINE new == Request(runs + 1, Wanted')
    <2>1. asked' = Dropped \cup {new}
      BY <1>3, <1>5 DEF RunsAsking, Requests
    <2>2. /\ ~new.aborted /\ ~new.silent /\ new.q = Wanted' /\ new.blocking = Blocks
          /\ "aborted" \in DOMAIN new
      BY DEF Request
    <2>3. Live' = {new}
      BY <2>1, <2>2, DroppedIsAborted DEF Live
    <2>4. \A r \in asked' : "aborted" \in DOMAIN r
      BY <2>1, <2>2, DroppedIsAborted
    <2>5. hasLoadedRef' = hasLoadedRef /\ (Blocks \/ (hook \in Refreshing /\ hasLoadedRef))
      BY <1>5 DEF RunsAsking, Blocks
    <2>6. RequestsOK'
      BY <2>2, <2>3, <2>4, <2>5 DEF RequestsOK
    <2>7. SpinnerOK'
      <3>1. SUFFICES ASSUME hook \in Refreshing, hasLoadedRef PROVE ~spinning'
        BY <2>5 DEF SpinnerOK
      <3>2. ~Blocks /\ ~spinning
        BY <3>1 DEF SpinnerOK, Blocks
      <3>3. spinning' = (spinning \/ (Spins /\ Blocks))
        BY <1>5 DEF RunsAsking
      <3> QED BY <3>2, <3>3
    <2>8. LastOK'
      BY <2>2, <2>3 DEF LastOK
    <2> QED BY <2>6, <2>7, <2>8
  <1> QED BY <1>2, <1>4, <1>5 DEF Runs, RunsIdle, RunsEmpty

LEMMA AnswerKeeps ==
    ASSUME FilterTypeOK, hook \in Guarded, NEW r \in asked, RequestAnswered(r),
           RequestsOK, SpinnerOK, LastOK
    PROVE  RequestsOK' /\ SpinnerOK' /\ LastOK'
  <1>1. Wanted' = Wanted /\ Current' = Current /\ hook' = hook /\ asked' = asked \ {r}
    BY DEF RequestAnswered, filterVars, Wanted, NoneSelected, Question, Current
  <1>2. Live' = Live \ {r}
    BY <1>1 DEF Live
  <1>3. CASE r.aborted
    <2>1. Live' = Live
      BY <1>2, <1>3 DEF Live
    <2>2. UNCHANGED <<shows, spinning, failed, hasLoadedRef>>
      BY <1>3 DEF RequestAnswered
    <2> QED BY <1>1, <2>1, <2>2 DEF RequestsOK, SpinnerOK, LastOK
  <1>4. CASE ~r.aborted
    <2>1. r \in Live
      BY <1>4 DEF Live
    <2>2. PICK ok \in BOOLEAN : Outcome(r, ok)
      BY <1>4 DEF RequestAnswered
    <2>3. ~r.silent /\ (r.blocking \/ ~spinning)
      BY <2>1 DEF RequestsOK, SpinnerOK
    <2>4. ~spinning'
      <3>1. spinning' = (spinning /\ (r.silent \/ ~r.blocking))
        BY <2>2 DEF Outcome, Stops
      <3> QED BY <2>3, <3>1
    <2>5. RequestsOK'
      BY <1>1, <1>2, <2>2 DEF RequestsOK, Outcome
    <2>6. ASSUME Current' PROVE Live' = {} /\ (failed' \/ shows' = Wanted')
      <3>1. Live = {r} /\ r.q = Wanted
        BY <1>1, <2>1, <2>6 DEF LastOK
      <3>2. ok => shows' = Wanted'
        BY <1>1, <2>2, <3>1 DEF Outcome
      <3>3. ~ok => failed'
        BY <2>2 DEF Outcome
      <3> QED BY <1>2, <3>1, <3>2, <3>3
    <2> QED BY <2>4, <2>5, <2>6 DEF SpinnerOK, LastOK
  <1> QED BY <1>3, <1>4

LEMMA NextInv == PagesInv /\ [PagesNext]_pagesVars => PagesInv'
  <1> SUFFICES ASSUME PagesInv, [PagesNext]_pagesVars PROVE PagesInv'
    OBVIOUS
  <1>1. FilterTypeOK /\ FilterTypeOK'
    BY NextTypes DEF PagesInv
  <1>2. hook' = hook
    BY DEF PagesNext, FilterChanges, ListAnswered, ListReads, PeriodChanges, ViewChanges,
           SilentLoad, Retry, RequestAnswered, pagesVars, hookVars
  <1> SUFFICES ASSUME hook \in Guarded, RequestsOK, SpinnerOK, LastOK
               PROVE  RequestsOK' /\ SpinnerOK' /\ LastOK'
    BY <1>1, <1>2 DEF PagesInv, GuardedOK, Guarded
  <1>3. CASE FilterChanges \/ PeriodChanges \/ ViewChanges
    <2>1. Effect(FALSE) /\ (hook # "line" => viewMode' = viewMode)
      BY <1>3 DEF FilterChanges, PeriodChanges, ViewChanges
    <2> QED BY <1>1, <1>2, <2>1, EffectKeeps
  <1>4. CASE ListAnswered
    <2>1. Effect(TRUE) /\ (hook # "line" => viewMode' = viewMode)
      BY <1>4 DEF ListAnswered
    <2> QED BY <1>1, <1>2, <2>1, EffectKeeps
  <1>5. CASE ListReads \/ UNCHANGED pagesVars
    <2>1. UNCHANGED <<accounts, selected, accountsLoading, hookVars>>
      BY <1>5 DEF ListReads, FetchReads, pagesVars, filterVars
    <2> QED BY <2>1 DEF hookVars, RequestsOK, SpinnerOK, LastOK, Live, Current, Wanted,
               NoneSelected, Question
  <1>6. ~SilentLoad /\ ~Retry
    BY DEF SilentLoad, Retry, Guarded, Aborting, Cancelling
  <1>7. ASSUME NEW r \in asked, RequestAnswered(r)
        PROVE  RequestsOK' /\ SpinnerOK' /\ LastOK'
    BY <1>1, <1>7, AnswerKeeps
  <1> QED BY <1>3, <1>4, <1>5, <1>6, <1>7 DEF PagesNext

-----------------------------------------------------------------------------
(* The refinement of LatestAnswer.  An answer that may still be shown is to  *)
(* what is asked now, also while the list of accounts is read again.         *)
LiveIsWanted == hook \in Guarded => \A r \in Live : r.q = Wanted
LatestInv == PagesInv /\ LiveIsWanted
Shown == IF hook \in Guarded THEN shows ELSE Nothing

\* What a step may do to what is wanted and shown.
Maps == \/ Promised!Ask \/ Promised!Answer
        \/ Wanted' = Wanted /\ Shown' = Shown

LEMMA EffectMaps ==
    ASSUME FilterTypeOK, FilterTypeOK', hook' = hook, hook \in Guarded,
           NEW answered \in BOOLEAN, Effect(answered),
           hook # "line" => viewMode' = viewMode,
           RequestsOK, LiveIsWanted
    PROVE  LiveIsWanted' /\ Maps
  <1>0. Shown = shows /\ Shown' = shows' /\ hook # "budgets"
    BY DEF Shown, Guarded, Aborting, Cancelling
  <1>1. CASE ~Triggered(answered)
    <2>1. UNCHANGED <<shows, asked>>
      BY <1>1 DEF Effect
    <2>2. Live' = Live /\ Wanted' = Wanted
      BY <1>1, <2>1, NotTriggered DEF Live
    <2> QED BY <1>0, <2>1, <2>2 DEF LiveIsWanted, Maps
  <1>2. CASE Triggered(answered)
    <2>1. RunsIdle \/ (Wanted' = Nothing /\ RunsEmpty) \/ RunsAsking(Wanted')
      BY <1>2 DEF Effect, Runs
    <2>2. CASE RunsIdle
      <3>1. Live' = {} /\ shows' = shows
        BY <2>2, DroppedIsAborted DEF RunsIdle, Live
      <3> QED BY <1>0, <3>1 DEF LiveIsWanted, Maps, Promised!Ask, Shown
    <2>3. CASE Wanted' = Nothing /\ RunsEmpty
      <3>1. Live' = {} /\ shows' = Nothing
        BY <2>3, DroppedIsAborted DEF RunsEmpty, Live
      <3> QED BY <1>0, <2>3, <3>1 DEF LiveIsWanted, Maps, Promised!Ask, Promised!Answer, Shown
    <2>4. CASE RunsAsking(Wanted')
      <3> DEFINE new == Request(runs + 1, Wanted')
      <3>1. asked' = Dropped \cup {new} /\ shows' = shows
        BY <1>0, <2>4 DEF RunsAsking, Requests
      <3>2. new.q = Wanted' /\ "aborted" \in DOMAIN new
        BY DEF Request
      <3>3. \A r \in Live' : r.q = Wanted'
        BY <3>1, <3>2, DroppedIsAborted DEF Live
      <3> QED BY <1>0, <3>1, <3>3 DEF LiveIsWanted, Maps, Promised!Ask, Shown
    <2> QED BY <2>1, <2>2, <2>3, <2>4
  <1> QED BY <1>1, <1>2

LEMMA AnswerMaps ==
    ASSUME hook \in Guarded, NEW r \in asked, RequestAnswered(r), LiveIsWanted
    PROVE  LiveIsWanted' /\ Maps
  <1>1. Wanted' = Wanted /\ hook' = hook /\ asked' = asked \ {r}
    BY DEF RequestAnswered, filterVars, Wanted, NoneSelected, Question
  <1>2. Live' \subseteq Live
    BY <1>1 DEF Live
  <1>3. LiveIsWanted'
    BY <1>1, <1>2 DEF LiveIsWanted
  <1>4. shows' \in {shows, Wanted, Nothing}
    <2>1. CASE r.aborted
      BY <2>1 DEF RequestAnswered
    <2>2. CASE ~r.aborted
      <3>1. r.q = Wanted
        BY <2>2 DEF Live, LiveIsWanted
      <3>2. PICK ok \in BOOLEAN : Outcome(r, ok)
        BY <2>2 DEF RequestAnswered
      <3> QED BY <3>1, <3>2 DEF Outcome
    <2> QED BY <2>1, <2>2
  <1> QED BY <1>1, <1>3, <1>4 DEF Maps, Promised!Answer, Shown

LEMMA StepMaps == LatestInv /\ [PagesNext]_pagesVars => LiveIsWanted' /\ Maps
  <1> SUFFICES ASSUME LatestInv, [PagesNext]_pagesVars PROVE LiveIsWanted' /\ Maps
    OBVIOUS
  <1>1. FilterTypeOK /\ FilterTypeOK'
    BY NextTypes DEF LatestInv, PagesInv
  <1>2. hook' = hook
    BY DEF PagesNext, FilterChanges, ListAnswered, ListReads, PeriodChanges, ViewChanges,
           SilentLoad, Retry, RequestAnswered, pagesVars, hookVars
  <1>3. CASE hook \notin Guarded
    <2>1. Shown = Nothing /\ Shown' = Nothing
      BY <1>2, <1>3 DEF Shown, Guarded
    <2> QED BY <1>2, <1>3, <2>1 DEF LiveIsWanted, Maps, Promised!Ask, Shown, Guarded
  <1>4. CASE hook \in Guarded
    <2>0. RequestsOK /\ LiveIsWanted
      BY <1>4 DEF LatestInv, PagesInv, GuardedOK
    <2>1. CASE FilterChanges \/ PeriodChanges \/ ViewChanges
      <3>1. Effect(FALSE) /\ (hook # "line" => viewMode' = viewMode)
        BY <2>1 DEF FilterChanges, PeriodChanges, ViewChanges
      <3> QED BY <1>1, <1>2, <1>4, <2>0, <3>1, EffectMaps
    <2>2. CASE ListAnswered
      <3>1. Effect(TRUE) /\ (hook # "line" => viewMode' = viewMode)
        BY <2>2 DEF ListAnswered
      <3> QED BY <1>1, <1>2, <1>4, <2>0, <3>1, EffectMaps
    <2>3. CASE ListReads \/ UNCHANGED pagesVars
      <3>1. UNCHANGED <<accounts, selected, accountsLoading, hookVars>>
        BY <2>3 DEF ListReads, FetchReads, pagesVars, filterVars
      <3>2. Wanted' = Wanted /\ Shown' = Shown /\ Live' = Live
        BY <3>1 DEF hookVars, Live, Wanted, NoneSelected, Question, Shown, Guarded
      <3> QED BY <1>2, <2>0, <3>2 DEF LiveIsWanted, Maps, Guarded
    <2>4. ~SilentLoad /\ ~Retry
      BY <1>4 DEF SilentLoad, Retry, Guarded, Aborting, Cancelling
    <2>5. ASSUME NEW r \in asked, RequestAnswered(r) PROVE LiveIsWanted' /\ Maps
      BY <1>4, <2>0, <2>5, AnswerMaps
    <2> QED BY <2>1, <2>2, <2>3, <2>4, <2>5 DEF PagesNext
  <1> QED BY <1>3, <1>4

(* Each hook that aborts or cancels implements LatestAnswer: an answer to an *)
(* earlier question is never shown in place of what is, whatever changes and *)
(* in whatever order the answers come.                                       *)
THEOREM OnlyLatestShown == PagesSpec => LatestSpec
  <1>1. PagesInit => LatestInv /\ Promised!Init
    <2> SUFFICES ASSUME PagesInit PROVE LatestInv /\ Promised!Init
      OBVIOUS
    <2>1. ASSUME hook \in Guarded PROVE Live = {}
      <3> DEFINE first(q) == [n |-> 1, q |-> q, blocking |-> TRUE, silent |-> FALSE,
                              aborted |-> hook \in Guarded]
      <3>1. asked \subseteq {first(Question({}, {}, period))}
        BY DEF PagesInit
      <3>2. \A q : first(q).aborted = TRUE
        BY <2>1
      <3> QED BY <3>1, <3>2 DEF Live
    <2> QED BY <2>1, InitInv DEF LatestInv, LiveIsWanted, Promised!Init, PagesInit
  <1>2. LatestInv /\ [PagesNext]_pagesVars => LatestInv'
    BY StepMaps, NextInv DEF LatestInv
  <1>3. LatestInv /\ [PagesNext]_pagesVars => [Promised!Next]_<<Wanted, Shown>>
    BY StepMaps DEF Maps, Promised!Next
  <1>4. LatestInv /\ [PagesNext]_pagesVars
        => [Promised!Next]_<<Wanted, IF hook \in Guarded THEN shows ELSE Nothing>>
    BY <1>3 DEF Shown
  <1> QED BY <1>1, <1>2, <1>4, PTL DEF PagesSpec, LatestSpec, Promised!Spec

-----------------------------------------------------------------------------
(* A hook that shows every answer.                                           *)
Unguarded == hook \in Hooks \ Guarded
\* The effect has run for what is wanted; of "ytd" it does not wait for the list.
UpToDate == hook = "ytd" \/ ~accountsLoading

\* Runs are numbered, and no request is of a run to come.
NumbersOK == /\ runs \in Nat /\ applied \in Nat /\ applied <= runs
             /\ \A r \in asked : r.n \in Nat /\ r.n <= runs /\ ~r.aborted
\* A spinner turns for a request that will stop it.
TurningOK == /\ spinning => \E r \in asked : r.blocking /\ ~r.silent
             /\ refreshing => asked # {}
\* The last run asked for what is wanted, and shows it when it is answered last.
LastRunOK == UpToDate => /\ \A r \in asked : r.n = runs => r.q = Wanted
                         /\ applied = runs => failed \/ shows = Wanted
UnguardedOK == Unguarded => NumbersOK /\ TurningOK /\ LastRunOK
ShownInv == FilterTypeOK /\ hook \in Hooks /\ UnguardedOK

LEMMA InitShown == PagesInit => ShownInv
  <1> SUFFICES ASSUME PagesInit PROVE ShownInv
    OBVIOUS
  <1>1. FilterTypeOK /\ hook \in Hooks
    BY InitInv DEF PagesInit, PagesInv
  <1> SUFFICES ASSUME Unguarded PROVE NumbersOK /\ TurningOK /\ LastRunOK
    BY <1>1 DEF ShownInv, UnguardedOK
  <1>2. hook # "line" /\ hook \notin Guarded
    BY DEF Unguarded, Guarded, Cancelling
  <1> DEFINE first == [n |-> 1, q |-> Question({}, {}, period), blocking |-> TRUE,
                       silent |-> FALSE, aborted |-> hook \in Guarded]
  <1>3. asked = {first} /\ runs = 1 /\ applied = 0 /\ refreshing = FALSE
    BY <1>2 DEF PagesInit
  <1>4. first.n = 1 /\ first.blocking /\ ~first.silent /\ ~first.aborted
    BY <1>2
  <1>5. NumbersOK
    BY <1>3, <1>4 DEF NumbersOK
  <1>6. TurningOK
    BY <1>3, <1>4 DEF TurningOK
  <1>7. UpToDate => first.q = Wanted
    BY DEF UpToDate, PagesInit, FilterInit, Wanted, Question
  <1>8. LastRunOK
    BY <1>3, <1>7 DEF LastRunOK
  <1> QED BY <1>5, <1>6, <1>8

LEMMA NotTriggeredShown ==
    ASSUME FilterTypeOK, FilterTypeOK', hook' = hook,
           NEW answered \in BOOLEAN, ~Triggered(answered)
    PROVE  Wanted' = Wanted /\ UpToDate' = UpToDate
  <1>1. CASE hook = "ytd"
    <2>1. period' = period
      BY <1>1 DEF Triggered, ByPeriod
    <2> QED BY <1>1, <2>1 DEF Wanted, Question, UpToDate
  <1>2. CASE hook # "ytd"
    <2>1. Dependencies' = Dependencies
      BY <1>2 DEF Triggered
    <2>2. /\ accountsLoading' = accountsLoading /\ selected' = selected
          /\ isAllAccountsSelected' = isAllAccountsSelected
          /\ Cardinality(accounts') = Cardinality(accounts)
      BY <2>1 DEF Dependencies
    <2> QED BY <1>2, <2>2, SameDependenciesSameWanted DEF Triggered, UpToDate
  <1> QED BY <1>1, <1>2

\* The requests of a run, of which the last has the number of the run.
LEMMA RequestsOfRun ==
    ASSUME NEW q, runs \in Nat, runs' = runs + Cardinality(Requests(q))
    PROVE  /\ runs' \in Nat /\ runs' > runs
           /\ Requests(q) # {}
           /\ \A r \in Requests(q) : /\ r.n \in Nat /\ r.n <= runs' /\ r.q = q
                                     /\ ~r.aborted /\ ~r.silent /\ r.blocking = Blocks
  <1> DEFINE a == Request(runs + 1, q)  b == Request(runs + 2, q)
  <1>1. /\ a.n = runs + 1 /\ a.q = q /\ ~a.aborted /\ ~a.silent /\ a.blocking = Blocks
        /\ b.n = runs + 2 /\ b.q = q /\ ~b.aborted /\ ~b.silent /\ b.blocking = Blocks
    BY DEF Request
  <1>2. IsFiniteSet({a}) /\ Cardinality({a}) = 1
    BY FS_Singleton
  <1>3. a # b
    BY <1>1
  <1>4. Cardinality({a} \cup {b}) = 2
    BY <1>2, <1>3, FS_AddElement
  <1>5. CASE Requests(q) = {a, b}
    <2>1. {a, b} = {a} \cup {b}
      OBVIOUS
    <2>2. runs' = runs + 2
      BY <1>4, <1>5, <2>1
    <2> HIDE DEF a, b
    <2> QED BY <1>1, <1>5, <2>2
  <1>6. CASE Requests(q) = {a}
    <2>1. runs' = runs + 1
      BY <1>2, <1>6
    <2> HIDE DEF a, b
    <2> QED BY <1>1, <1>6, <2>1
  <1> QED BY <1>5, <1>6 DEF Requests

(* A run, by the effect or by Retry, with the filter as it then is.          *)
LEMMA RunsEmptyShown ==
    ASSUME hook' = hook, Unguarded, RunsEmpty, Wanted' = Nothing, NumbersOK, TurningOK
    PROVE  NumbersOK' /\ TurningOK' /\ LastRunOK'
  <1>1. asked' = asked
    BY DEF RunsEmpty, Dropped, Unguarded
  <1>2. NumbersOK'
    BY <1>1 DEF RunsEmpty, NumbersOK
  <1>3. TurningOK'
    <2>1. spinning' = (spinning /\ (hook = "budgets" \/ ~Blocks)) /\ refreshing' = FALSE
      BY DEF RunsEmpty
    <2> QED BY <1>1, <2>1 DEF TurningOK
  <1>4. LastRunOK'
    BY <1>1 DEF RunsEmpty, NumbersOK, LastRunOK
  <1> QED BY <1>2, <1>3, <1>4

LEMMA RunsAskingShown ==
    ASSUME hook' = hook, Unguarded, RunsAsking(Wanted'), NumbersOK, TurningOK
    PROVE  NumbersOK' /\ TurningOK' /\ LastRunOK'
  <1> DEFINE new == Requests(Wanted')
  <1>1. asked' = asked \cup new /\ runs' = runs + Cardinality(new)
    BY DEF RunsAsking, Dropped, Unguarded
  <1>2. /\ runs' \in Nat /\ runs' > runs /\ new # {}
        /\ \A r \in new : /\ r.n \in Nat /\ r.n <= runs' /\ r.q = Wanted'
                          /\ ~r.aborted /\ ~r.silent /\ r.blocking = Blocks
    BY <1>1, RequestsOfRun DEF NumbersOK
  <1>3. /\ spinning' = (spinning \/ (Spins /\ Blocks)) /\ refreshing' = ~Blocks
        /\ applied' = applied
    BY DEF RunsAsking
  <1> HIDE DEF new
  <1>4. NumbersOK'
    BY <1>1, <1>2, <1>3 DEF NumbersOK
  <1>5. TurningOK'
    <2>1. spinning' => spinning \/ Blocks
      BY <1>3
    <2> QED BY <1>1, <1>2, <2>1 DEF TurningOK
  <1>6. LastRunOK'
    BY <1>1, <1>2, <1>3 DEF LastRunOK, NumbersOK
  <1> QED BY <1>4, <1>5, <1>6

LEMMA EffectShown ==
    ASSUME FilterTypeOK, FilterTypeOK', hook' = hook, Unguarded,
           NEW answered \in BOOLEAN, Effect(answered),
           NumbersOK, TurningOK, LastRunOK
    PROVE  NumbersOK' /\ TurningOK' /\ LastRunOK'
  <1>1. CASE ~Triggered(answered)
    BY <1>1, NotTriggeredShown DEF Effect, NumbersOK, TurningOK, LastRunOK
  <1> SUFFICES ASSUME Triggered(answered) PROVE NumbersOK' /\ TurningOK' /\ LastRunOK'
    BY <1>1
  <1>2. Runs /\ hook # "line"
    BY DEF Effect, Unguarded, Guarded, Cancelling
  <1>3. CASE RunsIdle /\ ~UpToDate'
    <2>1. asked' = asked
      BY <1>3 DEF RunsIdle, Dropped, Unguarded
    <2> QED BY <1>3, <2>1 DEF RunsIdle, NumbersOK, TurningOK, LastRunOK
  <1>4. CASE RunsEmpty /\ Wanted' = Nothing
    BY <1>4, RunsEmptyShown
  <1>5. CASE RunsAsking(Wanted')
    BY <1>5, RunsAskingShown
  <1> QED BY <1>2, <1>3, <1>4, <1>5 DEF Runs, UpToDate

LEMMA SilentLoadShown ==
    ASSUME hook' = hook, SilentLoad, NumbersOK, TurningOK
    PROVE  NumbersOK' /\ TurningOK' /\ LastRunOK'
  <1>1. /\ runs' = runs + 1 /\ Wanted' = Wanted /\ failed' = FALSE
        /\ UNCHANGED <<spinning, refreshing>>
    BY DEF SilentLoad, Wanted, NoneSelected, Question
  <1>2. CASE Wanted = Nothing /\ asked' = asked /\ applied' = runs + 1 /\ shows' = Nothing
    BY <1>1, <1>2 DEF NumbersOK, TurningOK, LastRunOK
  <1>3. CASE /\ asked' = asked \cup {[Request(runs + 1, Wanted) EXCEPT !.silent = TRUE]}
             /\ applied' = applied
    <2> DEFINE new == [Request(runs + 1, Wanted) EXCEPT !.silent = TRUE]
    <2>1. new.n = runs + 1 /\ new.q = Wanted /\ ~new.aborted
      BY DEF Request
    <2>2. asked' = asked \cup {new} /\ applied' = applied
      BY <1>3
    <2> HIDE DEF new
    <2> QED BY <1>1, <2>1, <2>2 DEF NumbersOK, TurningOK, LastRunOK
  <1> QED BY <1>2, <1>3 DEF SilentLoad

LEMMA AnswerShown ==
    ASSUME hook' = hook, NEW r \in asked, RequestAnswered(r), NumbersOK, TurningOK, LastRunOK
    PROVE  NumbersOK' /\ TurningOK' /\ LastRunOK'
  <1>1. /\ Wanted' = Wanted /\ UpToDate' = UpToDate
        /\ asked' = asked \ {r} /\ runs' = runs
    BY DEF RequestAnswered, filterVars, Wanted, NoneSelected, Question, UpToDate
  <1>2. PICK ok \in BOOLEAN : Outcome(r, ok)
    BY DEF RequestAnswered, NumbersOK
  <1>3. NumbersOK'
    BY <1>1, <1>2 DEF NumbersOK, Outcome
  <1>4. TurningOK'
    <2>1. spinning' = (spinning /\ (r.silent \/ ~r.blocking)) /\ refreshing' = FALSE
      BY <1>2 DEF Outcome, Stops
    <2> QED BY <1>1, <2>1 DEF TurningOK
  <1>5. applied' = r.n /\ (ok => shows' = r.q) /\ (~ok => failed')
    BY <1>2 DEF Outcome
  <1>6. LastRunOK'
    BY <1>1, <1>5 DEF LastRunOK
  <1> QED BY <1>3, <1>4, <1>6

LEMMA NextShown == ShownInv /\ [PagesNext]_pagesVars => ShownInv'
  <1> SUFFICES ASSUME ShownInv, [PagesNext]_pagesVars PROVE ShownInv'
    OBVIOUS
  <1>1. FilterTypeOK /\ FilterTypeOK'
    BY NextTypes DEF ShownInv
  <1>2. hook' = hook
    BY DEF PagesNext, FilterChanges, ListAnswered, ListReads, PeriodChanges, ViewChanges,
           SilentLoad, Retry, RequestAnswered, pagesVars, hookVars
  <1> SUFFICES ASSUME Unguarded, NumbersOK, TurningOK, LastRunOK
               PROVE  NumbersOK' /\ TurningOK' /\ LastRunOK'
    BY <1>1, <1>2 DEF ShownInv, UnguardedOK, Unguarded, Guarded
  <1>3. CASE FilterChanges \/ PeriodChanges \/ ViewChanges
    <2>1. Effect(FALSE)
      BY <1>3 DEF FilterChanges, PeriodChanges, ViewChanges
    <2> QED BY <1>1, <1>2, <2>1, EffectShown
  <1>4. CASE ListAnswered
    <2>1. Effect(TRUE)
      BY <1>4 DEF ListAnswered
    <2> QED BY <1>1, <1>2, <2>1, EffectShown
  <1>5. CASE ListReads \/ UNCHANGED pagesVars
    <2>1. UNCHANGED <<accounts, selected, accountsLoading, hookVars>>
      BY <1>5 DEF ListReads, FetchReads, pagesVars, filterVars
    <2> QED BY <2>1 DEF hookVars, NumbersOK, TurningOK, LastRunOK, UpToDate, Wanted,
               NoneSelected, Question
  <1>6. CASE SilentLoad
    BY <1>2, <1>6, SilentLoadShown
  <1>7. CASE Retry
    <2>1. Wanted' = Wanted /\ (IF Wanted = Nothing THEN RunsEmpty ELSE RunsAsking(Wanted))
      BY <1>7 DEF Retry, Wanted, NoneSelected, Question
    <2>2. CASE Wanted = Nothing
      BY <1>2, <2>1, <2>2, RunsEmptyShown
    <2>3. CASE Wanted # Nothing
      <3>1. RunsAsking(Wanted')
        BY <2>1, <2>3
      <3> QED BY <1>2, <3>1, RunsAskingShown
    <2> QED BY <2>2, <2>3
  <1>8. ASSUME NEW r \in asked, RequestAnswered(r)
        PROVE  NumbersOK' /\ TurningOK' /\ LastRunOK'
    BY <1>2, <1>8, AnswerShown
  <1> QED BY <1>3, <1>4, <1>5, <1>6, <1>7, <1>8 DEF PagesNext

-----------------------------------------------------------------------------
(* What a hook that aborts or cancels shows, once its requests are answered, *)
(* is what the filter and the period ask for, whatever the order of changes  *)
(* and answers: no change of the accounts goes unnoticed by the effect.      *)
THEOREM GuardedHooksShowWanted == PagesSpec => []GuardedShowsWanted
  <1>1. PagesInv => GuardedShowsWanted
    <2> SUFFICES ASSUME PagesInv, Settled, hook \in Guarded, ~failed
                 PROVE  shows = Wanted /\ Panels = {IF Wanted = Nothing THEN "empty" ELSE "data"}
      BY DEF GuardedShowsWanted
    <2>1. shows = Wanted /\ ~spinning
      BY DEF PagesInv, GuardedOK, LastOK, Settled, Current
    <2>2. Filled = IF Wanted = Nothing THEN "empty" ELSE "data"
      BY <2>1 DEF Filled
    <2>3. Panels = {Filled}
      BY <2>1 DEF Panels, Guarded, Aborting, Cancelling, CategoriesPanel, MerchantsPanel,
                  NetWorthPanel, ChargesPanel, SankeyPanel, LinePanel
    <2> QED BY <2>1, <2>2, <2>3
  <1> QED BY <1>1, InitInv, NextInv, PTL DEF PagesSpec

(* A hook that shows every answer as it comes leaves no spinner turning, and *)
(* shows what is wanted whenever its last run was answered last: what can go *)
(* wrong is the order of the answers, and nothing else.                      *)
THEOREM UnguardedHooksShowLastRun == PagesSpec => []LastRunShowsWanted
  <1>1. ShownInv => LastRunShowsWanted
    <2> SUFFICES ASSUME ShownInv, Settled, hook \notin Guarded
                 PROVE  ~Spinning /\ (applied = runs => failed \/ shows = Wanted)
      BY DEF LastRunShowsWanted
    <2>1. NumbersOK /\ TurningOK /\ LastRunOK
      BY DEF ShownInv, UnguardedOK, Unguarded
    <2>2. asked = {} /\ UpToDate
      BY <2>1 DEF Settled, Live, NumbersOK, UpToDate
    <2> QED BY <2>1, <2>2 DEF TurningOK, LastRunOK, Spinning
  <1> QED BY <1>1, InitShown, NextShown, PTL DEF PagesSpec

(* A new list of accounts never selects again what was listed and left out,  *)
(* however the fetches overlap.                                              *)
THEOREM LeftOutStaysLeftOut == PagesSpec => KeepsLeftOut
  <1> DEFINE Kept == \A a \in (accounts \cap accounts') \ selected :
                        a \in selected' /\ selected # {} => fetches' = fetches
  <1>1. ASSUME [PagesNext]_pagesVars PROVE [Kept]_filterVars
    <2>1. ASSUME NEW f \in fetches, FetchAnswered(f) PROVE Kept
      BY <2>1 DEF FetchAnswered, Reselected, isAllAccountsSelected
    <2>2. ASSUME NEW f \in fetches, FetchFails(f) \/ FetchReads(f) PROVE Kept
      BY <2>2 DEF FetchFails, FetchReads
    <2>3. ASSUME NEW a \in Accounts, AccountsChange(a) PROVE Kept
      BY <2>3 DEF AccountsChange
    <2>4. CASE fetches' = fetches
      BY <2>4
    <2>5. CASE FilterChanges
      BY <2>3, <2>4, <2>5 DEF FilterChanges, ToggleAccount, ToggleBank, SelectAll, SetsSelection
    <2> QED BY <1>1, <2>1, <2>2, <2>4, <2>5 DEF PagesNext, ListAnswered, ListReads, PeriodChanges,
               ViewChanges, SilentLoad, Retry, RequestAnswered, filterVars, pagesVars
  <1> QED BY <1>1, PTL DEF PagesSpec, KeepsLeftOut

-----------------------------------------------------------------------------
(* Labels: what an edit will leave shown.                                    *)
Item == [t : Rows, label : Labels, by : {"explicit", "rule", "provider"}]
EditCall == [no : Nat, job : {"select", "reset", "create", "rule"}, row : Rows,
             label : Labels \cup {Unlabelled}, step : {"set", "unset", "category", "rule", "load"},
             phase : {"sent", "done", "failed"}, got : SUBSET Item]
ChainOK(e) ==
    /\ e.job = "select" => e.step = "set"
    /\ e.job = "create" => e.step \in {"category", "set"}
    /\ e.job = "reset" => e.step \in {"unset", "load"}
    /\ e.job = "rule" => e.step \in {"rule", "unset", "load"}
    /\ e.job # "reset" => e.label \in Labels
EditsTypeOK ==
    /\ override \in [Rows -> Labels \cup {Unlabelled}] /\ rule \in Labels \cup {Unlabelled}
    /\ view \subseteq Item /\ openRow \in Rows \cup {0} /\ edited \in Nat
    /\ edits \subseteq EditCall /\ \A e \in edits : ChainOK(e)

\* An edit of a row that is not adrift met no other.
Apart(t) == \A e, d \in edits : t \in Touches(e) /\ e # d => ~Meets(e, d)
\* The server, or the page, is ahead of the other until the edit ends.
Ahead(e) == \/ e.job = "rule"
            \/ e.step = "set" /\ e.phase = "done"
            \/ e.job = "reset" /\ (e.step = "load" \/ e.phase = "done")
Coming(t) == \E e \in edits : t \in Touches(e) /\ Ahead(e)
Viewed(t) == \A r \in view : r.t = t => r = Label(t) \/ Coming(t)
Fetched(t) == \A e \in edits : e.step = "load" /\ e.phase = "done" => \A r \in e.got : r.t = t => r = Label(t)
Assigned(t) == \A e \in edits : e.step = "set" /\ e.phase = "done" /\ e.row = t => override[t] = e.label
Kept(t) == Apart(t) /\ Viewed(t) /\ Fetched(t) /\ Assigned(t)
EditsInv == EditsTypeOK /\ \A t \in Rows \ adrift : Kept(t)

USE EditsAssumption

LEMMA LabelType ==
    ASSUME EditsTypeOK, NEW t \in Rows
    PROVE  Label(t) \in Item /\ Label(t).t = t
  <1>1. CASE override[t] # Unlabelled
    <2>1. Label(t) = [t |-> t, label |-> override[t], by |-> "explicit"]
      BY <1>1 DEF Label
    <2> QED BY <1>1, <2>1 DEF EditsTypeOK, Item
  <1>2. CASE override[t] = Unlabelled /\ t \in Matched /\ rule # Unlabelled
    <2>1. Label(t) = [t |-> t, label |-> rule, by |-> "rule"]
      BY <1>2 DEF Label
    <2> QED BY <1>2, <2>1 DEF EditsTypeOK, Item
  <1>3. CASE override[t] = Unlabelled /\ ~(t \in Matched /\ rule # Unlabelled)
    <2>1. Label(t) = [t |-> t, label |-> Provided[t], by |-> "provider"]
      BY <1>3 DEF Label
    <2> QED BY <2>1 DEF Item
  <1> QED BY <1>1, <1>2, <1>3

LEMMA ListedType ==
    ASSUME EditsTypeOK
    PROVE  Listed \subseteq Item /\ \A r \in Listed : r = Label(r.t)
  <1>1. \A t \in Rows : Label(t) \in Item /\ Label(t).t = t
    BY LabelType
  <1> QED BY <1>1 DEF Listed

LEMMA OpenType ==
    ASSUME NEW c, NEW p, NEW row, NEW s, Effects(c, p, row, s), view' \subseteq Item
    PROVE  openRow' \in Rows \cup {0}
  <1>1. Mounted' \subseteq Rows
    BY DEF Mounted, PageItems, Filtered, Item
  <1> QED BY <1>1 DEF Effects

LEMMA EditsInitInv == EditsInit => EditsInv
  <1> SUFFICES ASSUME EditsInit PROVE EditsInv
    OBVIOUS
  <1>1. override \in [Rows -> Labels \cup {Unlabelled}]
    BY DEF EditsInit
  <1>2. LET types == override \in [Rows -> Labels \cup {Unlabelled}] /\ rule \in Labels \cup {Unlabelled}
        IN types
    BY <1>1 DEF EditsInit
  <1>3. \A t \in Rows : Label(t) \in Item /\ Label(t).t = t
    <2> SUFFICES ASSUME NEW t \in Rows PROVE Label(t) \in Item /\ Label(t).t = t
      OBVIOUS
    <2>1. CASE override[t] # Unlabelled
      BY <1>1, <2>1 DEF Label, Item
    <2>2. CASE override[t] = Unlabelled
      BY <1>1, <2>2 DEF EditsInit, Label, Item
    <2> QED BY <2>1, <2>2
  <1>4. view \subseteq Item /\ \A r \in view : r = Label(r.t)
    BY <1>3 DEF EditsInit, Listed
  <1>5. EditsTypeOK
    BY <1>1, <1>4 DEF EditsInit, EditsTypeOK
  <1>6. \A t \in Rows \ adrift : Kept(t)
    BY <1>4 DEF EditsInit, Kept, Apart, Viewed, Fetched, Assigned
  <1> QED BY <1>5, <1>6 DEF EditsInv

\* Nothing changes but the filter, the page and the dropdown.
LEMMA LookingKeeps ==
    ASSUME EditsInv, NEW c, NEW p, NEW row, NEW s, Effects(c, p, row, s) \/ openRow' = openRow,
           UNCHANGED <<override, rule, view, edits, edited, adrift>>
    PROVE  EditsInv'
  <1>1. EditsTypeOK'
    BY OpenType DEF EditsInv, EditsTypeOK, ChainOK
  <1>2. \A t : Kept(t) => Kept(t)'
    BY DEF Kept, Apart, Viewed, Fetched, Assigned, Coming, Label
  <1> QED BY <1>1, <1>2 DEF EditsInv

\* A new edit, whose rows are adrift if it meets another.
LEMMA StartKeeps ==
    ASSUME EditsInv, NEW job, NEW step, NEW k, StartsEdit(job, step, k),
           job \in {"select", "reset", "create", "rule"},
           step \in {"set", "unset", "category", "rule", "load"}, step # "load",
           k \in Labels \cup {Unlabelled},
           \A e : e.job = job /\ e.step = step /\ e.label = k => ChainOK(e),
           view' \subseteq Item, openRow' \in Rows \cup {0},
           \A r \in view' : r \in view \/ (job = "rule" /\ r.t \in Matched \cup {openRow})
    PROVE  EditsInv'
  <1> USE DEF EditsInv
  <1> DEFINE x == [no |-> edited + 1, job |-> job, row |-> openRow, label |-> k, step |-> step,
                   phase |-> "sent", got |-> {}]
  <1>1. /\ edits' = edits \cup {x} /\ edited' = edited + 1 /\ openRow # 0
        /\ adrift' = adrift \cup UNION {Touches(x) \cup Touches(d) : d \in {d \in edits : Meets(x, d)}}
        /\ UNCHANGED <<override, rule>>
    BY DEF StartsEdit, editServer
  <1>2. openRow \in Rows /\ edited \in Nat
    BY <1>1 DEF EditsTypeOK
  <1>3. x \in EditCall /\ ChainOK(x)
    BY <1>2 DEF EditCall
  <1>4. x.phase = "sent" /\ x.job = job /\ x.row = openRow
    OBVIOUS
  <1> HIDE DEF x
  <1>5. EditsTypeOK'
    BY <1>1, <1>2, <1>3 DEF EditsTypeOK, ChainOK
  <1>6. ASSUME NEW t \in Rows \ adrift' PROVE Kept(t)'
    <2>1. t \in Rows \ adrift /\ Kept(t)
      BY <1>1
    <2>2. \A d \in edits : Meets(x, d) => t \notin Touches(x) /\ t \notin Touches(d)
      BY <1>1
    <2>3. \A d \in edits : Meets(d, x) => Meets(x, d)
      BY DEF Meets
    <2>4. Apart(t)'
      BY <1>1, <2>1, <2>2, <2>3 DEF Kept, Apart
    <2>5. Coming(t) => Coming(t)'
      BY <1>1 DEF Coming
    <2>6. job = "rule" /\ t \in Matched \cup {openRow} => Coming(t)'
      BY <1>1, <1>4 DEF Coming, Touches, Ahead
    <2>7. Label(t)' = Label(t)
      BY <1>1 DEF Label
    <2>8. Viewed(t)'
      BY <2>1, <2>5, <2>6, <2>7 DEF Kept, Viewed
    <2>9. Fetched(t)' /\ Assigned(t)'
      BY <1>1, <1>4, <2>1, <2>7 DEF Kept, Fetched, Assigned
    <2> QED BY <2>4, <2>8, <2>9 DEF Kept
  <1> QED BY <1>5, <1>6

\* One edit turns into the next form of itself.
LEMMA TurnApart ==
    ASSUME NEW t, Apart(t), NEW e \in edits, NEW x, edits' = (edits \ {e}) \cup {x},
           x.job = e.job, x.row = e.row
    PROVE  Apart(t)'
  <1>1. Touches(x) = Touches(e)
    BY DEF Touches
  <1>2. \A d : (Meets(x, d) <=> Meets(e, d)) /\ (Meets(d, x) <=> Meets(d, e))
    BY DEF Meets, Reloads
  <1> QED BY <1>1, <1>2 DEF Apart

LEMMA TurnType ==
    ASSUME EditsTypeOK, NEW e \in edits, NEW x \in EditCall, edits' = (edits \ {e}) \cup {x}, ChainOK(x),
           override' \in [Rows -> Labels \cup {Unlabelled}], rule' \in Labels \cup {Unlabelled},
           UNCHANGED <<view, openRow, edited>>
    PROVE  EditsTypeOK'
  BY DEF EditsTypeOK, ChainOK

\* What is ahead stays ahead.
LEMMA TurnComing ==
    ASSUME NEW t, Coming(t), NEW e \in edits, NEW x, edits' = (edits \ {e}) \cup {x},
           x.job = e.job, x.row = e.row, Ahead(e) => Ahead(x)
    PROVE  Coming(t)'
  <1>1. Touches(x) = Touches(e)
    BY DEF Touches
  <1> QED BY <1>1 DEF Coming, Ahead

\* A turn that the server does not see: the call is lost, or the next is made.
LEMMA SilentTurnKeeps ==
    ASSUME EditsInv, NEW e \in edits, NEW x \in EditCall, edits' = (edits \ {e}) \cup {x}, ChainOK(x),
           x.job = e.job, x.row = e.row, x.phase # "done", Rows \ adrift' \subseteq Rows \ adrift,
           \/ Ahead(e) => Ahead(x)
           \/ \A t \in Touches(e) : t \in adrift',
           UNCHANGED <<override, rule, view, openRow, edited>>
    PROVE  EditsInv'
  <1> USE DEF EditsInv
  <1>1. EditsTypeOK'
    BY TurnType DEF EditsTypeOK
  <1>2. ASSUME NEW t \in Rows \ adrift' PROVE Kept(t)'
    <2>1. Kept(t)
      BY <1>2
    <2>2. Apart(t)'
      BY <2>1, TurnApart DEF Kept
    <2>3. Coming(t) => Coming(t)'
      <3>1. CASE Ahead(e) => Ahead(x)
        BY <3>1, TurnComing
      <3>2. CASE t \notin Touches(e)
        BY <3>2 DEF Coming, Ahead
      <3> QED BY <1>2, <3>1, <3>2
    <2>4. Label(t)' = Label(t)
      BY DEF Label
    <2> QED BY <2>1, <2>2, <2>3, <2>4 DEF Kept, Viewed, Fetched, Assigned
  <1> QED BY <1>1, <1>2

LEMMA BreakKeeps ==
    ASSUME EditsInv, NEW e \in edits, EditBreaks(e)
    PROVE  EditsInv'
  <1> DEFINE x == [e EXCEPT !.phase = "failed"]
  <1>1. e \in EditCall /\ ChainOK(e)
    BY DEF EditsInv, EditsTypeOK
  <1>2. /\ edits' = (edits \ {e}) \cup {x} /\ e.phase \in {"sent", "done"}
        /\ adrift' = IF e.phase = "done" /\ e.step # "load" THEN adrift \cup Touches(e) ELSE adrift
        /\ UNCHANGED <<override, rule, view, openRow, edited>>
    BY DEF EditBreaks, Phase, editServer
  <1>3. /\ x \in EditCall /\ x.phase = "failed" /\ x.step = e.step /\ x.job = e.job /\ x.row = e.row
        /\ x.label = e.label
    BY <1>1 DEF EditCall
  <1> HIDE DEF x
  <1>4. ChainOK(x)
    BY <1>1, <1>3 DEF ChainOK
  <1>5. (Ahead(e) => Ahead(x)) \/ \A t \in Touches(e) : t \in adrift'
    BY <1>2, <1>3 DEF Ahead
  <1> QED BY <1>2, <1>3, <1>4, <1>5, SilentTurnKeeps

LEMMA GoOnKeeps ==
    ASSUME EditsInv, NEW e \in edits, EditGoesOn(e)
    PROVE  EditsInv'
  <1> DEFINE x == [e EXCEPT !.step = Succ(e), !.phase = "sent"]
  <1>1. e \in EditCall /\ ChainOK(e)
    BY DEF EditsInv, EditsTypeOK
  <1>2. /\ edits' = (edits \ {e}) \cup {x}
        /\ \/ e.phase = "done" /\ e.step \in {"category", "rule", "unset"}
           \/ e.phase = "failed" /\ e.step = "unset" /\ e.job = "rule"
        /\ UNCHANGED <<override, rule, view, openRow, edited, adrift>>
    BY DEF EditGoesOn, editServer
  <1>3. /\ e.step = "category" => Succ(e) = "set" /\ e.job = "create"
        /\ e.step = "rule" => Succ(e) = "unset" /\ e.job = "rule"
        /\ e.step = "unset" => Succ(e) = "load" /\ e.job \in {"reset", "rule"}
    BY <1>1 DEF Succ, ChainOK, EditCall
  <1>4. /\ x \in EditCall /\ x.phase = "sent" /\ x.step = Succ(e) /\ x.job = e.job /\ x.row = e.row
        /\ x.label = e.label
    BY <1>1, <1>2, <1>3 DEF EditCall
  <1> HIDE DEF x
  <1>5. ChainOK(x)
    BY <1>1, <1>2, <1>3, <1>4 DEF ChainOK
  <1>6. Ahead(e) => Ahead(x)
    BY <1>2, <1>3, <1>4 DEF Ahead
  <1> QED BY <1>2, <1>4, <1>5, <1>6, SilentTurnKeeps

\* The server answers: what it changed is still to be shown.
LEMMA ReachKeeps ==
    ASSUME EditsInv, NEW e \in edits, EditReached(e)
    PROVE  EditsInv'
  <1> USE DEF EditsInv
  <1>1. e \in EditCall /\ ChainOK(e) /\ e.phase = "sent"
    BY DEF EditsTypeOK, EditReached
  <1>2. PICK g, p : /\ g = Listed
                    /\ p = IF e.step = "category" /\ e.label \in subcategories THEN "failed" ELSE "done"
    OBVIOUS
  <1> DEFINE x == IF e.step = "load" THEN [e EXCEPT !.phase = "done", !.got = g] ELSE [e EXCEPT !.phase = p]
  <1>3. g \subseteq Item /\ \A r \in g : r = Label(r.t)
    BY <1>2, ListedType
  <1>4. /\ x \in EditCall /\ x.step = e.step /\ x.job = e.job /\ x.row = e.row /\ x.label = e.label
        /\ e.step # "category" => x.phase = "done"
        /\ e.step = "load" => x.got = g
    <2>1. p \in {"failed", "done"} /\ (e.step # "category" => p = "done") /\ g \in SUBSET Item
      BY <1>2, <1>3
    <2>2. CASE e.step = "load"
      <3>1. x = [e EXCEPT !.phase = "done", !.got = g]
        BY <2>2
      <3> QED BY <1>1, <2>1, <2>2, <3>1 DEF EditCall
    <2>3. CASE e.step # "load"
      <3>1. x = [e EXCEPT !.phase = p]
        BY <2>3
      <3> QED BY <1>1, <2>1, <2>3, <3>1 DEF EditCall
    <2> QED BY <2>2, <2>3
  <1>5. edits' = (edits \ {e}) \cup {x}
    BY <1>2 DEF EditReached, Phase
  <1> HIDE DEF x
  <1>6. /\ UNCHANGED <<view, openRow, edited, adrift>>
        /\ override' = CASE e.step = "set" -> [override EXCEPT ![e.row] = e.label]
                         [] e.step = "unset" -> [override EXCEPT ![e.row] = Unlabelled]
                         [] OTHER -> override
        /\ rule' = IF e.step = "rule" THEN e.label ELSE rule
    BY DEF EditReached
  <1>7. /\ e.step \notin {"set", "unset"} => override' = override
        /\ e.step = "set" => override' = [override EXCEPT ![e.row] = e.label]
        /\ e.step = "unset" => override' = [override EXCEPT ![e.row] = Unlabelled]
    BY <1>6
  <1>8. ChainOK(x)
    BY <1>1, <1>4 DEF ChainOK
  <1>9. EditsTypeOK'
    <2>1. override' \in [Rows -> Labels \cup {Unlabelled}] /\ rule' \in Labels \cup {Unlabelled}
      BY <1>1, <1>6, <1>7 DEF EditsTypeOK, EditCall
    <2> QED BY <1>4, <1>5, <1>6, <1>8, <2>1, TurnType
  <1>10. Ahead(e) => Ahead(x)
    BY <1>1, <1>4 DEF Ahead, ChainOK
  <1>11. ASSUME NEW t \in Rows \ adrift' PROVE Kept(t)'
    <2>1. Kept(t)
      BY <1>6, <1>11
    <2>2. Apart(t)'
      BY <1>4, <1>5, <2>1, TurnApart DEF Kept
    <2>3. Coming(t) => Coming(t)'
      BY <1>4, <1>5, <1>10, TurnComing
    <2>4. CASE t \notin Touches(e)
      <3>1. override'[t] = override[t] /\ Label(t)' = Label(t)
        BY <1>1, <1>6, <1>7, <2>4 DEF Label, Touches, EditsTypeOK, EditCall, ChainOK
      <3>2. t # e.row
        BY <2>4 DEF Touches
      <3>3. Viewed(t)' /\ Assigned(t)'
        BY <1>4, <1>5, <1>6, <2>1, <2>3, <3>1, <3>2 DEF Kept, Viewed, Assigned
      <3>4. \A r \in g : r.t = t => r = Label(t)
        BY <1>3
      <3>5. Fetched(t)'
        BY <1>4, <1>5, <2>1, <3>1, <3>4 DEF Kept, Fetched
      <3> QED BY <2>2, <3>3, <3>5 DEF Kept
    <2>5. CASE t \in Touches(e) /\ e.step \in {"load", "category"}
      <3>1. override' = override /\ Label(t)' = Label(t)
        BY <1>6, <1>7, <2>5 DEF Label
      <3>2. Viewed(t)' /\ Assigned(t)'
        BY <1>4, <1>5, <1>6, <2>1, <2>3, <2>5, <3>1 DEF Kept, Viewed, Assigned
      <3>3. \A r \in g : r.t = t => r = Label(t)
        BY <1>3
      <3>4. Fetched(t)'
        BY <1>4, <1>5, <2>1, <3>1, <3>3 DEF Kept, Fetched
      <3> QED BY <2>2, <3>2, <3>4 DEF Kept
    <2>6. CASE t \in Touches(e) /\ e.step \in {"set", "unset", "rule"}
      <3>1. \A d \in edits : d # e => ~Meets(e, d)
        BY <2>1, <2>6 DEF Kept, Apart
      <3>2. x.phase = "done" /\ Ahead(x)
        BY <1>1, <1>4, <2>6 DEF Ahead, ChainOK, EditCall
      <3>3. t \in Touches(x)
        BY <1>4, <2>6 DEF Touches
      <3>4. Coming(t)'
        BY <1>5, <3>2, <3>3 DEF Coming, Ahead
      <3>5. Viewed(t)'
        BY <3>4 DEF Viewed
      <3>6. \A d \in edits : d # e => ~(d.step = "load" /\ d.phase = "done")
        BY <3>1 DEF Meets, Reloads, EditsTypeOK, EditCall, ChainOK
      <3>7. Fetched(t)'
        BY <1>4, <1>5, <2>6, <3>6 DEF Fetched
      <3>8. \A d \in edits : d # e => d.row # e.row
        BY <3>1 DEF Meets
      <3>9. e.row \in Rows
        BY <1>1 DEF EditCall
      <3>10. Assigned(t)'
        <4>1. CASE e.step = "set"
          <5>1. t = e.row /\ override'[t] = e.label
            BY <1>1, <1>7, <2>6, <3>9, <4>1 DEF Touches, EditsTypeOK, ChainOK, EditCall
          <5> QED BY <1>4, <1>5, <3>8, <5>1 DEF Assigned
        <4>2. CASE e.step # "set"
          <5>1. override'[t] = override[t] \/ t = e.row
            BY <1>7, <4>2 DEF EditsTypeOK
          <5>2. CASE t = e.row
            BY <1>4, <1>5, <3>8, <4>2, <5>2 DEF Assigned
          <5>3. CASE override'[t] = override[t]
            BY <1>4, <1>5, <2>1, <4>2, <5>3 DEF Kept, Assigned
          <5> QED BY <5>1, <5>2, <5>3
        <4> QED BY <4>1, <4>2
      <3> QED BY <2>2, <3>5, <3>7, <3>10 DEF Kept
    <2> QED BY <1>1, <2>4, <2>5, <2>6 DEF EditCall
  <1> QED BY <1>9, <1>11

\* The edit ends: what it leaves shown is what the server has.
LEMMA EndKeeps ==
    ASSUME EditsInv, NEW e \in edits, EditEnds(e)
    PROVE  EditsInv'
  <1> USE DEF EditsInv
  <1>1. /\ e \in EditCall /\ ChainOK(e) /\ edits' = edits \ {e}
        /\ UNCHANGED <<override, rule, edited>>
        /\ \/ e.phase = "done" /\ e.step \in {"set", "load"}
           \/ e.phase = "failed" /\ ~(e.step = "unset" /\ e.job = "rule")
        /\ adrift' = IF e.step = "rule" THEN adrift \cup Touches(e) ELSE adrift
    BY DEF EditsTypeOK, EditEnds, editServer
  <1> DEFINE named(r) == IF r.t = e.row THEN [r EXCEPT !.label = e.label, !.by = "explicit"] ELSE r
  <1>2. /\ e.step = "load" => view' = IF e.phase = "done" THEN e.got ELSE {}
        /\ e.step = "set" /\ e.phase = "done" => view' = {named(r) : r \in view}
        /\ e.step # "load" /\ ~(e.step = "set" /\ e.phase = "done") => view' = view
    BY <1>1 DEF EditEnds, Shows
  <1>3. e.step = "set" => \A r \in view : named(r) \in Item /\ named(r).t = r.t
    <2> SUFFICES ASSUME e.step = "set", NEW r \in view PROVE named(r) \in Item /\ named(r).t = r.t
      OBVIOUS
    <2>1. r \in Item /\ e.label \in Labels
      BY <1>1 DEF EditsTypeOK, ChainOK
    <2> QED BY <2>1 DEF Item
  <1>4. e.step = "set" => \A r \in view : r.t = e.row => named(r) = [t |-> r.t, label |-> e.label, by |-> "explicit"]
    <2> SUFFICES ASSUME e.step = "set", NEW r \in view, r.t = e.row
                 PROVE  named(r) = [t |-> r.t, label |-> e.label, by |-> "explicit"]
      OBVIOUS
    <2>1. r \in Item /\ named(r) = [r EXCEPT !.label = e.label, !.by = "explicit"]
      BY DEF EditsTypeOK
    <2>2. named(r).t = r.t /\ named(r).label = e.label /\ named(r).by = "explicit"
      BY <2>1 DEF Item
    <2> HIDE DEF named
    <2>3. named(r) \in Item
      BY <1>3
    <2> QED BY <2>2, <2>3 DEF Item
  <1>5. \A r \in view : r.t # e.row => named(r) = r
    OBVIOUS
  <1> HIDE DEF named
  <1>6. EditsTypeOK'
    <2>1. view' \subseteq Item
      BY <1>1, <1>2, <1>3 DEF EditsTypeOK, EditCall
    <2>2. openRow' \in Rows \cup {0}
      BY <2>1, OpenType DEF EditEnds
    <2> QED BY <1>1, <2>1, <2>2 DEF EditsTypeOK, ChainOK
  <1>7. ASSUME NEW t \in Rows \ adrift' PROVE Kept(t)'
    <2>1. Kept(t) /\ Label(t)' = Label(t)
      BY <1>1, <1>7 DEF Label
    <2>2. Apart(t)' /\ Fetched(t)' /\ Assigned(t)'
      BY <1>1, <2>1 DEF Kept, Apart, Fetched, Assigned
    <2>3. t \notin Touches(e) \/ ~Ahead(e) => (Coming(t) => Coming(t)')
      BY <1>1 DEF Coming, Ahead
    <2>4. CASE e.step = "set" /\ e.phase = "done"
      <3>1. Touches(e) = {e.row}
        BY <1>1, <2>4 DEF Touches, ChainOK
      <3>2. ASSUME NEW r \in view, named(r).t = t PROVE named(r) = Label(t)' \/ Coming(t)'
        <4>1. r.t = t
          BY <1>3, <2>4, <3>2
        <4>2. CASE t = e.row
          <5>1. override[t] = e.label /\ e.label # Unlabelled
            BY <1>1, <2>1, <2>4, <4>2 DEF Kept, Assigned, ChainOK
          <5>2. Label(t) = [t |-> t, label |-> e.label, by |-> "explicit"]
            BY <5>1 DEF Label
          <5> QED BY <1>4, <2>1, <2>4, <4>1, <4>2, <5>2
        <4>3. CASE t # e.row
          BY <1>5, <2>1, <2>3, <3>1, <4>1, <4>3 DEF Kept, Viewed
        <4> QED BY <4>2, <4>3
      <3>3. Viewed(t)'
        BY <1>2, <2>4, <3>2 DEF Viewed
      <3> QED BY <2>2, <3>3 DEF Kept
    <2>5. CASE e.step # "load" /\ ~(e.step = "set" /\ e.phase = "done")
      <3>1. t \notin Touches(e) \/ ~Ahead(e)
        BY <1>1, <1>7, <2>5 DEF Ahead, ChainOK
      <3>2. Viewed(t)'
        BY <1>2, <2>1, <2>3, <2>5, <3>1 DEF Kept, Viewed
      <3> QED BY <2>2, <3>2 DEF Kept
    <2>6. e.step = "load" => Viewed(t)'
      BY <1>1, <1>2, <2>1 DEF Kept, Viewed, Fetched
    <2> QED BY <2>2, <2>4, <2>5, <2>6 DEF Kept
  <1> QED BY <1>6, <1>7

LEMMA EditsNextInv == EditsInv /\ [EditsNext]_editVars => EditsInv'
  <1> SUFFICES ASSUME EditsInv, [EditsNext]_editVars PROVE EditsInv'
    OBVIOUS
  <1>1. view \subseteq Item /\ openRow \in Rows \cup {0}
    BY DEF EditsInv, EditsTypeOK
  <1>2. ASSUME NEW k, SelectCategory(k) PROVE EditsInv'
    BY <1>2, LookingKeeps DEF SelectCategory, editServer
  <1>3. ASSUME NEW n, TurnPage(n) PROVE EditsInv'
    BY <1>3, LookingKeeps DEF TurnPage, editServer
  <1>4. ASSUME NEW t, OpenDropdown(t) PROVE EditsInv'
    BY <1>4, LookingKeeps DEF OpenDropdown, editServer
  <1>5. CASE CloseDropdown
    BY <1>5, LookingKeeps DEF CloseDropdown, editServer
  <1>6. CASE UNCHANGED editVars
    BY <1>6, LookingKeeps DEF editVars, editServer
  <1>7. CASE Resets
    <2>1. StartsEdit("reset", "unset", Unlabelled) /\ view' = view
      BY <1>7 DEF Resets
    <2>2. openRow' \in Rows \cup {0}
      BY <1>1, <1>7, <2>1, OpenType DEF Resets
    <2>3. \A e : e.job = "reset" /\ e.step = "unset" /\ e.label = Unlabelled => ChainOK(e)
      BY DEF ChainOK
    <2> QED BY <1>1, <2>1, <2>2, <2>3, StartKeeps
  <1>8. ASSUME NEW k \in Labels, Selects(k) PROVE EditsInv'
    <2>1. StartsEdit("select", "set", k) /\ view' = view
      BY <1>8 DEF Selects
    <2>2. openRow' \in Rows \cup {0}
      BY <1>1, <1>8, <2>1, OpenType DEF Selects
    <2>3. \A e : e.job = "select" /\ e.step = "set" /\ e.label = k => ChainOK(e)
      BY DEF ChainOK
    <2> QED BY <1>1, <2>1, <2>2, <2>3, StartKeeps
  <1>9. ASSUME NEW k \in Labels, CreatesSubcategory(k) PROVE EditsInv'
    <2>1. StartsEdit("create", "category", k) /\ view' = view
      BY <1>9 DEF CreatesSubcategory
    <2>2. openRow' \in Rows \cup {0}
      BY <1>1, <1>9, <2>1, OpenType DEF CreatesSubcategory
    <2>3. \A e : e.job = "create" /\ e.step = "category" /\ e.label = k => ChainOK(e)
      BY DEF ChainOK
    <2> QED BY <1>1, <2>1, <2>2, <2>3, StartKeeps
  <1>10. ASSUME NEW k \in Labels, CreatesRule(k) PROVE EditsInv'
    <2> DEFINE ruled(r) == [r EXCEPT !.label = k, !.by = "rule"]
               hit(r) == r.t = openRow \/ (r.by # "explicit" /\ r.t \in Matched)
    <2>1. StartsEdit("rule", "rule", k) /\ view' = {IF hit(r) THEN ruled(r) ELSE r : r \in view}
      BY <1>10 DEF CreatesRule
    <2>2. \A r \in view : ruled(r) \in Item /\ ruled(r).t = r.t
      BY <1>1 DEF Item
    <2>3. \A r \in view : hit(r) => r.t \in Matched \cup {openRow}
      OBVIOUS
    <2> HIDE DEF ruled, hit
    <2>4. view' \subseteq Item
      BY <1>1, <2>1, <2>2
    <2>5. \A r \in view' : r \in view \/ r.t \in Matched \cup {openRow}
      BY <2>1, <2>2, <2>3
    <2>6. openRow' \in Rows \cup {0}
      BY <1>10, <2>4, OpenType DEF CreatesRule
    <2>7. \A e : e.job = "rule" /\ e.step = "rule" /\ e.label = k => ChainOK(e)
      BY DEF ChainOK
    <2> QED BY <2>1, <2>4, <2>5, <2>6, <2>7, StartKeeps
  <1> QED BY <1>2, <1>3, <1>4, <1>5, <1>6, <1>7, <1>8, <1>9, <1>10, ReachKeeps, BreakKeeps, GoOnKeeps,
             EndKeeps DEF EditsNext

(* When no edit is under way every row shown has the label the server gives  *)
(* it, for any rows, labels and number of edits, unless edits of it met, an  *)
(* answer was lost or a rule could not be saved: until an edit that touches  *)
(* the row ends, either the row is as the server has it or the edit is ahead *)
(* of the page and will bring it there.                                      *)
THEOREM EditedLabelsSettle == EditsSpec => []EditsSettle
  <1>1. EditsInv => EditsSettle
    BY DEF EditsInv, EditsTypeOK, Item, Kept, Viewed, Coming, EditsSettle
  <1> QED BY <1>1, EditsInitInv, EditsNextInv, PTL DEF EditsSpec

-----------------------------------------------------------------------------
(* Pages: counting the rows in their order.                                  *)
LEMMA LeastSubset ==
    ASSUME NEW F, IsFiniteSet(F), NEW C \in SUBSET SUBSET F, C # {}
    PROVE  \E G \in C : \A H \in C : H \subseteq G => H = G
  <1>1. FiniteSubsetsOf(F) = SUBSET F
    BY FS_FiniteSubsetsOfFinite
  <1>2. PICK G \in C : \A H \in C : ~(<<H, G>> \in StrictSubsetOrdering(F))
    BY <1>1, FS_StrictSubsetOrderingWellFounded, WFMin
  <1>3. ASSUME NEW H \in C, H \subseteq G, H # G PROVE FALSE
    <2>1. <<H, G>> \in (SUBSET F) \X (SUBSET F) /\ <<H, G>>[1] = H /\ <<H, G>>[2] = G
      OBVIOUS
    <2> QED BY <1>2, <1>3, <2>1 DEF StrictSubsetOrdering
  <1> QED BY <1>3

LEMMA LastRow ==
    ASSUME NEW F, IsFiniteSet(F), F # {}, \A r \in F : r.t \in Nat
    PROVE  \E r \in F : \A q \in F : q.t <= r.t
  <1> DEFINE Last(G) == \E r \in G : \A q \in G : q.t <= r.t
             C == {G \in SUBSET F : G # {} /\ ~Last(G)}
  <1> SUFFICES ASSUME C # {} PROVE FALSE
    OBVIOUS
  <1>1. C \in SUBSET SUBSET F /\ \A G \in SUBSET F : G # {} /\ ~Last(G) => G \in C
    OBVIOUS
  <1>2. \A G \in C : G \subseteq F /\ G # {} /\ ~Last(G)
    OBVIOUS
  <1> HIDE DEF C
  <1>3. PICK G \in C : \A H \in C : H \subseteq G => H = G
    BY <1>1, LeastSubset
  <1>4. G \subseteq F /\ ~Last(G)
    BY <1>2
  <1>5. PICK x \in G : TRUE
    BY <1>2
  <1>6. CASE G \ {x} = {}
    <2>1. x.t \in Nat /\ \A q \in G : q = x
      BY <1>4, <1>5, <1>6
    <2> QED BY <1>4, <1>5, <2>1
  <1>7. CASE G \ {x} # {}
    <2>1. Last(G \ {x})
      <3>1. G \ {x} \notin C
        BY <1>3, <1>5
      <3>2. G \ {x} \in SUBSET F
        BY <1>4
      <3> QED BY <1>1, <1>7, <3>1, <3>2
    <2>2. PICK r \in G \ {x} : \A q \in G \ {x} : q.t <= r.t
      BY <2>1
    <2>3. CASE x.t <= r.t
      <3>1. r \in G /\ \A q \in G : q.t <= r.t
        BY <2>2, <2>3
      <3> QED BY <1>4, <3>1
    <2>4. CASE r.t <= x.t
      <3>1. \A q \in G : q.t \in Nat
        BY <1>4
      <3>2. \A q \in G : q.t <= x.t
        BY <1>5, <2>2, <2>4, <3>1
      <3> QED BY <1>4, <1>5, <3>2
    <2>5. x.t \in Nat /\ r.t \in Nat
      BY <1>4, <1>5, <2>2
    <2> QED BY <2>3, <2>4, <2>5
  <1> QED BY <1>6, <1>7

\* Some row is the k-th.
LEMMA RowAtPlace ==
    ASSUME NEW F, IsFiniteSet(F), \A r \in F : r.t \in Nat, \A p, q \in F : p.t = q.t => p = q,
           NEW k \in 1 .. Cardinality(F)
    PROVE  \E r \in F : Cardinality({q \in F : q.t <= r.t}) = k
  <1> DEFINE Down(G) == \A q \in G, p \in F : p.t <= q.t => p \in G
             C == {G \in SUBSET F : Down(G) /\ Cardinality(G) >= k}
  <1>1. Cardinality(F) \in Nat /\ k \in Nat /\ k >= 1
    BY FS_CardinalityType
  <1>2. F \in C /\ C \in SUBSET SUBSET F
    BY <1>1
  <1>3. \A G \in C : G \subseteq F /\ Down(G) /\ Cardinality(G) >= k
    OBVIOUS
  <1>4. \A G \in SUBSET F : Down(G) /\ Cardinality(G) >= k => G \in C
    OBVIOUS
  <1> HIDE DEF C
  <1>5. PICK G \in C : \A H \in C : H \subseteq G => H = G
    BY <1>2, LeastSubset
  <1>6. IsFiniteSet(G) /\ Cardinality(G) \in Nat /\ Cardinality(G) >= k
    BY <1>3, FS_Subset, FS_CardinalityType
  <1>7. G \subseteq F /\ Down(G)
    BY <1>3
  <1>8. G # {}
    BY <1>1, <1>6, FS_EmptySet
  <1>9. PICK r \in G : \A q \in G : q.t <= r.t
    BY <1>6, <1>8, <1>7, LastRow
  <1>10. Down(G \ {r})
    <2> SUFFICES ASSUME NEW q \in G \ {r}, NEW p \in F, p.t <= q.t PROVE p \in G \ {r}
      OBVIOUS
    <2>1. p \in G
      BY <1>7
    <2>2. CASE p = r
      <3>1. q.t <= r.t /\ r.t <= q.t /\ q.t \in Nat /\ r.t \in Nat
        BY <1>9, <1>7, <2>2
      <3>2. q = r
        BY <1>9, <1>7, <3>1
      <3> QED BY <3>2
    <2> QED BY <2>1, <2>2
  <1>11. Cardinality(G \ {r}) = Cardinality(G) - 1
    BY <1>6, <1>9, FS_RemoveElement
  <1>12. G \ {r} \notin C
    BY <1>5, <1>9
  <1>13. ~(Cardinality(G) - 1 >= k)
    BY <1>10, <1>11, <1>12, <1>4, <1>7
  <1>14. Cardinality(G) = k
    BY <1>1, <1>6, <1>13
  <1>15. G = {q \in F : q.t <= r.t}
    BY <1>9, <1>7
  <1> QED BY <1>9, <1>14, <1>15, <1>7

LEMMA PageCount ==
    ASSUME NEW n \in Nat \ {0}
    PROVE  /\ Ceil(n) \in Nat \ {0}
           /\ \A p \in 1 .. Ceil(n) : \E k \in 1 .. n : Ceil(k) = p
  <1> DEFINE s == PageSize
  <1>0. s \in Nat \ {0}
    OBVIOUS
  <1> HIDE DEF s
  <1>1. ASSUME NEW a \in Nat PROVE a \div s \in Nat /\ s * (a \div s) <= a /\ a < s * (a \div s) + s
    BY <1>0
  <1>2. ASSUME NEW p \in Nat PROVE (s * p + s) \div s = p + 1
    BY <1>0
  <1>3. Ceil(n) = (n + s - 1) \div s /\ n + s - 1 \in Nat
    BY <1>0 DEF Ceil, s
  <1>4. Ceil(n) \in Nat \ {0}
    BY <1>0, <1>1, <1>3
  <1>5. ASSUME NEW p \in 1 .. Ceil(n) PROVE \E k \in 1 .. n : Ceil(k) = p
    <2> DEFINE k == s * (p - 1) + 1
    <2>0. PICK c \in Nat : c = Ceil(n)
      BY <1>4
    <2>1. p - 1 \in Nat /\ p <= c /\ p \in Nat
      BY <2>0
    <2>2. s * c <= n + s - 1
      BY <1>1, <1>3, <2>0
    <2>3. s * p <= s * c
      BY <1>0, <2>1
    <2>4. s * (p - 1) = s * p - s /\ s * (p - 1) \in Nat
      BY <1>0, <2>1
    <2>5. k \in 1 .. n
      BY <1>0, <2>1, <2>2, <2>3, <2>4
    <2>6. k + s - 1 = s * (p - 1) + s
      BY <1>0, <2>1, <2>4
    <2>7. (k + s - 1) \div s = p
      BY <1>2, <2>1, <2>6
    <2>8. Ceil(k) = p
      BY <2>7 DEF Ceil, s
    <2> QED BY <2>5, <2>8
  <1> QED BY <1>4, <1>5

OneRow(S) == \A p, q \in S : p.t = q.t => p = q
PageInv ==
    /\ EditsInv
    /\ OneRow(view) /\ \A e \in edits : OneRow(e.got)
    /\ currentPage \in 1 .. totalPages

LEMMA FiniteRows ==
    ASSUME NEW S \in SUBSET Item, OneRow(S)
    PROVE  IsFiniteSet(S)
  <1> DEFINE f == [r \in S |-> r.t]
  <1>1. f \in [S -> Rows]
    BY DEF Item
  <1>2. f \in Injection(S, Rows)
    BY <1>1 DEF OneRow, Injection, IsInjective
  <1> QED BY <1>2, FS_Injection

LEMMA PagesOf ==
    ASSUME NEW S \in SUBSET Item, OneRow(S), NEW F \in SUBSET S
    PROVE  (IF F = {} THEN 1 ELSE Ceil(Cardinality(F))) \in Nat \ {0}
  <1>1. IsFiniteSet(F)
    BY FiniteRows, FS_Subset
  <1>2. F # {} => Cardinality(F) \in Nat \ {0}
    BY <1>1, FS_CardinalityType, FS_EmptySet
  <1> QED BY <1>2, PageCount

LEMMA EffectsPage ==
    ASSUME NEW c, NEW p \in Nat \ {0}, NEW row, NEW s, Effects(c, p, row, s),
           view' \in SUBSET Item, OneRow(view')
    PROVE  currentPage' \in 1 .. totalPages'
  <1>1. Filtered' \subseteq view'
    BY DEF Filtered
  <1>2. totalPages' \in Nat \ {0}
    BY <1>1, PagesOf DEF totalPages
  <1> QED BY <1>2 DEF Effects

LEMMA NeverBlank == PageInv => PageNeverBlank
  <1> SUFFICES ASSUME PageInv, Filtered # {} PROVE PageItems # {}
    BY DEF PageNeverBlank
  <1>1. view \subseteq Item /\ OneRow(view) /\ currentPage \in 1 .. totalPages
    BY DEF PageInv, EditsInv, EditsTypeOK
  <1>2. IsFiniteSet(Filtered)
    BY <1>1, FiniteRows, FS_Subset DEF Filtered
  <1>3. Cardinality(Filtered) \in Nat \ {0}
    BY <1>2, FS_CardinalityType, FS_EmptySet
  <1>4. PICK k \in 1 .. Cardinality(Filtered) : Ceil(k) = currentPage
    BY <1>1, <1>3, PageCount DEF totalPages
  <1>5. /\ \A r \in Filtered : r.t \in Nat
        /\ \A p, q \in Filtered : p.t = q.t => p = q
    BY <1>1 DEF Filtered, Item, OneRow
  <1>6. PICK r \in Filtered : Cardinality({q \in Filtered : q.t <= r.t}) = k
    BY <1>2, <1>5, RowAtPlace
  <1> QED BY <1>4, <1>6 DEF PageItems, Place

LEMMA EditsInitPage == EditsInit => PageInv
  <1> SUFFICES ASSUME EditsInit PROVE PageInv
    OBVIOUS
  <1>1. EditsInv
    BY EditsInitInv
  <1>2. EditsTypeOK /\ view \in SUBSET Item
    BY <1>1 DEF EditsInv, EditsTypeOK
  <1>3. OneRow(view)
    BY <1>2, ListedType DEF EditsInit, OneRow
  <1>4. Filtered \subseteq view
    BY DEF Filtered
  <1>5. totalPages \in Nat \ {0}
    BY <1>2, <1>3, <1>4, PagesOf DEF totalPages
  <1> QED BY <1>1, <1>3, <1>5 DEF EditsInit, PageInv

LEMMA EditsNextPage == PageInv /\ [EditsNext]_editVars => PageInv'
  <1> SUFFICES ASSUME PageInv, [EditsNext]_editVars PROVE PageInv'
    OBVIOUS
  <1>1. EditsInv /\ EditsInv'
    BY EditsNextInv DEF PageInv
  <1>2. EditsTypeOK /\ view \in SUBSET Item /\ view' \in SUBSET Item
    BY <1>1 DEF EditsInv, EditsTypeOK
  <1>3. OneRow(view) /\ (\A e \in edits : OneRow(e.got)) /\ currentPage \in 1 .. totalPages
    BY DEF PageInv
  <1>4. Filtered \subseteq view
    BY DEF Filtered
  <1>5. totalPages \in Nat \ {0} /\ currentPage \in Nat \ {0}
    BY <1>2, <1>3, <1>4, PagesOf DEF totalPages
  <1>6. ASSUME NEW c, NEW p \in Nat \ {0}, NEW row, NEW s, Effects(c, p, row, s),
               OneRow(view'), \A e \in edits' : OneRow(e.got)
        PROVE  PageInv'
    BY <1>1, <1>2, <1>6, EffectsPage DEF PageInv
  <1>7. ASSUME UNCHANGED <<view, selectedCategory, currentPage>>, \A e \in edits' : OneRow(e.got)
        PROVE  PageInv'
    <2>1. totalPages' = totalPages
      BY <1>7 DEF totalPages, Filtered
    <2> QED BY <1>1, <1>3, <1>7, <2>1 DEF PageInv
  <1>8. ASSUME NEW c, NEW p \in Nat \ {0}, NEW row, NEW s, Effects(c, p, row, s), UNCHANGED <<view, edits>>
        PROVE  PageInv'
    BY <1>3, <1>6, <1>8
  <1>9. ASSUME NEW k, SelectCategory(k) PROVE PageInv'
    BY <1>5, <1>8, <1>9 DEF SelectCategory
  <1>10. ASSUME NEW n, TurnPage(n) PROVE PageInv'
    <2>1. n \in Nat \ {0}
      BY <1>5, <1>10 DEF TurnPage
    <2> QED BY <1>8, <1>10, <2>1 DEF TurnPage
  <1>11. ASSUME NEW t, OpenDropdown(t) PROVE PageInv'
    BY <1>5, <1>8, <1>11 DEF OpenDropdown
  <1>12. CASE CloseDropdown
    BY <1>5, <1>8, <1>12 DEF CloseDropdown
  <1>13. ASSUME NEW job, NEW step, NEW k, StartsEdit(job, step, k) PROVE \A e \in edits' : OneRow(e.got)
    <2> DEFINE x == [no |-> edited + 1, job |-> job, row |-> openRow, label |-> k, step |-> step,
                     phase |-> "sent", got |-> {}]
    <2>1. edits' = edits \cup {x} /\ x.got = {}
      BY <1>13 DEF StartsEdit
    <2> HIDE DEF x
    <2> QED BY <1>3, <2>1 DEF OneRow
  <1>14. ASSUME NEW job, NEW step, NEW k, StartsEdit(job, step, k), view' = view,
                Effects(selectedCategory, currentPage, openRow, Saving)
         PROVE  PageInv'
    BY <1>3, <1>5, <1>6, <1>13, <1>14
  <1>15. ASSUME NEW k, Selects(k) \/ CreatesSubcategory(k) PROVE PageInv'
    BY <1>14, <1>15 DEF Selects, CreatesSubcategory
  <1>16. CASE Resets
    BY <1>14, <1>16 DEF Resets
  <1>17. ASSUME NEW k \in Labels, CreatesRule(k) PROVE PageInv'
    <2> DEFINE ruled(r) == [r EXCEPT !.label = k, !.by = "rule"]
               shown(r) == IF r.t = openRow \/ (r.by # "explicit" /\ r.t \in Matched) THEN ruled(r) ELSE r
    <2>1. view' = {shown(r) : r \in view}
      BY <1>17 DEF CreatesRule
    <2>2. \A r \in view : ruled(r).t = r.t
      BY <1>2 DEF Item
    <2> HIDE DEF ruled
    <2>3. \A r \in view : shown(r).t = r.t
      BY <2>2
    <2> HIDE DEF shown
    <2>4. OneRow(view')
      BY <1>3, <2>1, <2>3 DEF OneRow
    <2> QED BY <1>5, <1>6, <1>13, <1>17, <2>4 DEF CreatesRule
  <1>18. ASSUME NEW e \in edits, EditReached(e) PROVE PageInv'
    <2>1. e \in EditCall /\ OneRow(e.got)
      BY <1>2, <1>3 DEF EditsTypeOK
    <2>2. OneRow(Listed)
      BY <1>2, ListedType DEF OneRow
    <2>3. PICK g : g = Listed
      OBVIOUS
    <2>4. PICK x : edits' = (edits \ {e}) \cup {x} /\ (x.got = e.got \/ x.got = g)
      <3>1. CASE e.step = "load"
        <4>1. [e EXCEPT !.phase = "done", !.got = g].got = g
          BY <2>1 DEF EditCall
        <4> QED BY <1>18, <2>3, <3>1, <4>1 DEF EditReached
      <3>2. CASE e.step # "load"
        <4>1. \A p : [e EXCEPT !.phase = p].got = e.got
          BY <2>1 DEF EditCall
        <4> QED BY <1>18, <3>2, <4>1 DEF EditReached, Phase
      <3> QED BY <3>1, <3>2
    <2>5. \A d \in edits' : OneRow(d.got)
      BY <1>3, <2>1, <2>2, <2>3, <2>4
    <2> QED BY <1>7, <1>18, <2>5 DEF EditReached
  <1>19. ASSUME NEW e \in edits, EditBreaks(e) \/ EditGoesOn(e) PROVE PageInv'
    <2>1. e \in EditCall /\ OneRow(e.got)
      BY <1>2, <1>3 DEF EditsTypeOK
    <2>2. [e EXCEPT !.phase = "failed"].got = e.got /\ \A s : [e EXCEPT !.step = s, !.phase = "sent"].got = e.got
      BY <2>1 DEF EditCall
    <2>3. \A d \in edits' : OneRow(d.got)
      BY <1>3, <1>19, <2>1, <2>2 DEF EditBreaks, EditGoesOn, Phase
    <2> QED BY <1>7, <1>19, <2>3 DEF EditBreaks, EditGoesOn
  <1>20. ASSUME NEW e \in edits, EditEnds(e) PROVE PageInv'
    <2> DEFINE named(r) == [r EXCEPT !.label = e.label, !.by = "explicit"]
               shown(r) == IF r.t = e.row THEN named(r) ELSE r
    <2>1. /\ e.step = "load" => view' = IF e.phase = "done" THEN e.got ELSE {}
          /\ e.step = "set" /\ e.phase = "done" => view' = {shown(r) : r \in view}
          /\ e.step # "load" /\ ~(e.step = "set" /\ e.phase = "done") => view' = view
      BY <1>20 DEF EditEnds, Shows
    <2>2. \A r \in view : named(r).t = r.t
      BY <1>2 DEF Item
    <2> HIDE DEF named
    <2>3. \A r \in view : shown(r).t = r.t
      BY <2>2
    <2> HIDE DEF shown
    <2>4. OneRow(view')
      BY <1>3, <2>1, <2>3 DEF OneRow
    <2>5. \A d \in edits' : OneRow(d.got)
      BY <1>3, <1>20 DEF EditEnds
    <2> QED BY <1>5, <1>6, <1>20, <2>4, <2>5 DEF EditEnds
  <1>21. CASE UNCHANGED editVars
    BY <1>3, <1>7, <1>21 DEF editVars
  <1> QED BY <1>9, <1>10, <1>11, <1>12, <1>15, <1>16, <1>17, <1>18, <1>19, <1>20, <1>21 DEF EditsNext

(* The table never shows an empty page while the filter has rows, for any    *)
(* number of rows and any size of a page: the page is one of those there     *)
(* are, and the rows, one for each transaction, are counted without a gap.   *)
THEOREM TableNeverBlank == EditsSpec => []PageNeverBlank
  BY EditsInitPage, EditsNextPage, NeverBlank, PTL DEF EditsSpec

-----------------------------------------------------------------------------
(***************************************************************************)
(* ManualAccounts and DisplayCurrency, for any accounts, amounts,          *)
(* currencies and rates: the rate held is the one that is meant, and the   *)
(* page lists what is kept.                                                *)
(***************************************************************************)
Account == [id : Ids, kind : ManualKinds, amount : Nat]
Form == [amount : Nat, currency : Currencies]
SaveCall == [no : Nat, op : {"page", "create", "update", "delete"}, kind : ManualKinds,
             id : Ids \cup {NoAccount}, amount : Nat, closes : BOOLEAN,
             step : {"create", "update", "delete", "load"}, phase : {"sent", "done", "failed"},
             got : SUBSET Account, alone : BOOLEAN]

ManualTypeOK ==
    /\ kept \subseteq Account /\ listed \subseteq Account
    /\ manualForm \in [ManualKinds -> Form]
    /\ editing \in [ManualKinds -> Ids \cup {NoAccount}]
    /\ conversion \in Nat /\ saves \subseteq SaveCall /\ saveCount \in Nat

\* The form asks for the rate of the currency it names, and holds that rate
\* when it has come; the form of a property, which names none, never asks.
FormOK ==
    /\ manualForm["property"].currency = "USD"
    /\ rateAsked # NoRequest => rateAsked = manualForm["investment"].currency
    /\ rateAsked = NoRequest /\ ~manualRateError =>
          conversion = UsdRate[manualForm["investment"].currency]
\* Requests that do not overtake each other are of the currency chosen.
ShownOK ==
    /\ ~overtaken => \A a \in rateRequests : a[2] = currency
    /\ ~rateLoading /\ ~rateError /\ ~overtaken => rateOf = currency
ManualInv == ManualTypeOK /\ FormOK /\ ShownOK

USE CurrencyAssumption, ManualAssumption

-----------------------------------------------------------------------------
LEMMA ManualInitInv == ManualInit /\ CurrencyInit => ManualInv
  <1> SUFFICES ASSUME ManualInit, CurrencyInit PROVE ManualInv
    OBVIOUS
  <1>1. EmptyForm \in Form /\ EmptyForm.currency = "USD"
    BY DEF EmptyForm, Form
  <1>2. kept \subseteq Account
    <2>1. \A i \in Ids, k \in ManualKinds, a \in Balances : [id |-> i, kind |-> k, amount |-> a] \in Account
      BY DEF Account
    <2>2. kept = {} \/ \E i \in Ids, k \in ManualKinds, a \in Balances :
                          kept = {[id |-> i, kind |-> k, amount |-> a]}
      BY DEF ManualInit
    <2> QED BY <2>1, <2>2
  <1>3. saves \subseteq SaveCall
    <2> DEFINE first == [no |-> MaxSaves, op |-> "page", kind |-> "property", id |-> NoAccount,
                         amount |-> 0, closes |-> FALSE, step |-> "load", phase |-> "sent",
                         got |-> {}, alone |-> TRUE]
    <2>1. "property" \in ManualKinds /\ {} \in SUBSET Account
      BY DEF ManualKinds
    <2>2. first \in SaveCall
      BY <2>1 DEF SaveCall
    <2>3. saves = {first}
      BY DEF ManualInit
    <2> QED BY <2>2, <2>3
  <1>4. ManualTypeOK
    BY <1>1, <1>2, <1>3 DEF ManualInit, ManualTypeOK
  <1>5. FormOK
    BY <1>1 DEF ManualInit, FormOK, ManualKinds, NoRequest
  <1>6. ShownOK
    BY DEF CurrencyInit, ShownOK
  <1> QED BY <1>4, <1>5, <1>6 DEF ManualInv

-----------------------------------------------------------------------------
(* The display currency.                                                     *)
LEMMA RefreshesShown ==
    ASSUME NEW c, ShownOK, Refreshes(c), currency' = c
    PROVE  ShownOK'
  <1>1. rateLoading' /\ rateRequests' = rateRequests \cup {<<refreshes, c>>} /\ <<refreshes, c>>[2] = c
    BY DEF Refreshes
  <1>2. ~overtaken' => \A a \in rateRequests : a[2] = c
    BY DEF Refreshes
  <1>3. ~overtaken' => \A a \in rateRequests' : a[2] = currency'
    BY <1>1, <1>2
  <1> QED BY <1>1, <1>3 DEF ShownOK

LEMMA CurrencyKeeps ==
    ASSUME ShownOK, CurrencyNext \/ UNCHANGED currencyVars
    PROVE  ShownOK'
  <1>1. ASSUME NEW c \in Currencies, setCurrency(c) PROVE ShownOK'
    BY <1>1, RefreshesShown DEF setCurrency
  <1>2. ASSUME RetryRate PROVE ShownOK'
    BY <1>2, RefreshesShown DEF RetryRate
  <1>3. ASSUME AccountsChanged PROVE ShownOK'
    <2>1. CASE Refreshes(currency)
      BY <1>3, <2>1, RefreshesShown DEF AccountsChanged
    <2>2. CASE UNCHANGED <<rateRequests, refreshes, overtaken, rateLoading, rateError>>
      BY <1>3, <2>2 DEF AccountsChanged, ShownOK
    <2> QED BY <1>3, <2>1, <2>2 DEF AccountsChanged
  <1>4. ASSUME NEW a \in rateRequests, RateArrives(a) PROVE ShownOK'
    <2>1. CASE overtaken'
      BY <2>1 DEF ShownOK
    <2>2. CASE ~overtaken'
      BY <1>4, <2>2 DEF RateArrives, ShownOK
    <2> QED BY <2>1, <2>2
  <1>5. ASSUME NEW a \in rateRequests, RateFails(a) PROVE ShownOK'
    BY <1>5 DEF RateFails, ShownOK
  <1>6. ASSUME UNCHANGED currencyVars PROVE ShownOK'
    BY <1>6 DEF currencyVars, ShownOK
  <1> QED BY <1>1, <1>2, <1>3, <1>4, <1>5, <1>6 DEF CurrencyNext

-----------------------------------------------------------------------------
(* The form.                                                                 *)
LEMMA SetsFormKeeps ==
    ASSUME ManualTypeOK, FormOK, NEW k \in ManualKinds, NEW f \in Form, SetsForm(k, f),
           k = "property" => f.currency = "USD",
           \/ conversion' = conversion
           \/ k = "investment" /\ f.currency = "USD" /\ conversion' = 1
    PROVE  FormOK' /\ manualForm' \in [ManualKinds -> Form] /\ conversion' \in Nat
  <1>1. manualForm' \in [ManualKinds -> Form] /\ conversion' \in Nat
    BY DEF SetsForm, ManualTypeOK
  <1>2. manualForm'[k] = f /\ \A j \in ManualKinds \ {k} : manualForm'[j] = manualForm[j]
    BY DEF SetsForm, ManualTypeOK
  <1>3. CASE k = "property"
    <2>1. f.currency = manualForm[k].currency /\ conversion' = conversion
      BY <1>3 DEF FormOK
    <2>2. UNCHANGED <<rateAsked, manualRateError>>
      BY <2>1 DEF SetsForm
    <2>3. "investment" \in ManualKinds \ {k}
      BY <1>3 DEF ManualKinds
    <2> QED BY <1>1, <1>2, <1>3, <2>1, <2>2, <2>3 DEF FormOK
  <1>4. CASE k = "investment"
    <2>1. "property" \in ManualKinds \ {k}
      BY <1>4 DEF ManualKinds
    <2>2. CASE f.currency = manualForm[k].currency
      <3>1. UNCHANGED <<rateAsked, manualRateError>>
        BY <2>2 DEF SetsForm
      <3> QED BY <1>1, <1>2, <1>4, <2>1, <2>2, <3>1 DEF FormOK
    <2>3. CASE f.currency # manualForm[k].currency
      <3>1. rateAsked' = f.currency /\ rateAsked' # NoRequest
        BY <2>3 DEF SetsForm, Form, NoRequest
      <3> QED BY <1>1, <1>2, <1>4, <2>1, <3>1 DEF FormOK
    <2> QED BY <2>2, <2>3
  <1> QED BY <1>1, <1>3, <1>4 DEF ManualKinds

LEMMA ResetKeeps ==
    ASSUME ManualTypeOK, FormOK, NEW k \in ManualKinds, resetManualForm(k)
    PROVE  /\ FormOK' /\ manualForm' \in [ManualKinds -> Form] /\ conversion' \in Nat
           /\ editing' \in [ManualKinds -> Ids \cup {NoAccount}]
  <1>1. EmptyForm \in Form /\ EmptyForm.currency = "USD"
    BY DEF EmptyForm, Form
  <1>2. SetsForm(k, EmptyForm) /\ conversion' = IF k = "investment" THEN 1 ELSE conversion
    BY DEF resetManualForm
  <1>3. editing' \in [ManualKinds -> Ids \cup {NoAccount}]
    BY DEF resetManualForm, ManualTypeOK
  <1> QED BY <1>1, <1>2, <1>3, SetsFormKeeps
-----------------------------------------------------------------------------
(* The calls.                                                                *)
LEMMA CallForms ==
    ASSUME NEW e \in SaveCall
    PROVE  /\ \A p \in {"sent", "done", "failed"} : [e EXCEPT !.phase = p] \in SaveCall
           /\ [e EXCEPT !.alone = FALSE] \in SaveCall
           /\ [e EXCEPT !.step = "load", !.phase = "sent"] \in SaveCall
           /\ \A g \in SUBSET Account, b \in BOOLEAN :
                 [e EXCEPT !.phase = "done", !.got = g, !.alone = b] \in SaveCall
  BY DEF SaveCall

LEMMA CrossedTypes == \A E \in SUBSET SaveCall : Crossed(E) \subseteq SaveCall
  BY CallForms DEF Crossed

LEMMA StartsTypes ==
    ASSUME ManualTypeOK, NEW op \in {"create", "update", "delete"}, NEW k \in ManualKinds,
           NEW id \in Ids \cup {NoAccount}, NEW amount \in Nat,
           StartsCall(Save(op, k, id, amount))
    PROVE  saves' \subseteq SaveCall /\ saveCount' \in Nat
  <1>1. (op # "delete" \/ editing[k] = id) \in BOOLEAN /\ saveCount \in Nat
    BY DEF ManualTypeOK
  <1>2. Save(op, k, id, amount) \in SaveCall
    BY <1>1 DEF Save, SaveCall
  <1> QED BY <1>1, <1>2 DEF StartsCall, ManualTypeOK

LEMMA ReachedTypes ==
    ASSUME ManualTypeOK, NEW e \in saves, SaveReached(e)
    PROVE  kept' \subseteq Account /\ saves' \subseteq SaveCall
  <1>1. e \in SaveCall /\ kept \subseteq Account /\ saves \subseteq SaveCall
    BY DEF ManualTypeOK
  <1>2. CASE e.step = "load"
    <2>1. [e EXCEPT !.phase = "done", !.got = kept, !.alone = Read = {}] \in SaveCall
      BY <1>1, CallForms
    <2>2. Crossed(Read) \subseteq SaveCall
      BY <1>1, CrossedTypes DEF Read
    <2> QED BY <1>1, <1>2, <2>1, <2>2 DEF SaveReached
  <1>3. [e EXCEPT !.phase = "done"] \in SaveCall /\ [e EXCEPT !.phase = "failed"] \in SaveCall
    BY <1>1, CallForms
  <1>4. CASE e.step = "create"
    <2>1. PICK id \in Ids :
             /\ kept' = kept \cup {[id |-> id, kind |-> e.kind, amount |-> e.amount]}
             /\ Turns(e, [e EXCEPT !.phase = "done"])
      BY <1>4 DEF SaveReached
    <2>2. [id |-> id, kind |-> e.kind, amount |-> e.amount] \in Account
      BY <1>1 DEF SaveCall, Account
    <2> QED BY <1>1, <1>3, <2>1, <2>2 DEF Turns
  <1>5. CASE e.step \notin {"load", "create"}
    <2> DEFINE mine == {a \in kept : a.id = e.id}
               amended == {[a EXCEPT !.amount = e.amount] : a \in mine}
    <2>1. /\ kept' = (kept \ mine) \cup (IF e.step = "update" THEN amended ELSE {})
          /\ Turns(e, [e EXCEPT !.phase = IF mine = {} THEN "failed" ELSE "done"])
      BY <1>5 DEF SaveReached
    <2>2. \A a \in Account : [a EXCEPT !.amount = e.amount] \in Account
      BY <1>1 DEF SaveCall, Account
    <2>3. amended \subseteq Account
      BY <1>1, <2>2
    <2>4. [e EXCEPT !.phase = IF mine = {} THEN "failed" ELSE "done"] \in SaveCall
      BY <1>1, CallForms
    <2> HIDE DEF mine, amended
    <2> QED BY <1>1, <2>1, <2>3, <2>4 DEF Turns
  <1> QED BY <1>2, <1>4, <1>5

LEMMA ManualNextInv == ManualInv /\ [ManualNext]_manualAccountsVars => ManualInv'
  <1> SUFFICES ASSUME ManualInv, [ManualNext]_manualAccountsVars PROVE ManualInv'
    OBVIOUS
  <1> USE DEF ManualInv
  <1>1. \A e \in saves : e \in SaveCall /\ e.kind \in ManualKinds /\ e.got \subseteq Account
    BY DEF ManualTypeOK, SaveCall
  <1>2. \A k \in ManualKinds : /\ manualForm[k] \in Form /\ manualForm[k].amount \in Nat
                               /\ manualForm[k].currency \in Currencies
                               /\ editing[k] \in Ids \cup {NoAccount}
    BY DEF ManualTypeOK, Form
  <1>3. "investment" \in ManualKinds
    BY DEF ManualKinds
  <1>4. \A a \in listed : a.id \in Ids /\ a.kind \in ManualKinds /\ a.amount \in Nat
    BY DEF ManualTypeOK, Account
  \* The steps of the form.
  <1>5. ASSUME NEW k \in ManualKinds, NEW f \in Form, SetsForm(k, f), UNCHANGED currencyVars,
               k = "property" => f.currency = "USD",
               UNCHANGED <<kept, listed, saves, saveCount>>,
               editing' \in [ManualKinds -> Ids \cup {NoAccount}],
               conversion' = conversion \/ (k = "investment" /\ f.currency = "USD" /\ conversion' = 1)
        PROVE  ManualInv'
    <2>1. FormOK' /\ manualForm' \in [ManualKinds -> Form] /\ conversion' \in Nat
      BY <1>5, SetsFormKeeps
    <2> QED BY <1>5, <2>1, CurrencyKeeps DEF ManualTypeOK
  <1>6. ASSUME NEW k \in ManualKinds, NEW a \in Balances, TypesAmount(k, a) PROVE ManualInv'
    <2> DEFINE f == [manualForm[k] EXCEPT !.amount = a]
    <2>1. f \in Form /\ f.currency = manualForm[k].currency
      BY <1>2 DEF Form
    <2>2. k = "property" => f.currency = "USD"
      BY <2>1 DEF FormOK
    <2>3. editing' \in [ManualKinds -> Ids \cup {NoAccount}] /\ SetsForm(k, f)
      BY <1>6 DEF TypesAmount, ManualTypeOK
    <2> HIDE DEF f
    <2> QED BY <1>5, <1>6, <2>1, <2>2, <2>3 DEF TypesAmount
  <1>7. ASSUME NEW c \in Currencies, ChoosesCurrency(c) PROVE ManualInv'
    <2> DEFINE f == [manualForm["investment"] EXCEPT !.currency = c]
    <2>1. f \in Form
      BY <1>2, <1>3 DEF Form
    <2>2. editing' \in [ManualKinds -> Ids \cup {NoAccount}] /\ SetsForm("investment", f)
      BY <1>7 DEF ChoosesCurrency, ManualTypeOK
    <2> HIDE DEF f
    <2> QED BY <1>3, <1>5, <1>7, <2>1, <2>2 DEF ChoosesCurrency
  <1>8. ASSUME NEW a \in listed, editManual(a) PROVE ManualInv'
    <2>1. [amount |-> a.amount, currency |-> "USD"] \in Form
      BY <1>4 DEF Form
    <2>2. editing' \in [ManualKinds -> Ids \cup {NoAccount}]
      BY <1>4, <1>8 DEF editManual, ManualTypeOK
    <2> QED BY <1>4, <1>5, <1>8, <2>1, <2>2 DEF editManual
  <1>9. ASSUME NEW k \in ManualKinds, CancelEdit(k) PROVE ManualInv'
    BY <1>9, ResetKeeps, CurrencyKeeps DEF CancelEdit, ManualTypeOK
  <1>10. ASSUME FormRateArrives PROVE ManualInv'
    <2>1. conversion' \in Nat
      BY <1>2, <1>3, <1>10 DEF FormRateArrives, FormOK
    <2> QED BY <1>10, <2>1, CurrencyKeeps DEF FormRateArrives, ManualTypeOK, FormOK, NoRequest
  <1>11. ASSUME FormRateFails PROVE ManualInv'
    BY <1>11, CurrencyKeeps DEF FormRateFails, ManualTypeOK, FormOK
  \* The steps of the calls.
  <1>12. ASSUME kept' \subseteq Account, listed' \subseteq Account, saves' \subseteq SaveCall,
                saveCount' \in Nat, UNCHANGED formVars, CurrencyNext \/ UNCHANGED currencyVars
         PROVE  ManualInv'
    BY <1>12, CurrencyKeeps DEF formVars, ManualTypeOK, FormOK
  <1>13. ASSUME NEW k \in ManualKinds, saveManual(k) PROVE ManualInv'
    <2> DEFINE amount == manualForm[k].amount * (IF k = "investment" THEN conversion ELSE 1)
    <2>1. amount \in Nat
      BY <1>2 DEF ManualTypeOK
    <2>2. StartsCall(Save(IF editing[k] = NoAccount THEN "create" ELSE "update", k, editing[k], amount))
      BY <1>13 DEF saveManual
    <2> HIDE DEF amount
    <2>3. saves' \subseteq SaveCall /\ saveCount' \in Nat
      BY <1>2, <2>1, <2>2, StartsTypes
    <2> QED BY <1>12, <1>13, <2>3 DEF saveManual, ManualTypeOK
  <1>14. ASSUME NEW a \in listed, deleteManual(a) PROVE ManualInv'
    <2>1. saves' \subseteq SaveCall /\ saveCount' \in Nat
      BY <1>4, <1>14, StartsTypes DEF deleteManual
    <2> QED BY <1>12, <1>14, <2>1 DEF deleteManual, ManualTypeOK
  <1>15. ASSUME NEW e \in saves, SaveReached(e) PROVE ManualInv'
    BY <1>12, <1>15, ReachedTypes DEF SaveReached, ManualTypeOK
  <1>16. ASSUME NEW e \in saves, SaveBreaks(e) PROVE ManualInv'
    <2>1. [e EXCEPT !.phase = "failed"] \in SaveCall
      BY <1>1, CallForms
    <2>2. Crossed(Read \ {e}) \subseteq SaveCall /\ Read \ {e} \subseteq SaveCall
      BY <1>1, CrossedTypes DEF Read
    <2>3. saves' \subseteq SaveCall
      BY <1>1, <1>16, <2>1, <2>2 DEF SaveBreaks
    <2> QED BY <1>12, <1>16, <2>3 DEF SaveBreaks, ManualTypeOK
  <1>17. ASSUME NEW e \in saves, Saved(e) PROVE ManualInv'
    <2>1. [e EXCEPT !.step = "load", !.phase = "sent"] \in SaveCall
      BY <1>1, CallForms
    <2>2. saves' \subseteq SaveCall
      BY <1>1, <1>17, <2>1 DEF Saved, Turns
    <2>3. CASE UNCHANGED formVars
      BY <1>12, <1>17, <2>2, <2>3 DEF Saved, ManualTypeOK
    <2>4. CASE resetManualForm(e.kind)
      BY <1>1, <1>17, <2>2, <2>4, ResetKeeps, CurrencyKeeps DEF Saved, ManualTypeOK
    <2> QED BY <1>17, <2>3, <2>4 DEF Saved
  <1>18. ASSUME NEW e \in saves, SaveFails(e) PROVE ManualInv'
    BY <1>12, <1>18 DEF SaveFails, ManualTypeOK
  <1>19. ASSUME NEW e \in saves, ListsShown(e) PROVE ManualInv'
    <2>1. saves' \subseteq SaveCall /\ listed' \subseteq Account
          /\ (CurrencyNext \/ UNCHANGED currencyVars)
      BY <1>1, <1>19 DEF ListsShown, CurrencyNext
    <2> QED BY <1>12, <1>19, <2>1 DEF ListsShown, ManualTypeOK
  <1>20. CASE (CurrencyNext \/ UNCHANGED currencyVars) /\ UNCHANGED manualVars
    BY <1>12, <1>20 DEF manualVars, formVars, ManualTypeOK
  <1> QED BY <1>6, <1>7, <1>8, <1>9, <1>10, <1>11, <1>13, <1>14, <1>15, <1>16, <1>17, <1>18, <1>19,
             <1>20 DEF ManualNext, manualAccountsVars

-----------------------------------------------------------------------------
(* Whenever the Add button may be pressed the rate of the form is that of    *)
(* the currency it names, whatever was chosen, edited, reset or answered     *)
(* before; and the display rate is that of the currency chosen unless two    *)
(* requests overtook each other.                                             *)
THEOREM RatesAreMeant == ManualSpec => []RatesMatch
  <1>1. ManualInv => RatesMatch
    BY DEF ManualInv, FormOK, ShownOK, RatesMatch
  <1> QED BY <1>1, ManualInitInv, ManualNextInv, PTL DEF ManualSpec

-----------------------------------------------------------------------------
(* The lists.                                                                *)
\* Saves and deletions that have yet to show what the server did.
Unread == {e \in saves : (e.step = "load" /\ e.phase = "sent") \/ (e.step # "load" /\ e.phase = "done")}
\* A list that no other read crossed is what is kept, or another is to come.
ReadsOK == \A e \in Read : e.alone => e.got = kept \/ Unread # {}
\* So is the list shown, unless it is known to be in doubt.
ListedOK == ~listUnsure => \/ listed = kept
                           \/ \E e \in saves : e.step = "load" \/ e.phase = "done"
ListsInv == ManualInv /\ ReadsOK /\ ListedOK

LEMMA CallChanges ==
    ASSUME NEW e \in SaveCall
    PROVE  /\ \A p : LET x == [e EXCEPT !.phase = p]
                     IN x.step = e.step /\ x.phase = p /\ x.got = e.got /\ x.alone = e.alone
           /\ LET x == [e EXCEPT !.alone = FALSE]
              IN x.step = e.step /\ x.phase = e.phase /\ x.alone = FALSE
           /\ LET x == [e EXCEPT !.step = "load", !.phase = "sent"]
              IN x.step = "load" /\ x.phase = "sent"
           /\ \A g, b : LET x == [e EXCEPT !.phase = "done", !.got = g, !.alone = b]
                        IN x.step = e.step /\ x.phase = "done" /\ x.got = g /\ x.alone = b
  BY DEF SaveCall

LEMMA CrossedCalls ==
    ASSUME NEW E \in SUBSET SaveCall, NEW x \in Crossed(E)
    PROVE  ~x.alone /\ \E e \in E : x.step = e.step /\ x.phase = e.phase
  <1>1. PICK e \in E : x = [e EXCEPT !.alone = FALSE]
    BY DEF Crossed
  <1>2. e \in SaveCall
    OBVIOUS
  <1>3. x.step = e.step /\ x.phase = e.phase /\ x.alone = FALSE
    BY <1>1, <1>2 DEF SaveCall
  <1> QED BY <1>3

\* A call that goes on, while no other is crossed.
LEMMA OneTurns ==
    ASSUME ListsInv, NEW e \in saves, NEW x, saves' = (saves \ {e}) \cup {x},
           x.step = "load" => x.phase = "sent", e.step # "load",
           e.phase = "done" => x.step = "load",
           \/ kept' = kept
           \/ x.step # "load" /\ x.phase = "done",
           listed' = listed, listUnsure => listUnsure'
    PROVE  ReadsOK' /\ ListedOK'
  <1> USE DEF ListsInv
  <1>1. Read' = Read
    BY DEF Read
  <1>2. Unread # {} => Unread' # {}
    BY DEF Unread
  <1>3. kept' = kept \/ x \in Unread'
    BY DEF Unread
  <1>4. ReadsOK'
    BY <1>1, <1>2, <1>3 DEF ReadsOK
  <1>5. ListedOK'
    BY <1>3 DEF ListedOK, Unread
  <1> QED BY <1>4, <1>5

\* A call that goes, and leaves what is kept.
LEMMA OneGoes ==
    ASSUME ListsInv, NEW e \in saves, saves' = saves \ {e}, e \notin Unread, kept' = kept
    PROVE  ReadsOK'
  BY DEF ListsInv, ReadsOK, Read, Unread

LEMMA NextLists == ListsInv /\ [ManualNext]_manualAccountsVars => ReadsOK' /\ ListedOK'
  <1> SUFFICES ASSUME ListsInv, [ManualNext]_manualAccountsVars PROVE ReadsOK' /\ ListedOK'
    OBVIOUS
  <1> USE DEF ListsInv
  <1>1. \A e \in saves : e \in SaveCall /\ e.phase \in {"sent", "done", "failed"}
    BY DEF ManualInv, ManualTypeOK, SaveCall
  <1>2. Read \subseteq SaveCall
    BY <1>1 DEF Read
  <1>3. \A E \in SUBSET SaveCall : \A x \in Crossed(E) : ~x.alone
    BY CrossedCalls
  <1>4. \A E \in SUBSET Read : \A x \in Crossed(E) : x.step = "load" /\ x.phase = "done"
    BY <1>2, CrossedCalls DEF Read
  <1>5. ASSUME UNCHANGED <<kept, listed, saves, listUnsure>> PROVE ReadsOK' /\ ListedOK'
    BY <1>5 DEF ReadsOK, ListedOK, Read, Unread
  <1>6. CASE \/ \E k \in ManualKinds : CancelEdit(k) \/ \E a \in Balances : TypesAmount(k, a)
             \/ \E c \in Currencies : ChoosesCurrency(c)
             \/ \E a \in listed : editManual(a)
             \/ FormRateArrives \/ FormRateFails \/ UNCHANGED manualVars
    BY <1>5, <1>6 DEF CancelEdit, TypesAmount, ChoosesCurrency, editManual, FormRateArrives,
                      FormRateFails, manualVars
  <1>7. ASSUME NEW op \in {"create", "update", "delete"}, NEW k, NEW id, NEW amount,
               StartsCall(Save(op, k, id, amount)), UNCHANGED <<kept, listed, listUnsure>>
        PROVE  ReadsOK' /\ ListedOK'
    <2>0. PICK e : e = Save(op, k, id, amount)
      OBVIOUS
    <2>1. saves' = saves \cup {e} /\ e.step # "load" /\ e.phase = "sent"
      BY <1>7, <2>0 DEF StartsCall, Save
    <2>2. Read' = Read /\ Unread' = Unread
      BY <2>1 DEF Read, Unread
    <2> QED BY <1>7, <2>1, <2>2 DEF ReadsOK, ListedOK
  <1>8. ASSUME NEW k \in ManualKinds, saveManual(k) PROVE ReadsOK' /\ ListedOK'
    BY <1>7, <1>8 DEF saveManual
  <1>9. ASSUME NEW a \in listed, deleteManual(a) PROVE ReadsOK' /\ ListedOK'
    BY <1>7, <1>9 DEF deleteManual
  <1>10. ASSUME NEW e \in saves, SaveReached(e) PROVE ReadsOK' /\ ListedOK'
    <2>1. e.phase = "sent" /\ UNCHANGED <<listed, listUnsure>>
      BY <1>10 DEF SaveReached
    <2>2. CASE e.step = "load"
      <3>0. PICK g, b : g = kept /\ b = (Read = {})
        OBVIOUS
      <3> DEFINE x == [e EXCEPT !.phase = "done", !.got = g, !.alone = b]
      <3>1. saves' = (saves \ (Read \cup {e})) \cup Crossed(Read) \cup {x} /\ kept' = kept
        BY <1>10, <2>2, <3>0 DEF SaveReached
      <3>2. x.step = "load" /\ x.phase = "done" /\ x.got = g
        BY <1>1, <2>2, CallChanges
      <3> HIDE DEF x
      <3>3. \A d \in Read' : d = x \/ ~d.alone
        BY <1>2, <1>3, <3>1 DEF Read
      <3> QED BY <3>0, <3>1, <3>2, <3>3 DEF ReadsOK, ListedOK
    <2>3. CASE e.step = "create"
      <3> DEFINE x == [e EXCEPT !.phase = "done"]
      <3>1. saves' = (saves \ {e}) \cup {x}
        BY <1>10, <2>3 DEF SaveReached, Turns
      <3>2. x.step = e.step /\ x.phase = "done"
        BY <1>1, CallChanges
      <3> HIDE DEF x
      <3> QED BY <2>1, <2>3, <3>1, <3>2, OneTurns
    <2>4. CASE e.step \notin {"load", "create"}
      <3> DEFINE mine == {a \in kept : a.id = e.id}
                 amended == {[a EXCEPT !.amount = e.amount] : a \in mine}
      <3>1. PICK p : p = IF mine = {} THEN "failed" ELSE "done"
        OBVIOUS
      <3> DEFINE x == [e EXCEPT !.phase = p]
      <3>2. /\ kept' = (kept \ mine) \cup (IF e.step = "update" THEN amended ELSE {})
            /\ saves' = (saves \ {e}) \cup {x}
        BY <1>10, <2>4, <3>1 DEF SaveReached, Turns
      <3>3. mine = {} => kept' = kept
        BY <3>2
      <3>4. x.step = e.step /\ x.phase = p
        BY <1>1, CallChanges
      <3> HIDE DEF x, mine
      <3> QED BY <2>1, <2>4, <3>1, <3>2, <3>3, <3>4, OneTurns
    <2> QED BY <2>2, <2>3, <2>4
  <1>11. ASSUME NEW e \in saves, SaveBreaks(e) PROVE ReadsOK' /\ ListedOK'
    <2> DEFINE x == [e EXCEPT !.phase = "failed"]
               lost == e.phase = "done" /\ e.step # "load"
    <2>1. /\ saves' = (saves \ (Read \cup {e})) \cup
                      (IF lost \/ e.step = "load" THEN Crossed(Read \ {e}) ELSE Read \ {e}) \cup {x}
          /\ listUnsure' = (listUnsure \/ lost) /\ UNCHANGED <<kept, listed>>
          /\ e.phase \in {"sent", "done"}
      BY <1>11 DEF SaveBreaks
    <2>2. x.step = e.step /\ x.phase = "failed"
      BY <1>1, CallChanges
    <2> HIDE DEF x
    <2>3. CASE lost \/ e.step = "load"
      <3>1. saves' = (saves \ (Read \cup {e})) \cup Crossed(Read \ {e}) \cup {x}
        BY <2>1, <2>3
      <3>2. \A d \in Read' : ~d.alone
        BY <1>2, <1>3, <2>2, <3>1 DEF Read
      <3>3. e.step = "load" => x \in saves' /\ x.step = "load"
        BY <2>2, <3>1
      <3> QED BY <2>1, <2>3, <3>2, <3>3 DEF ReadsOK, ListedOK
    <2>4. CASE ~lost /\ e.step # "load"
      <3>1. e.phase = "sent" /\ e \notin Read
        BY <2>1, <2>4 DEF Read
      <3>2. saves' = (saves \ (Read \cup {e})) \cup (Read \ {e}) \cup {x}
        BY <2>1, <2>4
      <3>3. saves' = (saves \ {e}) \cup {x}
        BY <3>1, <3>2 DEF Read
      <3>4. listUnsure' => listUnsure
        BY <2>1, <2>4
      <3>5. listUnsure => listUnsure'
        BY <2>1, <2>4
      <3> QED BY <2>1, <2>2, <2>4, <3>1, <3>3, <3>4, <3>5, OneTurns
    <2> QED BY <2>3, <2>4
  <1>12. ASSUME NEW e \in saves, Saved(e) PROVE ReadsOK' /\ ListedOK'
    <2> DEFINE x == [e EXCEPT !.step = "load", !.phase = "sent"]
    <2>1. saves' = (saves \ {e}) \cup {x} /\ e.step # "load" /\ UNCHANGED <<kept, listed, listUnsure>>
      BY <1>12 DEF Saved, Turns
    <2>2. x.step = "load" /\ x.phase = "sent"
      BY <1>1, CallChanges
    <2> HIDE DEF x
    <2> QED BY <2>1, <2>2, OneTurns
  <1>13. ASSUME NEW e \in saves, SaveFails(e) PROVE ReadsOK' /\ ListedOK'
    <2>1. /\ e.step # "load" /\ e.phase = "failed" /\ saves' = saves \ {e}
          /\ UNCHANGED <<kept, listed, listUnsure>>
      BY <1>13 DEF SaveFails
    <2>2. e \notin Unread
      BY <2>1 DEF Unread
    <2> QED BY <2>1, <2>2, OneGoes DEF ListedOK
  <1>14. ASSUME NEW e \in saves, ListsShown(e) PROVE ReadsOK' /\ ListedOK'
    <2>1. /\ e.step = "load" /\ e.phase \in {"done", "failed"} /\ saves' = saves \ {e}
          /\ kept' = kept /\ listed' = e.got /\ listUnsure' = ~(e.phase = "done" /\ e.alone)
      BY <1>14 DEF ListsShown
    <2>2. e \notin Unread
      BY <2>1 DEF Unread
    <2>3. ~listUnsure' => e \in Read /\ (e.got = kept \/ Unread # {})
      BY <2>1 DEF Read, ReadsOK
    <2>4. Unread # {} => \E d \in saves' : d.step = "load" \/ d.phase = "done"
      BY <2>1, <2>2 DEF Unread
    <2> QED BY <2>1, <2>2, <2>3, <2>4, OneGoes DEF ListedOK
  <1> QED BY <1>6, <1>8, <1>9, <1>10, <1>11, <1>12, <1>13, <1>14 DEF ManualNext, manualAccountsVars

(* When nothing is under way both lists are what the server keeps, for any   *)
(* number of saves, deletions, failures and reads that overlap, unless the   *)
(* last read failed or was crossed by another, or the answer of a change was *)
(* lost: a change that is done has a read of its own to come, and that read  *)
(* crosses every list that was read before it.                               *)
THEOREM ManualListsSettle == ManualSpec => []ListsSettle
  <1>1. ManualInit /\ CurrencyInit => ListsInv
    <2>1. ManualInit => ReadsOK /\ ListedOK
      BY DEF ManualInit, ReadsOK, ListedOK, Read
    <2> QED BY <2>1, ManualInitInv DEF ListsInv
  <1>2. ListsInv /\ [ManualNext]_manualAccountsVars => ListsInv'
    BY NextLists, ManualNextInv DEF ListsInv
  <1>3. ListsInv => ListsSettle
    BY DEF ListsInv, ListedOK, ListsSettle
  <1> QED BY <1>1, <1>2, <1>3, PTL DEF ManualSpec
=============================================================================
