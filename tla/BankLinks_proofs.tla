--------------------------- MODULE BankLinks_proofs --------------------------
(***************************************************************************)
(* Proofs about BankLinks as Plaid's and Teller's pages use it, for any    *)
(* banks and bounds: no flag of the page outlives the chain of calls that  *)
(* it stands for, the list settles to the server's, there is one retry     *)
(* timer at most, which the ref knows, and a login is stored under the     *)
(* bank that asked for it.                                                 *)
(***************************************************************************)
EXTENDS PlaidLinks, TellerLinks, TLAPS

\* A chain has these fields, whatever they hold.
IsChain(e) ==
    e \in [no : Nat, job : {e.job}, step : {e.step}, phase : {e.phase}, bank : {e.bank},
           left : {e.left}, got : {e.got}, alone : {e.alone}]
ChainsOK == (\A e \in chains : IsChain(e)) /\ clicks \in Nat
\* The bank of a chain stays what it is while it syncs a card or disconnects.
BankKept(job) == job \in {"syncOne", "disconnect"}
StepsOK == \A e \in chains : BankKept(e.job) => e.step \notin {"exchange", "store"}
ModalOK == modal = [bank |-> modal.bank, is |-> modal.is]
LinksInv == ChainsOK /\ StepsOK /\ ModalOK /\ FlagsMeanChains
\* Teller's timer.
TimersOK == retryTimeout \in Nat \cup {NoTimer} /\ logins \in Nat /\ OneRetryTimer
TellerInv == LinksInv /\ TimersOK

USE LinksAssumption, TellerAssumption

-----------------------------------------------------------------------------
LEMMA InitInv == TellerInit => TellerInv
  <1> SUFFICES ASSUME TellerInit PROVE TellerInv
    OBVIOUS
  <1> DEFINE first == [no |-> MaxClicks, job |-> "list", step |-> "load", phase |-> "sent",
                       bank |-> NoBank, left |-> {}, got |-> <<>>, alone |-> TRUE]
  <1>1. chains = {first} /\ loading = TRUE
    BY DEF TellerInit
  <1>2. IsChain(first) /\ first.step = "load"
    BY DEF IsChain
  <1>3. ChainsOK
    BY <1>1, <1>2 DEF TellerInit, BanksInit, TellerParts, ChainsOK
  <1>4. StepsOK /\ ModalOK /\ TimersOK
    BY <1>1, <1>2 DEF TellerInit, BanksInit, TellerParts, NoModal, StepsOK, ModalOK, TimersOK,
                      OneRetryTimer
  <1>5. FlagsMeanChains
    BY <1>1, <1>2 DEF TellerInit, BanksInit, NoModal, FlagsMeanChains
  <1> QED BY <1>3, <1>4, <1>5 DEF TellerInv, LinksInv

(* What becomes of a chain.                                                  *)
LEMMA ChainForms ==
    ASSUME NEW e, IsChain(e)
    PROVE  /\ \A p : LET d == [e EXCEPT !.phase = p]
                     IN IsChain(d) /\ d.job = e.job /\ d.step = e.step /\ d.bank = e.bank
           /\ LET d == [e EXCEPT !.alone = FALSE]
              IN IsChain(d) /\ d.job = e.job /\ d.step = e.step /\ d.bank = e.bank
  <1>1. ASSUME NEW p PROVE LET d == [e EXCEPT !.phase = p]
                           IN IsChain(d) /\ d.job = e.job /\ d.step = e.step /\ d.bank = e.bank
    BY DEF IsChain
  <1>2. LET d == [e EXCEPT !.alone = FALSE]
        IN IsChain(d) /\ d.job = e.job /\ d.step = e.step /\ d.bank = e.bank
    BY DEF IsChain
  <1> QED BY <1>1, <1>2

LEMMA StepForms ==
    ASSUME NEW e, IsChain(e)
    PROVE  /\ \A s : /\ IsChain(Step(e, s)) /\ Step(e, s).job = e.job
                    /\ Step(e, s).step = s /\ Step(e, s).bank = e.bank
           /\ IsChain(RetryOf(e)) /\ RetryOf(e).job = "retry" /\ RetryOf(e).step = "load"
  <1>1. ASSUME NEW s
        PROVE  /\ IsChain(Step(e, s)) /\ Step(e, s).job = e.job
               /\ Step(e, s).step = s /\ Step(e, s).bank = e.bank
    BY DEF IsChain, Step
  <1>2. IsChain(RetryOf(e)) /\ RetryOf(e).job = "retry" /\ RetryOf(e).step = "load"
    BY <1>1 DEF IsChain, RetryOf
  <1> QED BY <1>1, <1>2

LEMMA ChainIsChain ==
    ASSUME clicks \in Nat
    PROVE  \A job, step, b, ids :
              /\ IsChain(Chain(job, step, b, ids))
              /\ Chain(job, step, b, ids).job = job
              /\ Chain(job, step, b, ids).step = step
              /\ Chain(job, step, b, ids).bank = b
  BY DEF Chain, IsChain

(* The flags when a chain goes on, ends, or others join it.                  *)
LEMMA GoesOn ==
    ASSUME FlagsMeanChains, NEW e \in chains, NEW d, chains' = (chains \ {e}) \cup {d},
           e.job \in {"reauth", "part", "retry", "list"} \/ d.job = e.job,
           BankKept(e.job) => d.bank = e.bank,
           loading' => d.step = "load" \/ (loading /\ e.step # "load"),
           syncingAll' => syncingAll, cardLoading' \subseteq cardLoading,
           modal'.is = "loading" => modal' = modal
    PROVE  FlagsMeanChains'
  <1>1. loading' => \E c \in chains' : c.step = "load"
    BY DEF FlagsMeanChains
  <1>2. syncingAll' => \E c \in chains' : c.job = "syncAll"
    BY DEF FlagsMeanChains
  <1>3. modal'.is = "loading" => \E c \in chains' : c.job = "disconnect" /\ c.bank = modal'.bank
    BY DEF FlagsMeanChains, BankKept
  <1>4. \A b \in cardLoading' : \E c \in chains' : c.job = "syncOne" /\ c.bank = b
    BY DEF FlagsMeanChains, BankKept
  <1> QED BY <1>1, <1>2, <1>3, <1>4 DEF FlagsMeanChains

LEMMA Ends ==
    ASSUME FlagsMeanChains, NEW e \in chains, chains' = chains \ {e},
           loading' => loading /\ e.step # "load",
           syncingAll' => syncingAll /\ e.job # "syncAll",
           cardLoading' \subseteq cardLoading, e.job = "syncOne" => e.bank \notin cardLoading',
           modal'.is = "loading" => modal' = modal /\ e.job # "disconnect"
    PROVE  FlagsMeanChains'
  <1>1. loading' => \E c \in chains' : c.step = "load"
    BY DEF FlagsMeanChains
  <1>2. syncingAll' => \E c \in chains' : c.job = "syncAll"
    BY DEF FlagsMeanChains
  <1>3. modal'.is = "loading" => \E c \in chains' : c.job = "disconnect" /\ c.bank = modal'.bank
    BY DEF FlagsMeanChains
  <1>4. \A b \in cardLoading' : \E c \in chains' : c.job = "syncOne" /\ c.bank = b
    BY DEF FlagsMeanChains
  <1> QED BY <1>1, <1>2, <1>3, <1>4 DEF FlagsMeanChains

\* Every chain has a successor.
LEMMA GoOn ==
    ASSUME FlagsMeanChains,
           \A c \in chains : \E d \in chains' : /\ d.job = c.job /\ d.step = c.step
                                                /\ BankKept(c.job) => d.bank = c.bank,
           UNCHANGED <<loading, syncingAll, cardLoading, modal>>
    PROVE  FlagsMeanChains'
  <1>1. loading' => \E c \in chains' : c.step = "load"
    BY DEF FlagsMeanChains
  <1>2. syncingAll' => \E c \in chains' : c.job = "syncAll"
    BY DEF FlagsMeanChains
  <1>3. modal'.is = "loading" => \E c \in chains' : c.job = "disconnect" /\ c.bank = modal'.bank
    BY DEF FlagsMeanChains, BankKept
  <1>4. \A b \in cardLoading' : \E c \in chains' : c.job = "syncOne" /\ c.bank = b
    BY DEF FlagsMeanChains, BankKept
  <1> QED BY <1>1, <1>2, <1>3, <1>4 DEF FlagsMeanChains

-----------------------------------------------------------------------------
(* Calls are answered.                                                       *)
LEMMA NotAloneForms ==
    ASSUME NEW E, \A c \in E : IsChain(c)
    PROVE  /\ \A d \in NotAlone(E) : IsChain(d)
           /\ \A c \in E : \E d \in NotAlone(E) : d.job = c.job /\ d.step = c.step /\ d.bank = c.bank
           /\ \A d \in NotAlone(E) : \E c \in E : d.job = c.job /\ d.step = c.step
  <1>1. \A c \in E : LET d == [c EXCEPT !.alone = FALSE]
                     IN IsChain(d) /\ d.job = c.job /\ d.step = c.step /\ d.bank = c.bank
    BY ChainForms
  <1> QED BY <1>1 DEF NotAlone

\* A chain becomes d, and some others are known not to be alone.
LEMMA CallTurns ==
    ASSUME LinksInv, NEW e \in chains, NEW late \in SUBSET chains, NEW d, IsChain(d),
           d.job = e.job, d.step = e.step, BankKept(e.job) => d.bank = e.bank,
           chains' = (chains \ (late \cup {e})) \cup NotAlone(late) \cup {d},
           UNCHANGED <<loading, syncingAll, cardLoading, modal, clicks>>
    PROVE  LinksInv'
  <1> USE DEF LinksInv
  <1>1. \A c \in late : IsChain(c)
    BY DEF ChainsOK
  <1>2. ChainsOK'
    BY <1>1, NotAloneForms DEF ChainsOK
  <1>3. \A c \in chains : \E x \in chains' : /\ x.job = c.job /\ x.step = c.step
                                             /\ BankKept(c.job) => x.bank = c.bank
    <2>1. SUFFICES ASSUME NEW c \in chains
                   PROVE  \E x \in chains' : /\ x.job = c.job /\ x.step = c.step
                                             /\ BankKept(c.job) => x.bank = c.bank
      OBVIOUS
    <2>2. CASE c = e
      BY <2>2
    <2>3. CASE c \in late
      BY <1>1, <2>3, NotAloneForms
    <2>4. CASE c \notin late \cup {e}
      BY <2>4
    <2> QED BY <2>2, <2>3, <2>4
  <1>4. FlagsMeanChains'
    BY <1>3, GoOn
  <1>5. StepsOK'
    <2>1. \A x \in NotAlone(late) : \E c \in late : x.job = c.job /\ x.step = c.step
      BY <1>1, NotAloneForms
    <2> QED BY <2>1 DEF StepsOK
  <1> QED BY <1>2, <1>4, <1>5 DEF ModalOK

LEMMA CallsKeep ==
    ASSUME LinksInv, NEW e \in chains, CallReached(e) \/ CallBreaks(e)
    PROVE  LinksInv'
  <1>1. IsChain(e) /\ Answered \subseteq chains
    BY DEF LinksInv, ChainsOK, Answered
  <1>2. UNCHANGED <<loading, syncingAll, cardLoading, modal, clicks>>
    BY DEF CallReached, CallBreaks, pageList
  <1>3. ASSUME NEW d, IsChain(d), d.job = e.job, d.step = e.step, BankKept(e.job) => d.bank = e.bank,
               chains' = (chains \ {e}) \cup {d}
        PROVE  LinksInv'
    <2> DEFINE late == {}
    <2>1. NotAlone(late) = {} /\ late \in SUBSET chains
      BY DEF NotAlone
    <2>2. chains' = (chains \ (late \cup {e})) \cup NotAlone(late) \cup {d}
      BY <1>3, <2>1
    <2> HIDE DEF late
    <2> QED BY <1>2, <1>3, <2>1, <2>2, CallTurns
  <1>4. \A p : LET d == [e EXCEPT !.phase = p]
               IN IsChain(d) /\ d.job = e.job /\ d.step = e.step /\ d.bank = e.bank
    BY <1>1, ChainForms
  <1>5. ASSUME CallReached(e), e.step = "load" PROVE LinksInv'
    <2> DEFINE d == [e EXCEPT !.phase = "done", !.got = linked, !.alone = Answered = {}]
    <2>1. IsChain(d) /\ d.job = e.job /\ d.step = e.step /\ d.bank = e.bank
      BY <1>1 DEF IsChain
    <2>2. chains' = (chains \ (Answered \cup {e})) \cup NotAlone(Answered) \cup {d}
      BY <1>5 DEF CallReached
    <2> HIDE DEF d
    <2> QED BY <1>1, <1>2, <2>1, <2>2, CallTurns
  <1>6. ASSUME NEW p, Swap(e, {[e EXCEPT !.phase = p]}) PROVE LinksInv'
    <2> DEFINE d == [e EXCEPT !.phase = p]
    <2>1. IsChain(d) /\ d.job = e.job /\ d.step = e.step /\ d.bank = e.bank
      BY <1>4
    <2>2. chains' = (chains \ {e}) \cup {d}
      BY <1>6 DEF Swap
    <2> HIDE DEF d
    <2> QED BY <1>3, <2>1, <2>2
  <1>7. ASSUME CallReached(e), e.step # "load" PROVE LinksInv'
    <2>1. CASE e.step \in {"exchange", "store"} /\ e.bank = NoBank
      <3>1. PICK b \in Banks : Swap(e, {[e EXCEPT !.phase = "done", !.bank = b]})
        BY <1>7, <2>1 DEF CallReached
      <3> DEFINE d == [e EXCEPT !.phase = "done", !.bank = b]
      <3>2. IsChain(d) /\ d.job = e.job /\ d.step = e.step
        BY <1>1 DEF IsChain
      <3>3. ~BankKept(e.job)
        BY <2>1 DEF LinksInv, StepsOK
      <3>4. chains' = (chains \ {e}) \cup {d}
        BY <3>1 DEF Swap
      <3> HIDE DEF d
      <3> QED BY <1>3, <3>2, <3>3, <3>4
    <2>2. CASE ~(e.step \in {"exchange", "store"} /\ e.bank = NoBank)
      <3>1. \E p : Swap(e, {[e EXCEPT !.phase = p]})
        BY <1>7, <2>2 DEF CallReached
      <3> QED BY <1>6, <3>1
    <2> QED BY <2>1, <2>2
  <1>8. ASSUME CallBreaks(e) PROVE LinksInv'
    <2> DEFINE late == IF (e.phase = "done" /\ e.step \in {"disconnect", "exchange", "store"})
                          \/ e.step = "load"
                       THEN Answered \ {e} ELSE {}
               d == [e EXCEPT !.phase = "failed"]
    <2>1. chains' = (chains \ (late \cup {e})) \cup NotAlone(late) \cup {d}
      BY <1>8 DEF CallBreaks
    <2>2. IsChain(d) /\ d.job = e.job /\ d.step = e.step /\ d.bank = e.bank
      BY <1>4
    <2>3. late \in SUBSET chains
      BY <1>1
    <2> HIDE DEF late, d
    <2> QED BY <1>2, <2>1, <2>2, <2>3, CallTurns
  <1> QED BY <1>5, <1>7, <1>8

-----------------------------------------------------------------------------
(* Answers are handled: a chain goes on as d, or ends.                       *)
LEMMA GoingOn ==
    ASSUME LinksInv, NEW e \in chains, NEW d, IsChain(d), Swap(e, {d}), d.step \notin {"exchange", "store"},
           e.job \in {"reauth", "part", "retry", "list"} \/ d.job = e.job,
           BankKept(e.job) => d.bank = e.bank,
           loading' => d.step = "load" \/ (loading /\ e.step # "load"),
           UNCHANGED <<syncingAll, cardLoading, modal, clicks>>
    PROVE  LinksInv'
  <1>1. FlagsMeanChains'
    BY GoesOn DEF LinksInv, Swap
  <1>2. ChainsOK'
    BY DEF LinksInv, ChainsOK, Swap
  <1>3. StepsOK'
    BY DEF LinksInv, StepsOK, Swap
  <1> QED BY <1>1, <1>2, <1>3 DEF LinksInv, ModalOK

LEMMA Ending ==
    ASSUME LinksInv, NEW e \in chains, Swap(e, {}),
           loading' => loading /\ e.step # "load",
           syncingAll' => syncingAll /\ e.job # "syncAll",
           cardLoading' \subseteq cardLoading, e.job = "syncOne" => e.bank \notin cardLoading',
           modal'.is = "loading" => modal' = modal /\ e.job # "disconnect",
           ModalOK', clicks' = clicks
    PROVE  LinksInv'
  <1>1. chains' = chains \ {e}
    BY DEF Swap
  <1>2. FlagsMeanChains'
    BY <1>1, Ends DEF LinksInv
  <1>3. ChainsOK' /\ StepsOK'
    BY <1>1 DEF LinksInv, ChainsOK, StepsOK
  <1> QED BY <1>2, <1>3 DEF LinksInv

LEMMA SameModal == ModalOK /\ UNCHANGED modal => ModalOK'
  BY DEF ModalOK
LEMMA NoModalOK == modal' = NoModal => ModalOK' /\ modal'.is # "loading"
  BY DEF ModalOK, NoModal
LEMMA ModalFailed ==
    ASSUME ModalOK, modal' = [modal EXCEPT !.is = "failed"]
    PROVE  ModalOK' /\ modal'.is # "loading"
  BY DEF ModalOK
LEMMA Joins ==
    ASSUME LinksInv, NEW new, chains' = chains \cup new,
           \A d \in new : IsChain(d) /\ (BankKept(d.job) => d.step \notin {"exchange", "store"}),
           loading' => loading \/ \E d \in new : d.step = "load",
           syncingAll' => syncingAll \/ \E d \in new : d.job = "syncAll",
           \A b \in cardLoading' : b \in cardLoading \/ \E d \in new : d.job = "syncOne" /\ d.bank = b,
           modal'.is = "loading" =>
              modal' = modal \/ \E d \in new : d.job = "disconnect" /\ d.bank = modal'.bank,
           clicks' \in Nat, ModalOK'
    PROVE  LinksInv'
  <1>1. loading' => \E c \in chains' : c.step = "load"
    BY DEF LinksInv, FlagsMeanChains
  <1>2. syncingAll' => \E c \in chains' : c.job = "syncAll"
    BY DEF LinksInv, FlagsMeanChains
  <1>3. modal'.is = "loading" => \E c \in chains' : c.job = "disconnect" /\ c.bank = modal'.bank
    BY DEF LinksInv, FlagsMeanChains
  <1>4. \A b \in cardLoading' : \E c \in chains' : c.job = "syncOne" /\ c.bank = b
    BY DEF LinksInv, FlagsMeanChains
  <1>5. ChainsOK' /\ StepsOK'
    BY DEF LinksInv, ChainsOK, StepsOK
  <1> QED BY <1>1, <1>2, <1>3, <1>4, <1>5 DEF LinksInv, FlagsMeanChains

\* A step that leaves the chains and the page alone.
LEMMA Stands ==
    ASSUME LinksInv, UNCHANGED <<chains, clicks, loading, syncingAll, cardLoading>>,
           ModalOK', modal'.is = "loading" => modal' = modal
    PROVE  LinksInv'
  <1>1. FlagsMeanChains'
    BY DEF LinksInv, FlagsMeanChains
  <1> QED BY <1>1 DEF LinksInv, ChainsOK, StepsOK

LEMMA SameLinks == LinksInv /\ UNCHANGED banksVars => LinksInv'
  <1> SUFFICES ASSUME LinksInv, UNCHANGED banksVars PROVE LinksInv'
    OBVIOUS
  <1>1. UNCHANGED <<chains, clicks, loading, syncingAll, cardLoading, modal>>
    BY DEF banksVars, pageList
  <1> QED BY <1>1, Stands, SameModal DEF LinksInv

-----------------------------------------------------------------------------
(* The clicks.                                                               *)
LEMMA ClicksKeep ==
    ASSUME LinksInv, BanksClicks
    PROVE  LinksInv'
  <1>1. ModalOK /\ clicks \in Nat
    BY DEF LinksInv, ChainsOK
  <1>2. ASSUME NEW b \in Banks, SyncOne(b) PROVE LinksInv'
    <2> DEFINE new == {Chain("syncOne", "sync", b, {})}
    <2>1. /\ chains' = chains \cup new /\ clicks' = clicks + 1 /\ cardLoading' = cardLoading \cup {b}
          /\ UNCHANGED <<loading, syncingAll, modal>>
      BY <1>2 DEF SyncOne, Starts
    <2>2. \A d \in new : IsChain(d) /\ d.job = "syncOne" /\ d.step = "sync" /\ d.bank = b
      BY <1>1, ChainIsChain
    <2>3. new # {}
      OBVIOUS
    <2> HIDE DEF new
    <2> QED BY <1>1, <2>1, <2>2, <2>3, Joins, SameModal
  <1>3. ASSUME NEW b \in Banks, AskDisconnect(b) PROVE LinksInv'
    <2>1. ModalOK' /\ modal'.is # "loading"
      BY <1>3 DEF AskDisconnect, ModalOK
    <2> QED BY <1>3, <2>1, Stands DEF AskDisconnect
  <1>4. ASSUME NEW ids \in SUBSET Banks, SyncAll(ids) PROVE LinksInv'
    <2>1. PICK new : /\ chains' = chains \cup new
                     /\ \A d \in new : IsChain(d) /\ d.job \in {"syncAll", "part"}
                     /\ \E d \in new : d.job = "syncAll"
      <3>1. CASE selectedProvider = "plaid"
        <4> DEFINE all == Chain("syncAll", "parts", NoBank, {})
                   parts == {Chain("part", "sync", b, {}) : b \in ids}
        <4>1. chains' = chains \cup ({all} \cup parts)
          BY <1>4, <3>1 DEF SyncAll
        <4>2. IsChain(all) /\ all.job = "syncAll"
          BY <1>1, ChainIsChain
        <4>3. \A d \in parts : IsChain(d) /\ d.job = "part"
          BY <1>1, ChainIsChain
        <4> HIDE DEF all, parts
        <4> QED BY <4>1, <4>2, <4>3
      <3>2. CASE selectedProvider # "plaid"
        <4>1. PICK b \in ids : chains' = chains \cup {Chain("syncAll", "sync", b, ids \ {b})}
          BY <1>4, <3>2 DEF SyncAll
        <4> DEFINE all == Chain("syncAll", "sync", b, ids \ {b})
        <4>2. IsChain(all) /\ all.job = "syncAll"
          BY <1>1, ChainIsChain
        <4>3. chains' = chains \cup {all}
          BY <4>1
        <4> HIDE DEF all
        <4> QED BY <4>2, <4>3
      <3> QED BY <3>1, <3>2
    <2>2. clicks' = clicks + 1 /\ UNCHANGED <<loading, cardLoading, modal>>
      BY <1>4 DEF SyncAll
    <2> QED BY <1>1, <2>1, <2>2, Joins, SameModal DEF BankKept
  <1>5. ASSUME CancelDisconnect PROVE LinksInv'
    BY <1>5, Stands, NoModalOK DEF CancelDisconnect
  <1>6. ASSUME ConfirmDisconnect PROVE LinksInv'
    <2>1. CASE modal' = NoModal /\ UNCHANGED <<chains, clicks>>
      BY <1>6, <2>1, Stands, NoModalOK DEF ConfirmDisconnect
    <2>2. CASE /\ Starts(Chain("disconnect", "disconnect", modal.bank, {}))
               /\ modal' = [modal EXCEPT !.is = "loading"]
      <3> DEFINE new == {Chain("disconnect", "disconnect", modal.bank, {})}
      <3>1. chains' = chains \cup new /\ clicks' = clicks + 1
            /\ UNCHANGED <<loading, syncingAll, cardLoading>>
        BY <1>6, <2>2 DEF ConfirmDisconnect, Starts
      <3>2. \A d \in new : IsChain(d) /\ d.job = "disconnect" /\ d.step = "disconnect"
                           /\ d.bank = modal.bank
        BY <1>1, ChainIsChain
      <3>3. ModalOK' /\ modal'.bank = modal.bank
        BY <1>1, <2>2 DEF ModalOK
      <3>4. new # {}
        OBVIOUS
      <3> HIDE DEF new
      <3> QED BY <1>1, <3>1, <3>2, <3>3, <3>4, Joins
    <2> QED BY <1>6, <2>1, <2>2 DEF ConfirmDisconnect
  <1> QED BY <1>2, <1>3, <1>4, <1>5, <1>6 DEF BanksClicks
-----------------------------------------------------------------------------
(* The answers that the list of any provider handles.                        *)
LEMMA AnswersKeep ==
    ASSUME LinksInv, NEW e \in chains,
           \/ ListShown(e) \/ SyncedOne(e) \/ SyncOneFails(e) \/ SyncOneShown(e)
           \/ PartSynced(e) \/ PartShown(e) \/ SyncAllGoesOn(e) \/ SyncAllShown(e)
           \/ Disconnected(e) \/ DisconnectShown(e)
    PROVE  LinksInv'
  <1>1. IsChain(e) /\ ModalOK
    BY DEF LinksInv, ChainsOK
  <1>2. ASSUME Loads(e), UNCHANGED <<syncingAll, cardLoading, modal, clicks>> PROVE LinksInv'
    <2>1. IsChain(Step(e, "load")) /\ Step(e, "load").job = e.job /\ Step(e, "load").step = "load"
          /\ Step(e, "load").bank = e.bank
      BY <1>1, StepForms
    <2> QED BY <1>2, <2>1, GoingOn DEF Loads
  <1>3. ASSUME ListShown(e) \/ PartShown(e) PROVE LinksInv'
    <2>1. /\ Swap(e, {}) /\ loading' = FALSE /\ cardLoading' \subseteq cardLoading
          /\ e.job \in {"list", "part"} /\ UNCHANGED <<syncingAll, modal, clicks>>
      BY <1>3 DEF ListShown, PartShown, Shown
    <2> QED BY <1>1, <2>1, Ending, SameModal
  <1>4. ASSUME SyncedOne(e) PROVE LinksInv'
    BY <1>2, <1>4 DEF SyncedOne
  <1>5. ASSUME SyncOneFails(e) \/ SyncOneShown(e) PROVE LinksInv'
    <2>1. /\ Swap(e, {}) /\ e.job = "syncOne" /\ cardLoading' \subseteq cardLoading \ {e.bank}
          /\ loading' => loading /\ e.step # "load"
          /\ UNCHANGED <<syncingAll, modal, clicks>>
      BY <1>5 DEF SyncOneFails, SyncOneShown, Shown, Ended
    <2> QED BY <1>1, <2>1, Ending, SameModal
  <1>6. ASSUME PartSynced(e) PROVE LinksInv'
    <2>1. CASE Loads(e)
      BY <1>2, <1>6, <2>1 DEF PartSynced
    <2>2. CASE Swap(e, {}) /\ UNCHANGED loading /\ Ended(e, "part", "sync", {"failed"})
      <3>1. e.job = "part" /\ e.step # "load" /\ UNCHANGED <<syncingAll, cardLoading, modal, clicks>>
        BY <1>6, <2>2 DEF PartSynced, Ended
      <3> QED BY <1>1, <2>2, <3>1, Ending, SameModal
    <2> QED BY <1>6, <2>1, <2>2 DEF PartSynced
  <1>7. ASSUME SyncAllGoesOn(e) PROVE LinksInv'
    <2>1. CASE Loads(e)
      BY <1>2, <1>7, <2>1 DEF SyncAllGoesOn
    <2>2. ASSUME NEW b \in e.left, UNCHANGED loading, Ended(e, "syncAll", "sync", {"done"}),
                 Swap(e, {[Step(e, "sync") EXCEPT !.bank = b, !.left = @ \ {b}]})
          PROVE  LinksInv'
      <3> DEFINE d == [Step(e, "sync") EXCEPT !.bank = b, !.left = @ \ {b}]
      <3>1. IsChain(d) /\ d.job = e.job /\ d.step = "sync"
        <4> DEFINE f == Step(e, "sync")
        <4>1. IsChain(f) /\ f.job = e.job /\ f.step = "sync" /\ d = [f EXCEPT !.bank = b, !.left = f.left \ {b}]
          BY <1>1, StepForms
        <4> HIDE DEF f, d
        <4> QED BY <4>1 DEF IsChain
      <3>2. e.job = "syncAll" /\ e.step = "sync"
        BY <2>2 DEF Ended
      <3>3. Swap(e, {d}) /\ UNCHANGED <<syncingAll, cardLoading, modal, clicks>>
        BY <1>7, <2>2 DEF SyncAllGoesOn
      <3> HIDE DEF d
      <3> QED BY <2>2, <3>1, <3>2, <3>3, GoingOn DEF BankKept
    <2> QED BY <1>7, <2>1, <2>2 DEF SyncAllGoesOn
  <1>8. ASSUME SyncAllShown(e) PROVE LinksInv'
    <2>1. /\ Swap(e, {}) /\ e.job = "syncAll" /\ cardLoading' \subseteq cardLoading
          /\ loading' = FALSE /\ syncingAll' = FALSE /\ UNCHANGED <<modal, clicks>>
      BY <1>8 DEF SyncAllShown, Shown
    <2> QED BY <1>1, <2>1, Ending, SameModal
  <1>9. ASSUME Disconnected(e) PROVE LinksInv'
    <2>1. CASE Loads(e) /\ UNCHANGED modal
      BY <1>2, <1>9, <2>1 DEF Disconnected
    <2>2. CASE /\ Ended(e, "disconnect", "disconnect", {"failed"}) /\ Swap(e, {})
               /\ modal' = [modal EXCEPT !.is = "failed"] /\ UNCHANGED loading
      <3>1. ModalOK' /\ modal'.is # "loading"
        BY <1>1, <2>2, ModalFailed
      <3>2. e.job = "disconnect" /\ e.step # "load" /\ UNCHANGED <<syncingAll, cardLoading, clicks>>
        BY <1>9, <2>2 DEF Disconnected, Ended
      <3> QED BY <2>2, <3>1, <3>2, Ending
    <2> QED BY <1>9, <2>1, <2>2 DEF Disconnected
  <1>10. ASSUME DisconnectShown(e) PROVE LinksInv'
    <2>1. /\ Swap(e, {}) /\ e.job = "disconnect" /\ cardLoading' \subseteq cardLoading
          /\ loading' = FALSE /\ modal' = NoModal /\ UNCHANGED <<syncingAll, clicks>>
      BY <1>10 DEF DisconnectShown, Shown
    <2> QED BY <2>1, Ending, NoModalOK
  <1> QED BY <1>3, <1>4, <1>5, <1>6, <1>7, <1>8, <1>9, <1>10

-----------------------------------------------------------------------------
(* Teller's own steps.                                                       *)
LEMMA TellerKeeps ==
    ASSUME TellerInv,
           \/ ScriptLoads \/ ScriptFails \/ WindowExit \/ WindowSuccess \/ Unmount
           \/ \E n \in timers : TimerFires(n)
    PROVE  TellerInv'
  <1>1. LinksInv /\ ModalOK /\ TimersOK /\ clicks \in Nat /\ logins \in Nat
    BY DEF TellerInv, LinksInv, ChainsOK, TimersOK
  <1>2. timers = {retryTimeout} \ {NoTimer} /\ retryTimeout \in Nat \cup {NoTimer}
    BY <1>1 DEF TimersOK, OneRetryTimer
  <1>3. ASSUME ScriptLoads \/ ScriptFails \/ WindowExit \/ Unmount PROVE TellerInv'
    <2>1. UNCHANGED <<chains, clicks, loading, syncingAll, cardLoading, modal, logins>>
      BY <1>3 DEF ScriptLoads, ScriptFails, WindowExit, Unmount, banksVars, pageList
    <2>2. TimersOK'
      <3>1. CASE UNCHANGED retryVars
        BY <1>1, <3>1, <2>1 DEF retryVars, TimersOK, OneRetryTimer
      <3>2. CASE Unmount
        BY <1>1, <1>2, <3>2 DEF Unmount, TimersOK, OneRetryTimer
      <3> QED BY <1>3, <3>1, <3>2 DEF ScriptLoads, ScriptFails, WindowExit
    <2> QED BY <1>1, <2>1, <2>2, Stands, SameModal DEF TellerInv
  <1>4. ASSUME WindowSuccess PROVE TellerInv'
    <2> DEFINE d == [Chain("reauth", "store", connectionIdRef, {tellerWindow})
                     EXCEPT !.no = MaxClicks + logins']
    <2>1. logins' \in Nat /\ MaxClicks + logins' \in Nat /\ chains' = chains \cup {d}
      BY <1>1, <1>4 DEF WindowSuccess
    <2>2. UNCHANGED <<clicks, loading, syncingAll, cardLoading, modal, retryTimeout, timers>>
      BY <1>4 DEF WindowSuccess, pageList, retryVars
    <2>3. IsChain(d) /\ d.job = "reauth"
      BY <2>1 DEF Chain, IsChain
    <2>4. TimersOK'
      BY <1>2, <2>1, <2>2 DEF TimersOK, OneRetryTimer
    <2> DEFINE new == {d}
    <2>5. chains' = chains \cup new /\ \A x \in new : IsChain(x) /\ ~BankKept(x.job)
      BY <2>1, <2>3 DEF BankKept
    <2> HIDE DEF d, new
    <2> QED BY <1>1, <2>1, <2>2, <2>4, <2>5, Joins, SameModal DEF TellerInv
  <1>5. ASSUME NEW n \in timers, TimerFires(n) PROVE TellerInv'
    <2> DEFINE d == [Chain("retry", "load", NoBank, {}) EXCEPT !.no = n]
    <2>1. n \in Nat /\ timers \ {n} = {}
      BY <1>2
    <2>2. /\ chains' = chains \cup {d} /\ loading' = TRUE
          /\ UNCHANGED <<clicks, logins, syncingAll, cardLoading, modal>>
      BY <1>5 DEF TimerFires
    <2>3. IsChain(d) /\ d.job = "retry" /\ d.step = "load"
      BY <2>1 DEF Chain, IsChain
    <2>4. TimersOK'
      BY <1>1, <1>5, <2>1 DEF TimerFires, TimersOK, OneRetryTimer
    <2> DEFINE new == {d}
    <2>5. /\ chains' = chains \cup new /\ \A x \in new : IsChain(x) /\ ~BankKept(x.job)
          /\ \E x \in new : x.step = "load"
      BY <2>2, <2>3 DEF BankKept
    <2> HIDE DEF d, new
    <2> QED BY <1>1, <2>2, <2>4, <2>5, Joins, SameModal DEF TellerInv
  <1> QED BY <1>3, <1>4, <1>5

LEMMA LoginsKeep ==
    ASSUME TellerInv, NEW e \in chains,
           \/ SyncOneNeedsLogin(e) \/ Stored(e) \/ StoreFails(e) \/ ReauthSynced(e) \/ ReauthShown(e)
    PROVE  TellerInv'
  <1>1. LinksInv /\ IsChain(e) /\ ModalOK /\ TimersOK
    BY DEF TellerInv, LinksInv, ChainsOK
  <1>2. UNCHANGED <<retryTimeout, timers, logins, modal, syncingAll, clicks>>
    BY DEF SyncOneNeedsLogin, Stored, StoreFails, ReauthSynced, ReauthShown, retryVars, tellerVars,
           pageList
  <1>3. TimersOK' /\ ModalOK'
    BY <1>1, <1>2, SameModal DEF TimersOK, OneRetryTimer
  <1>4. ASSUME SyncOneNeedsLogin(e) PROVE TellerInv'
    <2>1. /\ Swap(e, {}) /\ e.job = "syncOne" /\ e.step # "load"
          /\ cardLoading' = cardLoading \ {e.bank} /\ UNCHANGED loading
      BY <1>4 DEF SyncOneNeedsLogin, Ended
    <2> QED BY <1>1, <1>2, <1>3, <2>1, Ending DEF TellerInv
  <1>5. ASSUME e.job = "reauth", UNCHANGED cardLoading, NEW d, IsChain(d), Swap(e, {d}),
               d.step \in {"load", "sync"}, loading' => d.step = "load" \/ (loading /\ e.step # "load")
        PROVE  TellerInv'
    BY <1>1, <1>2, <1>3, <1>5, GoingOn DEF TellerInv, BankKept
  <1>6. ASSUME Stored(e) PROVE TellerInv'
    <2>1. e.job = "reauth" /\ e.step = "store" /\ UNCHANGED cardLoading
      BY <1>6 DEF Stored, Ended
    <2>2. CASE Swap(e, {RetryOf(e)})
      <3>1. IsChain(RetryOf(e)) /\ RetryOf(e).step = "load"
        BY <1>1, StepForms
      <3> QED BY <1>5, <2>1, <2>2, <3>1
    <2>3. CASE Swap(e, {[Step(e, "sync") EXCEPT !.bank = pendingReauth]}) /\ UNCHANGED loading
      <3> DEFINE d == [Step(e, "sync") EXCEPT !.bank = pendingReauth]
      <3>1. IsChain(d) /\ d.step = "sync" /\ Swap(e, {d})
        BY <1>1, <2>3, StepForms DEF IsChain
      <3> HIDE DEF d
      <3> QED BY <1>5, <2>1, <2>3, <3>1
    <2> QED BY <1>6, <2>2, <2>3 DEF Stored
  <1>7. ASSUME StoreFails(e) PROVE TellerInv'
    <2>1. Swap(e, {}) /\ e.job = "reauth" /\ e.step # "load" /\ UNCHANGED <<loading, cardLoading>>
      BY <1>7 DEF StoreFails, Ended, pageList
    <2> QED BY <1>1, <1>2, <1>3, <2>1, Ending DEF TellerInv
  <1>8. ASSUME ReauthSynced(e) PROVE TellerInv'
    <2>1. e.job = "reauth" /\ UNCHANGED cardLoading
          /\ (Swap(e, {Step(e, "load")}) \/ Swap(e, {RetryOf(e)}))
      BY <1>8 DEF ReauthSynced, Ended
    <2>2. /\ IsChain(Step(e, "load")) /\ Step(e, "load").step = "load"
          /\ IsChain(RetryOf(e)) /\ RetryOf(e).step = "load"
      BY <1>1, StepForms
    <2> QED BY <1>5, <2>1, <2>2
  <1>9. ASSUME ReauthShown(e) PROVE TellerInv'
    <2>1. /\ Swap(e, {}) /\ e.job = "reauth" /\ loading' = FALSE
          /\ cardLoading' \subseteq cardLoading
      BY <1>9 DEF ReauthShown, Shown
    <2> QED BY <1>1, <1>2, <1>3, <2>1, Ending DEF TellerInv
  <1> QED BY <1>4, <1>6, <1>7, <1>8, <1>9

LEMMA RetryKeeps ==
    ASSUME TellerInv, NEW e \in chains, NEW populated, RetryShown(e, populated)
    PROVE  TellerInv'
  <1>1. LinksInv /\ ModalOK /\ TimersOK /\ e.no \in Nat
    BY DEF TellerInv, LinksInv, ChainsOK, IsChain
  <1>2. /\ Swap(e, {}) /\ e.job = "retry" /\ loading' = FALSE /\ cardLoading' \subseteq cardLoading
        /\ UNCHANGED <<syncingAll, modal, clicks, logins>>
    BY DEF RetryShown, Shown
  <1>3. timers \ {retryTimeout} = {}
    BY <1>1 DEF TimersOK, OneRetryTimer
  <1>4. TimersOK'
    BY <1>1, <1>3 DEF RetryShown, TimersOK, OneRetryTimer
  <1> QED BY <1>1, <1>2, <1>4, Ending, SameModal DEF TellerInv

LEMMA NextInv == TellerInv /\ [TellerNext]_tellerLinksVars => TellerInv'
  <1> SUFFICES ASSUME TellerInv, [TellerNext]_tellerLinksVars PROVE TellerInv'
    OBVIOUS
  <1>1. ASSUME LinksInv', UNCHANGED tellerVars \/ TellerClicks PROVE TellerInv'
    BY <1>1 DEF TellerInv, TimersOK, OneRetryTimer, tellerVars, retryVars, TellerClicks
  <1>2. CASE BanksCalls /\ UNCHANGED tellerVars
    BY <1>1, <1>2, CallsKeep, AnswersKeep DEF BanksCalls, TellerInv
  <1>3. CASE TellerClicks
    BY <1>1, <1>3, ClicksKeep DEF TellerClicks, TellerInv
  <1>4. CASE \/ ScriptLoads \/ ScriptFails \/ WindowExit \/ WindowSuccess \/ Unmount
             \/ \E n \in timers : TimerFires(n)
    BY <1>4, TellerKeeps
  <1>5. ASSUME NEW e \in chains, \/ SyncOneNeedsLogin(e) \/ Stored(e) \/ StoreFails(e)
                                 \/ ReauthSynced(e) \/ ReauthShown(e)
        PROVE  TellerInv'
    BY <1>5, LoginsKeep
  <1>6. ASSUME NEW e \in chains, NEW populated \in BOOLEAN, RetryShown(e, populated)
        PROVE  TellerInv'
    BY <1>6, RetryKeeps
  <1>7. CASE UNCHANGED tellerLinksVars
    BY <1>1, <1>7, SameLinks DEF tellerLinksVars, TellerInv
  <1> QED BY <1>2, <1>3, <1>4, <1>5, <1>6, <1>7 DEF TellerNext

-----------------------------------------------------------------------------
(* However many chains read the list again, one timer at most is set and the *)
(* ref knows it, so that leaving the page stops the reading.                 *)
THEOREM TimersAreOne == TellerSpec => []OneRetryTimer
  <1>1. TellerInv => OneRetryTimer
    BY DEF TellerInv, TimersOK
  <1> QED BY <1>1, InitInv, NextInv, PTL DEF TellerSpec

(* No flag of the accounts page of a user of Teller outlives the chain of    *)
(* calls that it stands for, so that none stays set for ever.                *)
THEOREM FlagsStandForChains == TellerSpec => []FlagsMeanChains
  <1>1. TellerInv => FlagsMeanChains
    BY DEF TellerInv, LinksInv
  <1> QED BY <1>1, InitInv, NextInv, PTL DEF TellerSpec

-----------------------------------------------------------------------------
(* Plaid's own steps.                                                        *)
LEMMA PlaidInitLinks == PlaidInit => LinksInv
  <1> SUFFICES ASSUME PlaidInit PROVE LinksInv
    OBVIOUS
  <1> DEFINE first == [no |-> 0, job |-> "list", step |-> "load", phase |-> "sent",
                       bank |-> NoBank, left |-> {}, got |-> <<>>, alone |-> TRUE]
  <1>1. (chains = {first} /\ loading = TRUE) \/ (chains = {} /\ loading = FALSE)
    BY DEF PlaidInit
  <1>2. IsChain(first) /\ first.step = "load" /\ first.job = "list"
    BY DEF IsChain
  <1>3. clicks = 0 /\ syncingAll = FALSE /\ cardLoading = {} /\ modal = NoModal
    BY DEF PlaidInit, BanksInit
  <1> HIDE DEF first
  <1>4. ChainsOK /\ StepsOK /\ ModalOK
    BY <1>1, <1>2, <1>3 DEF ChainsOK, StepsOK, ModalOK, NoModal, BankKept
  <1>5. FlagsMeanChains
    BY <1>1, <1>2, <1>3 DEF FlagsMeanChains, NoModal
  <1> QED BY <1>4, <1>5 DEF LinksInv

LEMMA PlaidStepKeeps ==
    ASSUME LinksInv, NEW e \in chains,
           \/ ProviderSelected(e) \/ SelectFails(e) \/ TokenArrives(e) \/ TokenFails(e)
           \/ Exchanged(e) \/ LinkListed(e) \/ LinkSynced(e) \/ LinkShown(e)
    PROVE  LinksInv'
  <1>1. IsChain(e) /\ ModalOK /\ clicks \in Nat
    BY DEF LinksInv, ChainsOK
  <1>2. UNCHANGED <<modal, syncingAll, clicks>> /\ ModalOK' /\ e.job \in {"select", "connect", "link"}
    BY <1>1, SameModal DEF ProviderSelected, SelectFails, TokenArrives, TokenFails, Exchanged, LinkListed,
                           LinkSynced, LinkShown, Ended, pageList
  <1>3. ASSUME Swap(e, {}), loading' => loading /\ e.step # "load", cardLoading' \subseteq cardLoading
        PROVE  LinksInv'
    BY <1>2, <1>3, Ending
  <1>4. ASSUME Loads(e), UNCHANGED cardLoading PROVE LinksInv'
    <2>1. IsChain(Step(e, "load")) /\ Step(e, "load").job = e.job /\ Step(e, "load").step = "load"
      BY <1>1, StepForms
    <2> QED BY <1>2, <1>4, <2>1, GoingOn DEF Loads, BankKept
  <1>5. ASSUME SelectFails(e) \/ TokenArrives(e) \/ TokenFails(e) PROVE LinksInv'
    <2>1. Swap(e, {}) /\ UNCHANGED <<loading, cardLoading>> /\ e.step # "load"
      BY <1>5 DEF SelectFails, TokenArrives, TokenFails, Ended, pageList
    <2> QED BY <1>3, <2>1
  <1>6. ASSUME Exchanged(e) PROVE LinksInv'
    <2>1. e.step # "load" /\ UNCHANGED cardLoading
      BY <1>6 DEF Exchanged, Ended
    <2> QED BY <1>3, <1>4, <1>6, <2>1 DEF Exchanged
  <1>7. ASSUME LinkSynced(e) PROVE LinksInv'
    BY <1>4, <1>7 DEF LinkSynced
  <1>8. ASSUME LinkShown(e) PROVE LinksInv'
    BY <1>3, <1>8 DEF LinkShown, Shown
  <1>9. ASSUME LinkListed(e) PROVE LinksInv'
    <2>1. loading' = FALSE /\ cardLoading' \subseteq cardLoading
      BY <1>9 DEF LinkListed, Shown
    <2>2. CASE Swap(e, {})
      BY <1>3, <2>1, <2>2
    <2>3. CASE Swap(e, {[Step(e, "sync") EXCEPT !.left = {Head(e.got)}]})
      <3> DEFINE f == Step(e, "sync")
                 d == [f EXCEPT !.left = {Head(e.got)}]
      <3>1. IsChain(f) /\ f.job = e.job /\ f.step = "sync"
        BY <1>1, StepForms
      <3> HIDE DEF f
      <3>2. IsChain(d) /\ d.job = e.job /\ d.step = "sync"
        BY <3>1 DEF IsChain
      <3>3. chains' = (chains \ {e}) \cup {d}
        BY <2>3 DEF Swap, f
      <3> HIDE DEF d
      <3>4. ChainsOK' /\ StepsOK'
        BY <1>2, <3>2, <3>3 DEF LinksInv, ChainsOK, StepsOK, BankKept
      <3>5. FlagsMeanChains'
        BY <1>2, <2>1, <3>3 DEF LinksInv, FlagsMeanChains
      <3> QED BY <1>2, <3>4, <3>5 DEF LinksInv
    <2> QED BY <1>9, <2>2, <2>3 DEF LinkListed
  <1>10. ASSUME ProviderSelected(e) PROVE LinksInv'
    <2> DEFINE list == Chain("list", "load", NoBank, {})
               token == Chain("connect", "token", NoBank, {})
    <2>1. /\ IsChain(list) /\ list.job = "list" /\ list.step = "load"
          /\ IsChain(token) /\ token.job = "connect" /\ token.step = "token"
      BY <1>1, ChainIsChain
    <2>2. PICK new : new \subseteq {list, token} /\ list \in new /\ chains' = (chains \ {e}) \cup new
      BY <1>10 DEF ProviderSelected, Swap
    <2>3. e.job = "select" /\ UNCHANGED cardLoading
      BY <1>10 DEF ProviderSelected, Ended
    <2> HIDE DEF list, token
    <2>4. \A d \in new : IsChain(d) /\ ~BankKept(d.job)
      BY <2>1, <2>2 DEF BankKept
    <2>5. ChainsOK' /\ StepsOK'
      BY <1>2, <2>2, <2>4 DEF LinksInv, ChainsOK, StepsOK
    <2>6. FlagsMeanChains'
      BY <1>2, <2>1, <2>2, <2>3 DEF LinksInv, FlagsMeanChains
    <2> QED BY <1>2, <2>5, <2>6 DEF LinksInv
  <1> QED BY <1>5, <1>6, <1>7, <1>8, <1>9, <1>10

LEMMA PlaidNextLinks == LinksInv /\ [PlaidNext]_plaidLinksVars => LinksInv'
  <1> SUFFICES ASSUME LinksInv, [PlaidNext]_plaidLinksVars PROVE LinksInv'
    OBVIOUS
  <1>1. clicks \in Nat
    BY DEF LinksInv, ChainsOK
  <1>2. CASE BanksClicks \/ BanksCalls
    BY <1>2, ClicksKeep, CallsKeep, AnswersKeep DEF BanksCalls
  <1>3. ASSUME NEW job, NEW step, Starts(Chain(job, step, NoBank, {})), ~BankKept(job),
               UNCHANGED <<loading, syncingAll, cardLoading, modal>>
        PROVE  LinksInv'
    <2> DEFINE new == {Chain(job, step, NoBank, {})}
    <2>1. chains' = chains \cup new /\ clicks' = clicks + 1
      BY <1>3 DEF Starts
    <2>2. \A d \in new : IsChain(d) /\ d.job = job
      BY <1>1, ChainIsChain
    <2> HIDE DEF new
    <2>3. ModalOK' /\ clicks' \in Nat
      BY <1>1, <1>3, <2>1, SameModal DEF LinksInv
    <2>4. loading' = loading /\ syncingAll' = syncingAll /\ cardLoading' = cardLoading /\ modal' = modal
      BY <1>3
    <2> QED BY <1>3, <2>1, <2>2, <2>3, <2>4, Joins
  <1>4. CASE LaunchPlaidLink \/ LinkSuccess
    BY <1>3, <1>4 DEF LaunchPlaidLink, LinkSuccess, pageList, BankKept
  <1>5. CASE LinkReady \/ LinkExit \/ UNCHANGED plaidLinksVars
    BY <1>5, SameLinks DEF LinkReady, LinkExit, plaidLinksVars
  <1> QED BY <1>2, <1>4, <1>5, PlaidStepKeeps DEF PlaidNext

(* Nor does one of the accounts page of a user of Plaid, who launches Plaid  *)
(* Link, links banks, syncs all at once and disconnects.                     *)
THEOREM PlaidFlagsStandForChains == PlaidSpec => []FlagsMeanChains
  <1>1. LinksInv => FlagsMeanChains
    BY DEF LinksInv
  <1> QED BY <1>1, PlaidInitLinks, PlaidNextLinks, PTL DEF PlaidSpec

-----------------------------------------------------------------------------
(* The list.                                                                 *)
\* Chains that have yet to show what the server did.
Reads(e) == \/ e.step = "load" /\ e.phase = "sent"
            \/ e.step \in {"disconnect", "exchange", "store"} /\ e.phase = "done"
            \/ e.job = "reauth" /\ e.step = "sync"
Unread == {e \in chains : Reads(e)}
\* A list that no other read crossed is the server's, or another is to come.
AnsweredOK == \A e \in Answered : e.alone => ToSet(e.got) = Linked \/ Unread # {}
\* So is the list shown, unless it is known to be in doubt.
ListedOK == ~unsure => connections = Linked \/ \E e \in chains : Reads(e) \/ e.step = "load"
ListInv == AnsweredOK /\ ListedOK

\* A chain that goes on, or ends, but does not show a list.
LEMMA Turning ==
    ASSUME ListInv, NEW e \in chains, NEW new, chains' = (chains \ {e}) \cup new,
           e.step # "load", \A d \in new : d.step = "load" => d.phase = "sent",
           Reads(e) => \E d \in new : Reads(d),
           Linked' = Linked \/ \E d \in new : Reads(d),
           connections' = connections, unsure => unsure'
    PROVE  ListInv'
  <1> USE DEF ListInv
  <1>1. Answered' = Answered
    BY DEF Answered
  <1>2. Unread # {} => Unread' # {}
    BY DEF Unread, Reads
  <1>3. (\E d \in new : Reads(d)) => Unread' # {}
    BY DEF Unread, Reads
  <1>4. AnsweredOK'
    BY <1>1, <1>2, <1>3 DEF AnsweredOK
  <1>5. ListedOK'
    <2>1. (\E d \in new : Reads(d)) => ListedOK'
      BY DEF ListedOK, Reads
    <2>2. ASSUME NEW c \in chains, Reads(c) \/ c.step = "load" PROVE ListedOK'
      <3>1. CASE c = e
        BY <2>1, <2>2, <3>1
      <3>2. CASE c # e
        BY <2>2, <3>2 DEF ListedOK, Reads
      <3> QED BY <3>1, <3>2
    <2> QED BY <2>1, <2>2 DEF ListedOK
  <1> QED BY <1>4, <1>5

LEMMA TurnsInto ==
    ASSUME ListInv, NEW e \in chains, NEW d, chains' = (chains \ {e}) \cup {d},
           e.step # "load", d.step = "load" => d.phase = "sent", Reads(e) => Reads(d),
           Linked' = Linked \/ Reads(d), connections' = connections, unsure => unsure'
    PROVE  ListInv'
  <1> DEFINE new == {d}
  <1>1. /\ chains' = (chains \ {e}) \cup new
        /\ \A c \in new : c.step = "load" => c.phase = "sent"
        /\ Reads(e) => \E c \in new : Reads(c)
        /\ Linked' = Linked \/ \E c \in new : Reads(c)
    OBVIOUS
  <1> HIDE DEF new
  <1> QED BY <1>1, Turning

LEMMA TurnsOut ==
    ASSUME ListInv, NEW e \in chains, chains' = chains \ {e}, e.step # "load", ~Reads(e),
           UNCHANGED <<linked, connections, unsure>>
    PROVE  ListInv'
  <1> DEFINE new == {}
  <1>1. chains' = (chains \ {e}) \cup new /\ \A c \in new : c.step = "load" => c.phase = "sent"
    OBVIOUS
  <1>2. Linked' = Linked
    BY DEF Linked
  <1> HIDE DEF new
  <1> QED BY <1>1, <1>2, Turning

LEMMA Joining ==
    ASSUME ListInv, NEW new, chains' = chains \cup new, \A d \in new : d.step = "load" => d.phase = "sent",
           UNCHANGED <<linked, connections, unsure>>
    PROVE  ListInv'
  <1> USE DEF ListInv
  <1>1. Answered' = Answered /\ Linked' = Linked
    BY DEF Answered, Linked
  <1>2. Unread # {} => Unread' # {}
    BY DEF Unread, Reads
  <1>3. AnsweredOK'
    BY <1>1, <1>2 DEF AnsweredOK
  <1>4. ListedOK'
    BY <1>1 DEF ListedOK, Reads
  <1> QED BY <1>3, <1>4

\* A list is shown, and the chain ends or goes on.
LEMMA Showing ==
    ASSUME ListInv, NEW e \in chains, NEW cards, Shown(e, cards), NEW new, chains' = (chains \ {e}) \cup new,
           \A d \in new : d.step # "load", linked' = linked
    PROVE  ListInv'
  <1> USE DEF ListInv
  <1>1. /\ e.step = "load" /\ e.phase \in {"done", "failed"} /\ connections' = Lists(e)
        /\ unsure' = ~(e.phase = "done" /\ e.alone) /\ Linked' = Linked
    BY DEF Shown, Linked
  <1>2. Answered' = Answered \ {e}
    BY <1>1 DEF Answered
  <1>3. ~Reads(e)
    BY <1>1 DEF Reads
  <1>4. Unread \subseteq Unread'
    BY <1>3 DEF Unread, Reads
  <1>5. AnsweredOK'
    BY <1>1, <1>2, <1>4 DEF AnsweredOK
  <1>6. ~unsure' => e \in Answered /\ e.alone /\ connections' = ToSet(e.got)
    BY <1>1 DEF Answered, Lists
  <1>7. ~unsure' => connections' = Linked' \/ Unread' # {}
    BY <1>1, <1>4, <1>6 DEF AnsweredOK
  <1>8. ListedOK'
    BY <1>7 DEF ListedOK, Unread, Reads
  <1> QED BY <1>5, <1>8

\* Nothing of the list changes.
LEMMA Stays == ListInv /\ UNCHANGED <<linked, connections, chains, unsure>> => ListInv'
  BY DEF ListInv, AnsweredOK, ListedOK, Answered, Linked, Unread, Reads

LEMMA CrossedForms ==
    ASSUME NEW E, \A c \in E : IsChain(c), NEW d \in NotAlone(E)
    PROVE  ~d.alone /\ \E c \in E : d.step = c.step /\ d.phase = c.phase /\ d.job = c.job
  <1>1. PICK c \in E : d = [c EXCEPT !.alone = FALSE]
    BY DEF NotAlone
  <1> QED BY <1>1 DEF IsChain

LEMMA ReachedLists ==
    ASSUME ChainsOK, ListInv, NEW e \in chains, CallReached(e)
    PROVE  ListInv'
  <1> USE DEF ListInv
  <1>1. IsChain(e) /\ e.phase = "sent" /\ UNCHANGED <<connections, unsure>>
    BY DEF ChainsOK, CallReached, pageList
  <1>2. \A c \in Answered : IsChain(c)
    BY DEF ChainsOK, Answered
  <1>3. CASE e.step = "load"
    <2>1. PICK g, b : g = linked /\ b = (Answered = {})
      OBVIOUS
    <2> DEFINE d == [e EXCEPT !.phase = "done", !.got = g, !.alone = b]
    <2>2. /\ chains' = (chains \ (Answered \cup {e})) \cup NotAlone(Answered) \cup {d}
          /\ linked' = linked
      BY <1>3, <2>1 DEF CallReached
    <2>3. d.step = "load" /\ d.phase = "done" /\ d.got = g
      BY <1>1, <1>3 DEF IsChain
    <2> HIDE DEF d
    <2>4. \A c \in Answered' : c = d \/ ~c.alone
      BY <1>2, <2>2, CrossedForms DEF Answered
    <2>5. AnsweredOK'
      BY <2>1, <2>2, <2>3, <2>4 DEF AnsweredOK, Linked
    <2>6. ListedOK'
      BY <2>2, <2>3 DEF ListedOK
    <2> QED BY <2>5, <2>6
  <1>4. ASSUME e.step # "load", NEW p \in {"done", "failed"}, Swap(e, {[e EXCEPT !.phase = p]}),
               Linked' = Linked \/ (e.step \in {"disconnect", "exchange", "store"} /\ p = "done")
        PROVE  ListInv'
    <2> DEFINE d == [e EXCEPT !.phase = p]
    <2>1. d.step = e.step /\ d.phase = p /\ d.job = e.job
      BY <1>1 DEF IsChain
    <2>2. chains' = (chains \ {e}) \cup {d}
      BY <1>4 DEF Swap
    <2> HIDE DEF d
    <2>3. Reads(e) => Reads(d)
      BY <1>1, <1>4, <2>1 DEF Reads
    <2>4. Linked' = Linked \/ Reads(d)
      BY <1>4, <2>1 DEF Reads
    <2> QED BY <1>1, <1>4, <2>1, <2>2, <2>3, <2>4, TurnsInto
  <1>5. CASE e.step = "disconnect"
    <2>1. CASE e.bank \in Linked
      BY <1>4, <1>5, <2>1 DEF CallReached
    <2>2. CASE e.bank \notin Linked
      BY <1>4, <1>5, <2>2 DEF CallReached, Linked
    <2> QED BY <2>1, <2>2
  <1>6. CASE e.step \in {"exchange", "store"} /\ e.bank = NoBank
    <2>1. PICK k \in Banks : Swap(e, {[e EXCEPT !.phase = "done", !.bank = k]})
      BY <1>6 DEF CallReached
    <2> DEFINE d == [e EXCEPT !.phase = "done", !.bank = k]
    <2>2. d.step = e.step /\ d.phase = "done" /\ d.job = e.job
      BY <1>1 DEF IsChain
    <2>3. chains' = (chains \ {e}) \cup {d}
      BY <2>1 DEF Swap
    <2> HIDE DEF d
    <2>4. Reads(d)
      BY <1>6, <2>2 DEF Reads
    <2> QED BY <1>1, <1>6, <2>2, <2>3, <2>4, TurnsInto
  <1>7. CASE ~(e.step \in {"load", "disconnect"} \/ (e.step \in {"exchange", "store"} /\ e.bank = NoBank))
    <2>1. Swap(e, {[e EXCEPT !.phase = "done"]}) /\ Linked' = Linked
      BY <1>7 DEF CallReached, Linked
    <2> QED BY <1>4, <1>7, <2>1
  <1> QED BY <1>3, <1>5, <1>6, <1>7

LEMMA BrokenLists ==
    ASSUME ChainsOK, ListInv, NEW e \in chains, CallBreaks(e)
    PROVE  ListInv'
  <1> USE DEF ListInv
  <1> DEFINE lost == e.phase = "done" /\ e.step \in {"disconnect", "exchange", "store"}
             d == [e EXCEPT !.phase = "failed"]
             late == IF lost \/ e.step = "load" THEN Answered \ {e} ELSE {}
  <1>1. /\ IsChain(e) /\ \A c \in late : IsChain(c)
        /\ connections' = connections /\ linked' = linked
        /\ chains' = (chains \ (late \cup {e})) \cup NotAlone(late) \cup {d}
        /\ unsure' = (unsure \/ lost) /\ e.phase \in {"sent", "done"}
    BY DEF ChainsOK, CallBreaks, pageList, Answered
  <1>2. d.step = e.step /\ d.phase = "failed" /\ d.job = e.job
    BY <1>1 DEF IsChain
  <1> HIDE DEF d
  <1>3. CASE lost \/ e.step = "load"
    <2>1. late = Answered \ {e}
      BY <1>3
    <2> HIDE DEF late
    <2>2. \A c \in Answered' : ~c.alone
      BY <1>1, <1>2, <2>1, CrossedForms DEF Answered
    <2>3. AnsweredOK'
      BY <2>2 DEF AnsweredOK
    <2>4. ASSUME lost PROVE ListedOK'
      BY <1>1, <2>4 DEF ListedOK
    <2>5. ASSUME e.step = "load" PROVE ListedOK'
      BY <1>1, <1>2, <2>5 DEF ListedOK
    <2> QED BY <1>3, <2>3, <2>4, <2>5
  <1>4. CASE ~lost /\ e.step # "load"
    <2>1. late = {} /\ NotAlone({}) = {}
      BY <1>4 DEF NotAlone
    <2>2. chains' = (chains \ {e}) \cup {d}
      BY <1>1, <2>1
    <2>3. Reads(e) => Reads(d)
      BY <1>1, <1>2, <1>4 DEF Reads
    <2>4. unsure => unsure'
      BY <1>1
    <2>5. Linked' = Linked
      BY <1>1 DEF Linked
    <2> QED BY <1>1, <1>2, <1>4, <2>2, <2>3, <2>4, <2>5, TurnsInto
  <1> QED BY <1>3, <1>4

-----------------------------------------------------------------------------
(* The handlers of the answers.                                              *)
LEMMA StepSent ==
    ASSUME NEW e, IsChain(e)
    PROVE  /\ Step(e, "load").step = "load" /\ Step(e, "load").phase = "sent"
           /\ RetryOf(e).step = "load" /\ RetryOf(e).phase = "sent"
  <1>1. IsChain(Step(e, "load")) /\ Step(e, "load").step = "load" /\ Step(e, "load").phase = "sent"
    BY DEF IsChain, Step
  <1> QED BY <1>1 DEF IsChain, RetryOf

LEMMA ReadsAgain ==
    ASSUME ListInv, NEW e \in chains, IsChain(e), e.step # "load",
           Swap(e, {Step(e, "load")}) \/ Swap(e, {RetryOf(e)}),
           UNCHANGED <<linked, connections, unsure>>
    PROVE  ListInv'
  <1>1. PICK d : chains' = (chains \ {e}) \cup {d} /\ d.step = "load" /\ d.phase = "sent"
    <2>1. CASE Swap(e, {Step(e, "load")})
      BY <2>1, StepSent DEF Swap
    <2>2. CASE Swap(e, {RetryOf(e)})
      BY <2>2, StepSent DEF Swap
    <2> QED BY <2>1, <2>2
  <1>2. Reads(d)
    BY <1>1 DEF Reads
  <1> QED BY <1>1, <1>2, TurnsInto

LEMMA GoesAway ==
    ASSUME ListInv, NEW e \in chains, Swap(e, {}), e.step # "load", ~Reads(e),
           UNCHANGED <<linked, connections, unsure>>
    PROVE  ListInv'
  <1>1. chains' = chains \ {e}
    BY DEF Swap
  <1> QED BY <1>1, TurnsOut

LEMMA ShownAndGone ==
    ASSUME ListInv, NEW e \in chains, NEW cards, Shown(e, cards), Swap(e, {}), linked' = linked
    PROVE  ListInv'
  <1> DEFINE new == {}
  <1>1. chains' = (chains \ {e}) \cup new /\ \A d \in new : d.step # "load"
    BY DEF Swap
  <1> HIDE DEF new
  <1> QED BY <1>1, Showing

LEMMA BanksLists ==
    ASSUME ChainsOK, ListInv, BanksCalls
    PROVE  ListInv'
  <1>1. PICK e \in chains :
            \/ CallReached(e) \/ CallBreaks(e) \/ ListShown(e)
            \/ SyncedOne(e) \/ SyncOneFails(e) \/ SyncOneShown(e)
            \/ PartSynced(e) \/ PartShown(e) \/ SyncAllGoesOn(e) \/ SyncAllShown(e)
            \/ Disconnected(e) \/ DisconnectShown(e)
    BY DEF BanksCalls
  <1>2. IsChain(e)
    BY DEF ChainsOK
  <1>3. ASSUME CallReached(e) \/ CallBreaks(e) PROVE ListInv'
    BY <1>3, ReachedLists, BrokenLists
  <1>4. ASSUME ListShown(e) \/ SyncOneShown(e) \/ PartShown(e) \/ SyncAllShown(e) \/ DisconnectShown(e)
        PROVE  ListInv'
    <2>1. (\E cards : Shown(e, cards)) /\ Swap(e, {}) /\ linked' = linked
      BY <1>4 DEF ListShown, SyncOneShown, PartShown, SyncAllShown, DisconnectShown
    <2> QED BY <2>1, ShownAndGone
  <1>5. ASSUME SyncedOne(e) PROVE ListInv'
    BY <1>2, <1>5, ReadsAgain DEF SyncedOne, Loads, Ended
  <1>6. ASSUME SyncOneFails(e) PROVE ListInv'
    <2>1. ~Reads(e) /\ e.step # "load"
      BY <1>6 DEF SyncOneFails, Ended, Reads
    <2> QED BY <1>6, <2>1, GoesAway DEF SyncOneFails
  <1>7. ASSUME PartSynced(e) PROVE ListInv'
    <2>1. ~Reads(e) /\ e.step # "load" /\ UNCHANGED <<linked, connections, unsure>>
      BY <1>7 DEF PartSynced, Ended, Reads
    <2>2. CASE Loads(e)
      BY <1>2, <2>1, <2>2, ReadsAgain DEF Loads
    <2>3. CASE Swap(e, {})
      BY <2>1, <2>3, GoesAway
    <2> QED BY <1>7, <2>2, <2>3 DEF PartSynced
  <1>8. ASSUME SyncAllGoesOn(e) PROVE ListInv'
    <2>1. UNCHANGED <<linked, connections, unsure>>
      BY <1>8 DEF SyncAllGoesOn
    <2>2. ASSUME Loads(e), e.step # "load" PROVE ListInv'
      BY <1>2, <2>1, <2>2, ReadsAgain DEF Loads
    <2>3. ASSUME Ended(e, "syncAll", "sync", {"done"}), NEW b \in e.left,
                 Swap(e, {[Step(e, "sync") EXCEPT !.bank = b, !.left = @ \ {b}]})
          PROVE  ListInv'
      <3> DEFINE f == Step(e, "sync")
                 d == [f EXCEPT !.bank = b, !.left = @ \ {b}]
      <3>1. IsChain(f) /\ f.step = "sync"
        BY <1>2, StepForms
      <3>2. d.step = "sync"
        BY <3>1 DEF IsChain
      <3>3. chains' = (chains \ {e}) \cup {d} /\ e.step # "load" /\ ~Reads(e)
        BY <2>3 DEF Swap, Ended, Reads
      <3>4. Linked' = Linked
        BY <2>1 DEF Linked
      <3> HIDE DEF d
      <3> QED BY <2>1, <3>2, <3>3, <3>4, TurnsInto
    <2>4. \/ Loads(e) /\ e.step # "load"
          \/ /\ Ended(e, "syncAll", "sync", {"done"})
             /\ \E b \in e.left : Swap(e, {[Step(e, "sync") EXCEPT !.bank = b, !.left = @ \ {b}]})
      BY <1>8 DEF SyncAllGoesOn, Ended
    <2> QED BY <2>2, <2>3, <2>4
  <1>9. ASSUME Disconnected(e) PROVE ListInv'
    <2>1. e.step # "load" /\ UNCHANGED <<linked, connections, unsure>>
      BY <1>9 DEF Disconnected, Ended
    <2>2. ASSUME Loads(e) PROVE ListInv'
      BY <1>2, <2>1, <2>2, ReadsAgain DEF Loads
    <2>3. ASSUME Ended(e, "disconnect", "disconnect", {"failed"}), Swap(e, {}) PROVE ListInv'
      <3>1. ~Reads(e)
        BY <2>3 DEF Ended, Reads
      <3> QED BY <2>1, <2>3, <3>1, GoesAway
    <2> QED BY <1>9, <2>2, <2>3 DEF Disconnected
  <1> QED BY <1>1, <1>3, <1>4, <1>5, <1>6, <1>7, <1>8, <1>9

LEMMA ChainSteps ==
    ASSUME clicks \in Nat
    PROVE  \A job, step, b, ids : /\ Chain(job, step, b, ids).step = step
                                  /\ Chain(job, step, b, ids).phase = "sent"
  BY DEF Chain

LEMMA ClicksList ==
    ASSUME ChainsOK, ListInv, BanksClicks
    PROVE  ListInv'
  <1>1. UNCHANGED <<linked, connections, unsure>> /\ clicks \in Nat
    BY DEF BanksClicks, SyncOne, AskDisconnect, SyncAll, CancelDisconnect, ConfirmDisconnect, ChainsOK
  <1>2. ASSUME NEW c, Starts(c), c.step # "load" PROVE ListInv'
    <2> DEFINE new == {c}
    <2>1. chains' = chains \cup new /\ \A d \in new : d.step = "load" => d.phase = "sent"
      BY <1>2 DEF Starts
    <2> HIDE DEF new
    <2> QED BY <1>1, <2>1, Joining
  <1>3. ASSUME UNCHANGED chains PROVE ListInv'
    BY <1>1, <1>3, Stays
  <1>4. ASSUME NEW b \in Banks, SyncOne(b) PROVE ListInv'
    BY <1>1, <1>2, <1>4, ChainSteps DEF SyncOne
  <1>5. ASSUME NEW b \in Banks, AskDisconnect(b) PROVE ListInv'
    BY <1>3, <1>5 DEF AskDisconnect
  <1>6. ASSUME CancelDisconnect PROVE ListInv'
    BY <1>3, <1>6 DEF CancelDisconnect
  <1>7. ASSUME ConfirmDisconnect PROVE ListInv'
    BY <1>1, <1>2, <1>3, <1>7, ChainSteps DEF ConfirmDisconnect
  <1>8. ASSUME NEW ids \in SUBSET Banks, SyncAll(ids) PROVE ListInv'
    <2>1. PICK new : chains' = chains \cup new /\ \A d \in new : d.step = "load" => d.phase = "sent"
      <3>1. CASE selectedProvider = "plaid"
        <4> DEFINE new == {Chain("syncAll", "parts", NoBank, {})} \cup {Chain("part", "sync", b, {}) : b \in ids}
        <4>1. \A d \in new : d.step # "load"
          BY <1>1, ChainSteps
        <4>2. chains' = chains \cup new
          BY <1>8, <3>1 DEF SyncAll
        <4> HIDE DEF new
        <4> QED BY <4>1, <4>2
      <3>2. CASE selectedProvider # "plaid"
        <4>1. PICK b \in ids : chains' = chains \cup {Chain("syncAll", "sync", b, ids \ {b})}
          BY <1>8, <3>2 DEF SyncAll
        <4> DEFINE new == {Chain("syncAll", "sync", b, ids \ {b})}
        <4>2. \A d \in new : d.step # "load"
          BY <1>1, ChainSteps
        <4>3. chains' = chains \cup new
          BY <4>1
        <4> HIDE DEF new
        <4> QED BY <4>2, <4>3
      <3> QED BY <3>1, <3>2
    <2> QED BY <1>1, <2>1, Joining
  <1> QED BY <1>4, <1>5, <1>6, <1>7, <1>8 DEF BanksClicks

-----------------------------------------------------------------------------
(* Teller's own steps, and Plaid's.                                          *)
LEMMA TellerLists == TellerInv /\ ListInv /\ [TellerNext]_tellerLinksVars => ListInv'
  <1> SUFFICES ASSUME TellerInv, ListInv, [TellerNext]_tellerLinksVars PROVE ListInv'
    OBVIOUS
  <1> USE DEF banksVars, pageList
  <1>1. ChainsOK /\ clicks \in Nat
    BY DEF TellerInv, LinksInv, ChainsOK
  <1>2. \A e \in chains : IsChain(e)
    BY <1>1 DEF ChainsOK
  <1>3. CASE UNCHANGED tellerLinksVars
    BY <1>3, Stays DEF tellerLinksVars
  <1>4. ASSUME BanksCalls PROVE ListInv'
    BY <1>1, <1>4, BanksLists
  <1>5. ASSUME TellerClicks PROVE ListInv'
    BY <1>1, <1>5, ClicksList DEF TellerClicks
  <1>6. ASSUME ScriptLoads \/ ScriptFails \/ WindowExit \/ Unmount PROVE ListInv'
    BY <1>6, Stays DEF ScriptLoads, ScriptFails, WindowExit, Unmount
  <1>7. ASSUME WindowSuccess PROVE ListInv'
    <2> DEFINE f == Chain("reauth", "store", connectionIdRef, {tellerWindow})
               d == [f EXCEPT !.no = MaxClicks + logins']
    <2>1. IsChain(f) /\ f.step = "store"
      BY <1>1, ChainIsChain
    <2> HIDE DEF f
    <2>2. d.step = "store"
      BY <2>1 DEF IsChain
    <2>3. chains' = chains \cup {d} /\ UNCHANGED <<linked, connections, unsure>>
      BY <1>7 DEF WindowSuccess, f
    <2> HIDE DEF d
    <2> DEFINE new == {d}
    <2>4. chains' = chains \cup new /\ \A c \in new : c.step = "load" => c.phase = "sent"
      BY <2>2, <2>3
    <2> HIDE DEF new
    <2> QED BY <2>3, <2>4, Joining
  <1>8. ASSUME NEW e \in chains, SyncOneNeedsLogin(e) \/ StoreFails(e) PROVE ListInv'
    <2>1. ~Reads(e) /\ e.step # "load" /\ Swap(e, {}) /\ UNCHANGED <<linked, connections, unsure>>
      BY <1>8 DEF SyncOneNeedsLogin, StoreFails, Ended, Reads
    <2> QED BY <2>1, GoesAway
  <1>9. ASSUME NEW e \in chains, Stored(e) PROVE ListInv'
    <2>1. e.step = "store" /\ e.job = "reauth" /\ UNCHANGED <<linked, connections, unsure>> /\ IsChain(e)
      BY <1>2, <1>9 DEF Stored, Ended
    <2>2. CASE Swap(e, {RetryOf(e)})
      BY <2>1, <2>2, ReadsAgain
    <2>3. CASE Swap(e, {[Step(e, "sync") EXCEPT !.bank = pendingReauth]})
      <3> DEFINE f == Step(e, "sync")
                 d == [f EXCEPT !.bank = pendingReauth]
      <3>1. IsChain(f) /\ f.step = "sync" /\ f.job = "reauth"
        BY <2>1, StepForms
      <3> HIDE DEF f
      <3>2. d.step = "sync" /\ d.job = "reauth"
        BY <3>1 DEF IsChain
      <3>3. chains' = (chains \ {e}) \cup {d}
        BY <2>3 DEF Swap, f
      <3> HIDE DEF d
      <3>4. Reads(d)
        BY <3>2 DEF Reads
      <3> QED BY <2>1, <3>2, <3>3, <3>4, TurnsInto
    <2> QED BY <1>9, <2>2, <2>3 DEF Stored
  <1>10. ASSUME NEW e \in chains, ReauthSynced(e) PROVE ListInv'
    <2>1. e.step = "sync" /\ UNCHANGED <<linked, connections, unsure>> /\ IsChain(e)
      BY <1>2, <1>10 DEF ReauthSynced, Ended
    <2> QED BY <1>10, <2>1, ReadsAgain DEF ReauthSynced
  <1>11. ASSUME NEW e \in chains, ReauthShown(e) \/ \E populated \in BOOLEAN : RetryShown(e, populated)
         PROVE  ListInv'
    <2>1. Shown(e, cardLoading) /\ Swap(e, {}) /\ linked' = linked
      BY <1>11 DEF ReauthShown, RetryShown
    <2> QED BY <2>1, ShownAndGone
  <1>12. ASSUME NEW n \in timers, TimerFires(n) PROVE ListInv'
    <2> DEFINE f == Chain("retry", "load", NoBank, {})
               d == [f EXCEPT !.no = n]
    <2>1. IsChain(f) /\ f.phase = "sent"
      BY <1>1, ChainIsChain, ChainSteps
    <2> HIDE DEF f
    <2>2. d.phase = "sent"
      BY <2>1 DEF IsChain
    <2>3. chains' = chains \cup {d} /\ UNCHANGED <<linked, connections, unsure>>
      BY <1>12 DEF TimerFires, f
    <2> HIDE DEF d
    <2> DEFINE new == {d}
    <2>4. chains' = chains \cup new /\ \A c \in new : c.step = "load" => c.phase = "sent"
      BY <2>2, <2>3
    <2> HIDE DEF new
    <2> QED BY <2>3, <2>4, Joining
  <1> QED BY <1>3, <1>4, <1>5, <1>6, <1>7, <1>8, <1>9, <1>10, <1>11, <1>12 DEF TellerNext

LEMMA LinkLists ==
    ASSUME ChainsOK, ListInv, NEW e \in chains,
           \/ ProviderSelected(e) \/ SelectFails(e) \/ TokenArrives(e) \/ TokenFails(e)
           \/ Exchanged(e) \/ LinkListed(e) \/ LinkSynced(e) \/ LinkShown(e)
    PROVE  ListInv'
  <1> USE DEF pageList
  <1>1. IsChain(e) /\ clicks \in Nat
    BY DEF ChainsOK
  <1>2. ASSUME SelectFails(e) \/ TokenArrives(e) \/ TokenFails(e) PROVE ListInv'
    <2>1. ~Reads(e) /\ e.step # "load" /\ Swap(e, {}) /\ UNCHANGED <<linked, connections, unsure>>
      BY <1>2 DEF SelectFails, TokenArrives, TokenFails, Ended, Reads
    <2> QED BY <2>1, GoesAway
  <1>3. ASSUME ProviderSelected(e) PROVE ListInv'
    <2> DEFINE first == Chain("list", "load", NoBank, {})
               more == IF pendingConnect THEN {Chain("connect", "token", NoBank, {})} ELSE {}
               new == {first} \cup more
    <2>1. first.step = "load" /\ first.phase = "sent" /\ \A c \in more : c.step = "token"
      BY <1>1, ChainSteps
    <2>2. chains' = (chains \ {e}) \cup new /\ UNCHANGED <<linked, connections, unsure>> /\ e.step # "load"
      BY <1>3 DEF ProviderSelected, Swap, Ended
    <2> HIDE DEF first, more
    <2>3. first \in new /\ \A c \in new : c.step = "load" => c.phase = "sent"
      BY <2>1
    <2>4. Reads(first)
      BY <2>1 DEF Reads
    <2> HIDE DEF new
    <2> QED BY <2>2, <2>3, <2>4, Turning
  <1>4. ASSUME Exchanged(e) PROVE ListInv'
    <2>1. e.step # "load" /\ UNCHANGED <<linked, connections, unsure>>
      BY <1>4 DEF Exchanged, Ended
    <2>2. CASE Loads(e)
      BY <1>1, <2>1, <2>2, ReadsAgain DEF Loads
    <2>3. ASSUME Ended(e, "link", "exchange", {"failed"}), Swap(e, {}) PROVE ListInv'
      <3>1. ~Reads(e)
        BY <2>3 DEF Ended, Reads
      <3> QED BY <2>1, <2>3, <3>1, GoesAway
    <2> QED BY <1>4, <2>2, <2>3 DEF Exchanged
  <1>5. ASSUME LinkListed(e) PROVE ListInv'
    <2>1. Shown(e, cardLoading) /\ linked' = linked
      BY <1>5 DEF LinkListed
    <2>2. CASE Swap(e, {})
      BY <2>1, <2>2, ShownAndGone
    <2>3. CASE Swap(e, {[Step(e, "sync") EXCEPT !.left = {Head(e.got)}]})
      <3> DEFINE f == Step(e, "sync")
                 d == [f EXCEPT !.left = {Head(e.got)}]
                 new == {d}
      <3>1. IsChain(f) /\ f.step = "sync"
        BY <1>1, StepForms
      <3>2. chains' = (chains \ {e}) \cup new
        BY <2>3 DEF Swap
      <3> HIDE DEF f
      <3>3. d.step = "sync"
        BY <3>1 DEF IsChain
      <3> HIDE DEF d
      <3>4. \A c \in new : c.step # "load"
        BY <3>3
      <3> HIDE DEF new
      <3> QED BY <2>1, <3>2, <3>4, Showing
    <2> QED BY <1>5, <2>2, <2>3 DEF LinkListed
  <1>6. ASSUME LinkSynced(e) PROVE ListInv'
    BY <1>1, <1>6, ReadsAgain DEF LinkSynced, Loads, Ended
  <1>7. ASSUME LinkShown(e) PROVE ListInv'
    BY <1>7, ShownAndGone DEF LinkShown
  <1> QED BY <1>2, <1>3, <1>4, <1>5, <1>6, <1>7

LEMMA PlaidLists == LinksInv /\ ListInv /\ [PlaidNext]_plaidLinksVars => ListInv'
  <1> SUFFICES ASSUME LinksInv, ListInv, [PlaidNext]_plaidLinksVars PROVE ListInv'
    OBVIOUS
  <1> USE DEF banksVars, pageList
  <1>1. ChainsOK /\ clicks \in Nat
    BY DEF LinksInv, ChainsOK
  <1>2. CASE UNCHANGED plaidLinksVars
    BY <1>2, Stays DEF plaidLinksVars
  <1>3. ASSUME BanksClicks \/ BanksCalls PROVE ListInv'
    BY <1>1, <1>3, ClicksList, BanksLists
  <1>4. ASSUME LinkReady \/ LinkExit PROVE ListInv'
    BY <1>4, Stays DEF LinkReady, LinkExit
  <1>5. ASSUME NEW c, Starts(c), c.step # "load", UNCHANGED <<linked, connections, unsure>> PROVE ListInv'
    <2> DEFINE new == {c}
    <2>1. chains' = chains \cup new /\ \A d \in new : d.step = "load" => d.phase = "sent"
      BY <1>5 DEF Starts
    <2> HIDE DEF new
    <2> QED BY <1>5, <2>1, Joining
  <1>6. ASSUME LaunchPlaidLink PROVE ListInv'
    BY <1>1, <1>5, <1>6, ChainSteps DEF LaunchPlaidLink
  <1>7. ASSUME LinkSuccess PROVE ListInv'
    BY <1>1, <1>5, <1>7, ChainSteps DEF LinkSuccess
  <1>8. ASSUME NEW e \in chains,
               \/ ProviderSelected(e) \/ SelectFails(e) \/ TokenArrives(e) \/ TokenFails(e)
               \/ Exchanged(e) \/ LinkListed(e) \/ LinkSynced(e) \/ LinkShown(e)
        PROVE  ListInv'
    BY <1>1, <1>8, LinkLists
  <1> QED BY <1>2, <1>3, <1>4, <1>6, <1>7, <1>8 DEF PlaidNext

LEMMA NothingListed == unsure = TRUE /\ (\A e \in chains : e.phase = "sent") => ListInv
  BY DEF ListInv, AnsweredOK, ListedOK, Answered

\* The list of Teller's page settles to the server's: when no chain is under
\* way the page shows the banks that are linked, unless the last list failed
\* or was overtaken, or a change whose answer was lost came in between
\* (useTellerLinkFlow: every path that changed something reads again).
THEOREM TellerBanksSettle == TellerSpec => []BanksSettle
  <1>1. TellerInit => TellerInv /\ ListInv
    <2>1. TellerInit => unsure = TRUE /\ \A e \in chains : e.phase = "sent"
      BY DEF TellerInit, BanksInit
    <2> QED BY <2>1, InitInv, NothingListed
  <1>2. TellerInv /\ ListInv /\ [TellerNext]_tellerLinksVars => (TellerInv /\ ListInv)'
    BY NextInv, TellerLists
  <1>3. ListInv => BanksSettle
    BY DEF ListInv, ListedOK, BanksSettle
  <1> QED BY <1>1, <1>2, <1>3, PTL DEF TellerSpec

\* So does the list of Plaid's page, which also reads it before and after the
\* first sync of a bank that was linked (usePlaidConnections, usePlaidLinkFlow).
THEOREM PlaidBanksSettle == PlaidSpec => []BanksSettle
  <1>1. PlaidInit => LinksInv /\ ListInv
    <2>1. PlaidInit => unsure = TRUE /\ \A e \in chains : e.phase = "sent"
      BY DEF PlaidInit, BanksInit
    <2> QED BY <2>1, PlaidInitLinks, NothingListed
  <1>2. LinksInv /\ ListInv /\ [PlaidNext]_plaidLinksVars => (LinksInv /\ ListInv)'
    BY PlaidNextLinks, PlaidLists
  <1>3. ListInv => BanksSettle
    BY DEF ListInv, ListedOK, BanksSettle
  <1> QED BY <1>1, <1>2, <1>3, PTL DEF PlaidSpec

-----------------------------------------------------------------------------
(* Logins.                                                                   *)
IsStore(e) == e.job = "reauth" /\ e.step = "store"
\* While no open() crossed another, one of the window, the open() that waits
\* for the script and the store is under way, for the bank the ref names.
WindowOK ==
    ~crossed => /\ tellerWindow # NoBank => connectionIdRef = tellerWindow /\ ~Storing /\ ~pendingOpen
                /\ Storing => ~pendingOpen
                /\ \A e \in chains : IsStore(e) => e.left = {e.bank} /\ e.bank # NoBank

\* Every store was one, with its bank.
StoresKept ==
    \A d \in chains' : IsStore(d) => \E c \in chains : /\ IsStore(c) /\ d.left = c.left
                                                       /\ c.bank # NoBank => d.bank = c.bank

LEMMA StoresStand ==
    ASSUME WindowOK, StoresKept, UNCHANGED <<tellerWindow, connectionIdRef, pendingOpen, crossed>>
    PROVE  WindowOK'
  <1>1. Storing' => Storing
    BY DEF StoresKept, Storing, IsStore
  <1>2. ASSUME ~crossed, NEW d \in chains', IsStore(d) PROVE d.left = {d.bank} /\ d.bank # NoBank
    <2>1. PICK c \in chains : IsStore(c) /\ d.left = c.left /\ (c.bank # NoBank => d.bank = c.bank)
      BY <1>2 DEF StoresKept
    <2> QED BY <1>2, <2>1 DEF WindowOK
  <1> QED BY <1>1, <1>2 DEF WindowOK

LEMMA StoresSwap ==
    ASSUME NEW e \in chains, NEW new, Swap(e, new), \A d \in new : ~IsStore(d)
    PROVE  StoresKept
  BY DEF StoresKept, Swap

LEMMA StoreGoesOn ==
    ASSUME NEW e \in chains, NEW d, chains' = (chains \ {e}) \cup {d}, ~IsStore(d)
    PROVE  StoresKept
  BY DEF StoresKept

LEMMA StoresLeave ==
    ASSUME NEW e \in chains, Swap(e, {})
    PROVE  StoresKept
  BY DEF StoresKept, Swap

LEMMA StoresJoin ==
    ASSUME NEW new, chains' = chains \cup new, \A d \in new : ~IsStore(d)
    PROVE  StoresKept
  BY DEF StoresKept

LEMMA StoresJoinedBy ==
    ASSUME NEW d, chains' = chains \cup {d}, ~IsStore(d)
    PROVE  StoresKept
  BY DEF StoresKept

LEMMA StoresSame == UNCHANGED chains => StoresKept
  BY DEF StoresKept

LEMMA StoreTurns ==
    ASSUME NEW e \in chains, NEW late \in SUBSET chains, \A c \in late : IsChain(c),
           NEW d, d.job = e.job, d.step = e.step, d.left = e.left, e.bank # NoBank => d.bank = e.bank,
           chains' = (chains \ (late \cup {e})) \cup NotAlone(late) \cup {d}
    PROVE  StoresKept
  <1>1. ASSUME NEW x \in NotAlone(late)
        PROVE  \E c \in late : x.job = c.job /\ x.step = c.step /\ x.bank = c.bank /\ x.left = c.left
    <2>1. PICK c \in late : x = [c EXCEPT !.alone = FALSE]
      BY DEF NotAlone
    <2> QED BY <2>1 DEF IsChain
  <1>2. SUFFICES ASSUME NEW x \in chains', IsStore(x)
                 PROVE  \E c \in chains : /\ IsStore(c) /\ x.left = c.left
                                          /\ c.bank # NoBank => x.bank = c.bank
    BY DEF StoresKept
  <1>3. CASE x \in NotAlone(late)
    BY <1>1, <1>2, <1>3 DEF IsStore
  <1>4. CASE x = d
    BY <1>2, <1>4 DEF IsStore
  <1>5. CASE x \in chains
    BY <1>2, <1>5
  <1> QED BY <1>2, <1>3, <1>4, <1>5

LEMMA CallsKeepStores ==
    ASSUME ChainsOK, NEW e \in chains, CallReached(e) \/ CallBreaks(e)
    PROVE  StoresKept
  <1>1. IsChain(e) /\ Answered \subseteq chains /\ \A c \in Answered : IsChain(c)
    BY DEF ChainsOK, Answered
  <1>2. ASSUME NEW d, d.job = e.job, d.step = e.step, d.left = e.left, e.bank # NoBank => d.bank = e.bank,
               chains' = (chains \ {e}) \cup {d}
        PROVE  StoresKept
    <2>1. CASE IsStore(e)
      BY <1>2, <2>1 DEF StoresKept
    <2>2. CASE ~IsStore(e)
      BY <1>2, <2>2 DEF StoresKept, IsStore
    <2> QED BY <2>1, <2>2
  <1>3. ASSUME NEW p, Swap(e, {[e EXCEPT !.phase = p]}) PROVE StoresKept
    <2> DEFINE d == [e EXCEPT !.phase = p]
    <2>1. d.job = e.job /\ d.step = e.step /\ d.left = e.left /\ d.bank = e.bank
      BY <1>1 DEF IsChain
    <2>2. chains' = (chains \ {e}) \cup {d}
      BY <1>3 DEF Swap
    <2> HIDE DEF d
    <2> QED BY <1>2, <2>1, <2>2
  <1>4. ASSUME CallReached(e), e.step = "load" PROVE StoresKept
    <2> DEFINE d == [e EXCEPT !.phase = "done", !.got = linked, !.alone = Answered = {}]
    <2>1. d.job = e.job /\ d.step = e.step /\ d.left = e.left /\ d.bank = e.bank
      BY <1>1 DEF IsChain
    <2>2. chains' = (chains \ (Answered \cup {e})) \cup NotAlone(Answered) \cup {d}
      BY <1>4 DEF CallReached
    <2> HIDE DEF d
    <2> QED BY <1>1, <2>1, <2>2, StoreTurns
  <1>5. ASSUME CallReached(e), e.step # "load" PROVE StoresKept
    <2>1. CASE e.step \in {"exchange", "store"} /\ e.bank = NoBank
      <3>1. PICK b \in Banks : Swap(e, {[e EXCEPT !.phase = "done", !.bank = b]})
        BY <1>5, <2>1 DEF CallReached
      <3> DEFINE d == [e EXCEPT !.phase = "done", !.bank = b]
      <3>2. d.job = e.job /\ d.step = e.step /\ d.left = e.left
        BY <1>1 DEF IsChain
      <3>3. chains' = (chains \ {e}) \cup {d}
        BY <3>1 DEF Swap
      <3> HIDE DEF d
      <3> QED BY <1>2, <2>1, <3>2, <3>3
    <2>2. CASE ~(e.step \in {"exchange", "store"} /\ e.bank = NoBank)
      <3>1. \E p : Swap(e, {[e EXCEPT !.phase = p]})
        BY <1>5, <2>2 DEF CallReached
      <3> QED BY <1>3, <3>1
    <2> QED BY <2>1, <2>2
  <1>6. ASSUME CallBreaks(e) PROVE StoresKept
    <2> DEFINE late == IF (e.phase = "done" /\ e.step \in {"disconnect", "exchange", "store"})
                          \/ e.step = "load"
                       THEN Answered \ {e} ELSE {}
               d == [e EXCEPT !.phase = "failed"]
    <2>1. chains' = (chains \ (late \cup {e})) \cup NotAlone(late) \cup {d}
      BY <1>6 DEF CallBreaks
    <2>2. d.job = e.job /\ d.step = e.step /\ d.left = e.left /\ d.bank = e.bank
      BY <1>1 DEF IsChain
    <2>3. late \in SUBSET chains /\ \A c \in late : IsChain(c)
      BY <1>1
    <2> HIDE DEF late, d
    <2> QED BY <2>1, <2>2, <2>3, StoreTurns
  <1> QED BY <1>4, <1>5, <1>6

LEMMA BanksKeepStores ==
    ASSUME ChainsOK, BanksCalls
    PROVE  StoresKept
  <1>1. PICK e \in chains :
            \/ CallReached(e) \/ CallBreaks(e) \/ ListShown(e)
            \/ SyncedOne(e) \/ SyncOneFails(e) \/ SyncOneShown(e)
            \/ PartSynced(e) \/ PartShown(e) \/ SyncAllGoesOn(e) \/ SyncAllShown(e)
            \/ Disconnected(e) \/ DisconnectShown(e)
    BY DEF BanksCalls
  <1>2. IsChain(e)
    BY DEF ChainsOK
  <1>3. ASSUME Loads(e) PROVE StoresKept
    <2> DEFINE new == {Step(e, "load")}
    <2>1. \A d \in new : ~IsStore(d)
      BY <1>2, StepForms DEF IsStore
    <2>2. Swap(e, new)
      BY <1>3 DEF Loads
    <2> HIDE DEF new
    <2> QED BY <2>1, <2>2, StoresSwap
  <1>4. CASE CallReached(e) \/ CallBreaks(e)
    BY <1>4, CallsKeepStores
  <1>5. CASE \/ ListShown(e) \/ SyncOneFails(e) \/ SyncOneShown(e) \/ PartShown(e) \/ SyncAllShown(e)
             \/ DisconnectShown(e)
    <2>1. Swap(e, {})
      BY <1>5 DEF ListShown, SyncOneFails, SyncOneShown, PartShown, SyncAllShown, DisconnectShown
    <2> QED BY <2>1, StoresLeave
  <1>6. CASE SyncedOne(e) \/ PartSynced(e) \/ Disconnected(e)
    BY <1>3, <1>6, StoresLeave DEF SyncedOne, PartSynced, Disconnected
  <1>7. CASE SyncAllGoesOn(e)
    <2>1. ASSUME NEW b \in e.left, Swap(e, {[Step(e, "sync") EXCEPT !.bank = b, !.left = @ \ {b}]})
          PROVE  StoresKept
      <3> DEFINE f == Step(e, "sync")
                 d == [f EXCEPT !.bank = b, !.left = @ \ {b}]
                 new == {d}
      <3>1. IsChain(f) /\ f.step = "sync"
        BY <1>2, StepForms
      <3>2. d.step = "sync"
        BY <3>1 DEF IsChain
      <3>3. Swap(e, new)
        BY <2>1
      <3> HIDE DEF d
      <3>4. \A c \in new : ~IsStore(c)
        BY <3>2 DEF IsStore
      <3> HIDE DEF new
      <3> QED BY <3>3, <3>4, StoresSwap
    <2> QED BY <1>3, <1>7, <2>1, StoresLeave DEF SyncAllGoesOn
  <1> QED BY <1>1, <1>4, <1>5, <1>6, <1>7

LEMMA ClicksKeepStores ==
    ASSUME ChainsOK, BanksClicks
    PROVE  StoresKept
  <1>1. clicks \in Nat
    BY DEF ChainsOK
  <1>2. ASSUME NEW c, Starts(c), c.step # "store" PROVE StoresKept
    BY <1>2, StoresJoinedBy DEF Starts, IsStore
  <1>3. ASSUME NEW ids \in SUBSET Banks, SyncAll(ids) PROVE StoresKept
    <2>1. CASE selectedProvider = "plaid"
      <3> DEFINE new == {Chain("syncAll", "parts", NoBank, {})} \cup {Chain("part", "sync", b, {}) : b \in ids}
      <3>1. \A d \in new : ~IsStore(d)
        BY <1>1, ChainIsChain DEF IsStore
      <3>2. chains' = chains \cup new
        BY <1>3, <2>1 DEF SyncAll
      <3> HIDE DEF new
      <3> QED BY <3>1, <3>2, StoresJoin
    <2>2. CASE selectedProvider # "plaid"
      <3>1. PICK b \in ids : chains' = chains \cup {Chain("syncAll", "sync", b, ids \ {b})}
        BY <1>3, <2>2 DEF SyncAll
      <3> DEFINE new == {Chain("syncAll", "sync", b, ids \ {b})}
      <3>2. \A d \in new : ~IsStore(d)
        BY <1>1, ChainIsChain DEF IsStore
      <3>3. chains' = chains \cup new
        BY <3>1
      <3> HIDE DEF new
      <3> QED BY <3>2, <3>3, StoresJoin
    <2> QED BY <2>1, <2>2
  <1>4. ASSUME NEW b \in Banks, SyncOne(b) PROVE StoresKept
    BY <1>1, <1>2, <1>4, ChainIsChain DEF SyncOne
  <1>5. ASSUME NEW b \in Banks, AskDisconnect(b) PROVE StoresKept
    BY <1>5, StoresSame DEF AskDisconnect
  <1>6. ASSUME CancelDisconnect PROVE StoresKept
    BY <1>6, StoresSame DEF CancelDisconnect
  <1>7. ASSUME ConfirmDisconnect PROVE StoresKept
    BY <1>1, <1>2, <1>7, ChainIsChain, StoresSame DEF ConfirmDisconnect
  <1> QED BY <1>3, <1>4, <1>5, <1>6, <1>7 DEF BanksClicks

LEMMA LoginsStand == TellerInv /\ WindowOK /\ [TellerNext]_tellerLinksVars => WindowOK'
  <1> SUFFICES ASSUME TellerInv, WindowOK, [TellerNext]_tellerLinksVars PROVE WindowOK'
    OBVIOUS
  <1> USE DEF banksVars, tellerVars, reauthVars
  <1>1. ChainsOK /\ clicks \in Nat /\ \A e \in chains : IsChain(e)
    BY DEF TellerInv, LinksInv, ChainsOK
  <1>2. CASE UNCHANGED tellerLinksVars
    BY <1>2, StoresSame, StoresStand DEF tellerLinksVars
  <1>3. CASE BanksCalls /\ UNCHANGED tellerVars
    BY <1>1, <1>3, BanksKeepStores, StoresStand
  <1>4. CASE TellerClicks
    BY <1>1, <1>4, ClicksKeepStores, StoresStand DEF TellerClicks
  <1>5. CASE ScriptFails
    BY <1>5, StoresSame, StoresStand DEF ScriptFails
  <1>6. ASSUME ScriptLoads \/ WindowExit \/ Unmount PROVE WindowOK'
    <2>1. Storing' = Storing /\ UNCHANGED <<chains, crossed>>
      BY <1>6 DEF ScriptLoads, WindowExit, Unmount, Storing
    <2>2. CASE ScriptLoads
      BY <2>1, <2>2 DEF ScriptLoads, WindowOK
    <2>3. CASE WindowExit
      BY <2>1, <2>3 DEF WindowExit, WindowOK
    <2>4. CASE Unmount
      BY <2>1, <2>4 DEF Unmount, WindowOK
    <2> QED BY <1>6, <2>2, <2>3, <2>4
  <1>7. CASE WindowSuccess
    <2> DEFINE f == Chain("reauth", "store", connectionIdRef, {tellerWindow})
               d == [f EXCEPT !.no = MaxClicks + logins']
    <2>1. IsChain(f) /\ f.bank = connectionIdRef /\ f.left = {tellerWindow}
      BY <1>1, ChainIsChain DEF Chain
    <2> HIDE DEF f
    <2>2. d.bank = connectionIdRef /\ d.left = {tellerWindow}
      BY <2>1 DEF IsChain
    <2>3. chains' = chains \cup {d} /\ UNCHANGED <<connectionIdRef, pendingOpen, crossed>>
          /\ tellerWindow # NoBank /\ tellerWindow' = NoBank
      BY <1>7 DEF WindowSuccess, f
    <2> HIDE DEF d
    <2>4. ASSUME ~crossed PROVE ~pendingOpen /\ connectionIdRef = tellerWindow
      BY <2>3, <2>4 DEF WindowOK
    <2>5. ASSUME ~crossed, NEW e \in chains', IsStore(e) PROVE e.left = {e.bank} /\ e.bank # NoBank
      BY <2>2, <2>3, <2>4, <2>5 DEF WindowOK
    <2> QED BY <2>3, <2>4, <2>5 DEF WindowOK
  <1>8. ASSUME NEW e \in chains, SyncOneNeedsLogin(e) PROVE WindowOK'
    <2>1. chains' = chains \ {e} /\ connectionIdRef' = e.bank
      BY <1>8 DEF SyncOneNeedsLogin, Swap
    <2>2. Storing' => Storing
      BY <2>1 DEF Storing
    <2>3. ~crossed' => ~crossed /\ tellerWindow = NoBank /\ ~Storing /\ ~pendingOpen
      BY <1>8 DEF SyncOneNeedsLogin
    <2>4. (tellerWindow' = tellerWindow) \/ (pendingOpen' = pendingOpen /\ (tellerWindow = NoBank => tellerWindow' = e.bank))
      BY <1>8 DEF SyncOneNeedsLogin
    <2> QED BY <2>1, <2>2, <2>3, <2>4 DEF WindowOK
  <1>9. ASSUME NEW e \in chains, Stored(e) \/ StoreFails(e) PROVE WindowOK'
    <2>1. UNCHANGED <<tellerWindow, pendingOpen, crossed>> /\ e.job = "reauth" /\ e.step = "store"
      BY <1>9 DEF Stored, StoreFails, Ended
    <2>2. Storing
      BY <2>1 DEF Storing
    <2>3. ASSUME NEW d, ~IsStore(d), Swap(e, {d}) PROVE \A c \in chains' : IsStore(c) => c \in chains
      BY <2>3 DEF Swap
    <2>4. \A c \in chains' : IsStore(c) => c \in chains
      <3>1. CASE Swap(e, {})
        BY <3>1 DEF Swap
      <3>2. CASE Swap(e, {RetryOf(e)})
        <4>1. ~IsStore(RetryOf(e))
          BY <1>1, StepForms DEF IsStore
        <4> QED BY <2>3, <3>2, <4>1
      <3>3. CASE Swap(e, {[Step(e, "sync") EXCEPT !.bank = pendingReauth]})
        <4> DEFINE f == Step(e, "sync")
                   d == [f EXCEPT !.bank = pendingReauth]
        <4>1. IsChain(f) /\ f.step = "sync"
          BY <1>1, StepForms
        <4> HIDE DEF f
        <4>2. ~IsStore(d)
          BY <4>1 DEF IsChain, IsStore
        <4>3. Swap(e, {d})
          BY <3>3 DEF f
        <4> HIDE DEF d
        <4> QED BY <2>3, <4>2, <4>3
      <3> QED BY <1>9, <3>1, <3>2, <3>3 DEF Stored, StoreFails
    <2> QED BY <2>1, <2>2, <2>4 DEF WindowOK
  <1>10. ASSUME NEW e \in chains, ReauthSynced(e) PROVE WindowOK'
    <2>1. UNCHANGED <<tellerWindow, connectionIdRef, pendingOpen, crossed>>
      BY <1>10 DEF ReauthSynced
    <2>2. ASSUME NEW d, Swap(e, {d}), d.step = "load" PROVE StoresKept
      <3>1. chains' = (chains \ {e}) \cup {d} /\ ~IsStore(d)
        BY <2>2 DEF Swap, IsStore
      <3> QED BY <3>1, StoreGoesOn
    <2>3. StoresKept
      <3>1. Step(e, "load").step = "load" /\ RetryOf(e).step = "load"
        BY <1>1, StepForms
      <3> QED BY <1>10, <2>2, <3>1 DEF ReauthSynced
    <2> QED BY <2>1, <2>3, StoresStand
  <1>11. ASSUME NEW e \in chains, ReauthShown(e) \/ \E populated \in BOOLEAN : RetryShown(e, populated)
         PROVE  WindowOK'
    <2>1. Swap(e, {}) /\ UNCHANGED <<tellerWindow, connectionIdRef, pendingOpen, crossed>>
      BY <1>11 DEF ReauthShown, RetryShown
    <2> QED BY <2>1, StoresLeave, StoresStand
  <1>12. ASSUME NEW n \in timers, TimerFires(n) PROVE WindowOK'
    <2> DEFINE f == Chain("retry", "load", NoBank, {})
               d == [f EXCEPT !.no = n]
    <2>1. IsChain(f) /\ f.step = "load"
      BY <1>1, ChainIsChain
    <2> HIDE DEF f
    <2>2. d.step = "load"
      BY <2>1 DEF IsChain
    <2>3. chains' = chains \cup {d} /\ UNCHANGED <<tellerWindow, connectionIdRef, pendingOpen, crossed>>
      BY <1>12 DEF TimerFires, f
    <2> HIDE DEF d
    <2>4. StoresKept
      BY <2>2, <2>3, StoresJoinedBy DEF IsStore
    <2> QED BY <2>3, <2>4, StoresStand
  <1> QED BY <1>2, <1>3, <1>4, <1>5, <1>6, <1>7, <1>8, <1>9, <1>10, <1>11, <1>12 DEF TellerNext

\* A login is stored under the connection whose login was asked for, unless
\* another bank asked while the window, the script or the store was under
\* way (useTellerConnect: connectionIdRef, read when the window succeeds).
THEOREM LoginsStoredUnderTheirBank == TellerSpec => []StoredUnderItsBank
  <1>1. TellerInit => TellerInv /\ WindowOK
    <2>1. TellerInit => tellerWindow = NoBank /\ pendingOpen = FALSE /\ \A e \in chains : e.step = "load"
      BY DEF TellerInit, TellerParts
    <2> QED BY <2>1, InitInv DEF WindowOK, IsStore
  <1>2. TellerInv /\ WindowOK /\ [TellerNext]_tellerLinksVars => (TellerInv /\ WindowOK)'
    BY NextInv, LoginsStand
  <1>3. WindowOK => StoredUnderItsBank
    BY DEF WindowOK, StoredUnderItsBank, IsStore
  <1> QED BY <1>1, <1>2, <1>3, PTL DEF TellerSpec
=============================================================================
