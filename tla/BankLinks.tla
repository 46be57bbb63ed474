----------------------------- MODULE BankLinks ------------------------------
(* The banks of the accounts page, as far as Plaid's and Teller's hooks      *)
(* agree: the list of connections, the cards (ConnectionsList, BankCard) and *)
(* DisconnectModal.  What the user starts is a chain of calls; a chain that  *)
(* changed something ends by reading the list, and nothing keeps chains      *)
(* apart.  The accounts of a bank come with the list.                        *)
EXTENDS Naturals, Sequences, FiniteSets, SequencesExt

CONSTANTS
    Banks,          \* connection ids
    NoBank,
    MaxClicks       \* bound: chains started

ASSUME LinksAssumption == NoBank \notin Banks /\ MaxClicks \in Nat

VARIABLES
    linked, gone,           \* server: connections, newest first; those disconnected
    selectedProvider,
    connections,            \* the hook's list
    loading, syncingAll,
    cardLoading,            \* the cards whose own flag is set
    modal,                  \* DisconnectModal: its bank, and where it stands
    chains, clicks,
    unsure                  \* history: the last list failed or crossed another, or there was none

pageList == <<connections, loading, syncingAll, cardLoading, modal>>
banksVars == <<linked, gone, selectedProvider, pageList, chains, clicks, unsure>>

Linked == ToSet(linked)
NoModal == [bank |-> NoBank, is |-> "closed"]

Chain(job, step, b, ids) ==
    [no |-> clicks, job |-> job, step |-> step, phase |-> "sent", bank |-> b, left |-> ids,
     got |-> <<>>, alone |-> TRUE]
Step(e, step) == [e EXCEPT !.step = step, !.phase = "sent"]
Starts(e) == clicks < MaxClicks /\ clicks' = clicks + 1 /\ chains' = chains \cup {e}
Swap(e, new) == chains' = (chains \ {e}) \cup new
Ended(e, job, step, phases) == e \in chains /\ e.job = job /\ e.step = step /\ e.phase \in phases

(* The server does the call, or it fails before or after.  The answers of    *)
(* two lists that are on their way at once may come in either order.         *)
Answered == {e \in chains : e.step = "load" /\ e.phase = "done"}
NotAlone(E) == {[e EXCEPT !.alone = FALSE] : e \in E}
CallReached(e) ==
    /\ e \in chains /\ e.phase = "sent" /\ e.step # "parts"
    /\ CASE e.step = "load" ->
              /\ chains' = (chains \ (Answered \cup {e})) \cup NotAlone(Answered) \cup
                           {[e EXCEPT !.phase = "done", !.got = linked, !.alone = Answered = {}]}
              /\ UNCHANGED <<linked, gone>>
         [] e.step = "disconnect" ->
              /\ IF e.bank \in Linked
                 THEN /\ linked' = SelectSeq(linked, LAMBDA b : b # e.bank)
                      /\ Swap(e, {[e EXCEPT !.phase = "done"]})
                 ELSE Swap(e, {[e EXCEPT !.phase = "failed"]}) /\ UNCHANGED linked
              /\ gone' = gone \cup {e.bank}
         [] e.step \in {"exchange", "store"} /\ e.bank = NoBank ->
              \E b \in Banks \ (Linked \cup gone) :
                 /\ linked' = <<b>> \o linked
                 /\ Swap(e, {[e EXCEPT !.phase = "done", !.bank = b]})
                 /\ UNCHANGED gone
         [] OTHER -> Swap(e, {[e EXCEPT !.phase = "done"]}) /\ UNCHANGED <<linked, gone>>
    /\ UNCHANGED <<selectedProvider, pageList, clicks, unsure>>
CallBreaks(e) ==
    LET lost == e.phase = "done" /\ e.step \in {"disconnect", "exchange", "store"}
        late == IF lost \/ e.step = "load" THEN Answered \ {e} ELSE {}
    IN /\ e \in chains /\ e.phase \in {"sent", "done"} /\ e.step # "parts"
       /\ chains' = (chains \ (late \cup {e})) \cup NotAlone(late) \cup {[e EXCEPT !.phase = "failed"]}
       /\ unsure' = (unsure \/ lost)
       /\ UNCHANGED <<linked, gone, selectedProvider, pageList, clicks>>

(* The list is read, and its answer shown: Plaid's hook keeps the list when  *)
(* the call fails, Teller's empties it.  A card that goes forgets its flag.  *)
Loads(e) == Swap(e, {Step(e, "load")}) /\ loading' = TRUE
Lists(e) == IF e.phase = "done" THEN ToSet(e.got)
            ELSE IF selectedProvider = "plaid" THEN connections ELSE {}
Shown(e, cards) ==
    /\ e \in chains /\ e.step = "load" /\ e.phase \in {"done", "failed"}
    /\ connections' = Lists(e) /\ loading' = FALSE
    /\ cardLoading' = cards \cap Lists(e)
    /\ unsure' = ~(e.phase = "done" /\ e.alone)
ListShown(e) ==
    /\ e.job = "list" /\ Shown(e, cardLoading) /\ Swap(e, {})
    /\ UNCHANGED <<linked, gone, selectedProvider, syncingAll, modal, clicks>>

(* "Sync now" of a card.                                                     *)
SyncOne(b) ==
    /\ modal = NoModal /\ b \in connections \ cardLoading
    /\ Starts(Chain("syncOne", "sync", b, {})) /\ cardLoading' = cardLoading \cup {b}
    /\ UNCHANGED <<linked, gone, selectedProvider, connections, loading, syncingAll, modal, unsure>>
SyncedOne(e) ==
    /\ Ended(e, "syncOne", "sync", {"done"}) /\ Loads(e)
    /\ UNCHANGED <<linked, gone, selectedProvider, connections, syncingAll, cardLoading, modal,
                   clicks, unsure>>
SyncOneFails(e) ==
    /\ Ended(e, "syncOne", "sync", {"failed"}) /\ Swap(e, {})
    /\ cardLoading' = cardLoading \ {e.bank}
    /\ UNCHANGED <<linked, gone, selectedProvider, connections, loading, syncingAll, modal, clicks,
                   unsure>>
SyncOneShown(e) ==
    /\ e.job = "syncOne" /\ Shown(e, cardLoading \ {e.bank}) /\ Swap(e, {})
    /\ UNCHANGED <<linked, gone, selectedProvider, syncingAll, modal, clicks>>

(* "Sync all".  Plaid's hook runs a syncOne of every bank, all at once, and  *)
(* reads the list when the last has ended; Teller's syncs the banks that     *)
(* were not synced lately one after the other and stops at the first error.  *)
SyncAll(ids) ==
    /\ modal = NoModal /\ connections # {} /\ ~syncingAll /\ ~loading
    /\ ids \subseteq connections /\ ids # {}
    /\ clicks < MaxClicks /\ clicks' = clicks + 1 /\ syncingAll' = TRUE
    /\ IF selectedProvider = "plaid"
       THEN /\ ids = connections
            /\ chains' = chains \cup {Chain("syncAll", "parts", NoBank, {})} \cup
                         {Chain("part", "sync", b, {}) : b \in ids}
       ELSE \E b \in ids : chains' = chains \cup {Chain("syncAll", "sync", b, ids \ {b})}
    /\ UNCHANGED <<linked, gone, selectedProvider, connections, loading, cardLoading, modal, unsure>>
PartSynced(e) ==
    /\ \/ Ended(e, "part", "sync", {"done"}) /\ Loads(e)
       \/ Ended(e, "part", "sync", {"failed"}) /\ Swap(e, {}) /\ UNCHANGED loading
    /\ UNCHANGED <<linked, gone, selectedProvider, connections, syncingAll, cardLoading, modal,
                   clicks, unsure>>
PartShown(e) ==
    /\ e.job = "part" /\ Shown(e, cardLoading) /\ Swap(e, {})
    /\ UNCHANGED <<linked, gone, selectedProvider, syncingAll, modal, clicks>>
\* Mutant: an error leaves without the "finally".
SyncAllStops(e) ==
    /\ \/ e \in chains /\ e.step = "parts" /\ ~(\E p \in chains : p.job = "part") /\ Loads(e)
       \/ Ended(e, "syncAll", "sync", {"failed"}) /\ Swap(e, {}) /\ UNCHANGED loading
       \/ Ended(e, "syncAll", "sync", {"done"}) /\ e.left = {} /\ Loads(e)
       \/ /\ Ended(e, "syncAll", "sync", {"done"}) /\ UNCHANGED loading
          /\ \E b \in e.left : Swap(e, {[Step(e, "sync") EXCEPT !.bank = b, !.left = @ \ {b}]})
    /\ UNCHANGED <<linked, gone, selectedProvider, connections, syncingAll, cardLoading, modal,
                   clicks, unsure>>
SyncAllGoesOn(e) ==
    /\ \/ e \in chains /\ e.step = "parts" /\ ~(\E p \in chains : p.job = "part") /\ Loads(e)
       \/ Ended(e, "syncAll", "sync", {"failed"}) /\ Loads(e)
       \/ Ended(e, "syncAll", "sync", {"done"}) /\ e.left = {} /\ Loads(e)
       \/ /\ Ended(e, "syncAll", "sync", {"done"}) /\ UNCHANGED loading
          /\ \E b \in e.left : Swap(e, {[Step(e, "sync") EXCEPT !.bank = b, !.left = @ \ {b}]})
    /\ UNCHANGED <<linked, gone, selectedProvider, connections, syncingAll, cardLoading, modal,
                   clicks, unsure>>
SyncAllShown(e) ==
    /\ e.job = "syncAll" /\ Shown(e, cardLoading) /\ syncingAll' = FALSE /\ Swap(e, {})
    /\ UNCHANGED <<linked, gone, selectedProvider, modal, clicks>>

(* Disconnecting: the dialog, which cannot be closed while the call runs,    *)
(* closes when the list has been read again and stays open after an error.   *)
(* Plaid's hook does nothing, and the dialog closes, when the bank has left  *)
(* the list.                                                                 *)
AskDisconnect(b) ==
    /\ modal = NoModal /\ b \in connections /\ modal' = [bank |-> b, is |-> "asking"]
    /\ UNCHANGED <<linked, gone, selectedProvider, connections, loading, syncingAll, cardLoading,
                   chains, clicks, unsure>>
CancelDisconnect ==
    /\ modal.is \in {"asking", "failed"} /\ modal' = NoModal
    /\ UNCHANGED <<linked, gone, selectedProvider, connections, loading, syncingAll, cardLoading,
                   chains, clicks, unsure>>
ConfirmDisconnect ==
    /\ modal.is \in {"asking", "failed"}
    /\ IF selectedProvider = "plaid" /\ modal.bank \notin connections
       THEN modal' = NoModal /\ UNCHANGED <<chains, clicks>>
       ELSE /\ Starts(Chain("disconnect", "disconnect", modal.bank, {}))
            /\ modal' = [modal EXCEPT !.is = "loading"]
    /\ UNCHANGED <<linked, gone, selectedProvider, connections, loading, syncingAll, cardLoading,
                   unsure>>
\* Mutant: the list is not read again.
DisconnectedUnseen(e) ==
    /\ Ended(e, "disconnect", "disconnect", {"done", "failed"}) /\ Swap(e, {})
    /\ modal' = IF e.phase = "done" THEN NoModal ELSE [modal EXCEPT !.is = "failed"]
    /\ UNCHANGED <<linked, gone, selectedProvider, connections, loading, syncingAll, cardLoading,
                   clicks, unsure>>
Disconnected(e) ==
    /\ \/ Ended(e, "disconnect", "disconnect", {"done"}) /\ Loads(e) /\ UNCHANGED modal
       \/ /\ Ended(e, "disconnect", "disconnect", {"failed"}) /\ Swap(e, {})
          /\ modal' = [modal EXCEPT !.is = "failed"] /\ UNCHANGED loading
    /\ UNCHANGED <<linked, gone, selectedProvider, connections, syncingAll, cardLoading, clicks, unsure>>
DisconnectShown(e) ==
    /\ e.job = "disconnect" /\ Shown(e, cardLoading) /\ modal' = NoModal /\ Swap(e, {})
    /\ UNCHANGED <<linked, gone, selectedProvider, syncingAll, clicks>>

BanksClicks ==
    \/ \E b \in Banks : SyncOne(b) \/ AskDisconnect(b)
    \/ \E ids \in SUBSET Banks : SyncAll(ids)
    \/ CancelDisconnect \/ ConfirmDisconnect
BanksCalls ==
    \E e \in chains : \/ CallReached(e) \/ CallBreaks(e) \/ ListShown(e)
                      \/ SyncedOne(e) \/ SyncOneFails(e) \/ SyncOneShown(e)
                      \/ PartSynced(e) \/ PartShown(e) \/ SyncAllGoesOn(e) \/ SyncAllShown(e)
                      \/ Disconnected(e) \/ DisconnectShown(e)
BanksInit(provider) ==
    /\ linked \in SetToSeqs(Banks) \cup {<<>>} \cup {<<b>> : b \in Banks} /\ gone = {}
    /\ selectedProvider = provider
    /\ connections = {} /\ syncingAll = FALSE /\ cardLoading = {} /\ modal = NoModal
    /\ clicks = 0 /\ unsure = TRUE

-----------------------------------------------------------------------------
(* Every chain that may have changed the connections, on whichever of its    *)
(* paths it ends, reads the list again: when none is under way the page      *)
(* shows what the server has, unless the last list failed or was overtaken,  *)
(* or a change whose answer was lost came in between.                        *)
BanksSettle == chains = {} /\ ~unsure => connections = Linked

(* No flag outlives what it stands for.                                      *)
FlagsMeanChains ==
    /\ loading => \E e \in chains : e.step = "load"
    /\ syncingAll => \E e \in chains : e.job = "syncAll"
    /\ modal.is = "loading" => \E e \in chains : e.job = "disconnect" /\ e.bank = modal.bank
    /\ \A b \in cardLoading : \E e \in chains : e.job = "syncOne" /\ e.bank = b
=============================================================================
