--------------------------- MODULE DisplayCurrency --------------------------
(* The currency every amount is shown in (CurrencyProvider): the choice, and *)
(* the rate that was fetched for it.  Requests are not told apart, so the    *)
(* last answer wins, whichever currency it is of.                            *)
EXTENDS Naturals, FiniteSets

CONSTANTS Currencies, MaxRefreshes      \* bound: requests for a rate
ASSUME CurrencyAssumption == "USD" \in Currencies /\ MaxRefreshes \in Nat

VARIABLES
    currency, rateOf,       \* the choice, and the currency whose rate is held
    rateLoading, rateError,
    rateRequests,                  \* requests under way: their number and currency
    refreshes,
    overtaken               \* history: requests of two currencies were under way at once
currencyVars == <<currency, rateOf, rateLoading, rateError, rateRequests, refreshes, overtaken>>

(* refreshRate, of the currency the caller sees.                             *)
Refreshes(c) ==
    /\ refreshes < MaxRefreshes /\ refreshes' = refreshes + 1
    /\ rateRequests' = rateRequests \cup {<<refreshes, c>>}
    /\ overtaken' = (overtaken \/ \E a \in rateRequests : a[2] # c)
    /\ rateLoading' = TRUE /\ rateError' = FALSE

setCurrency(c) == c # currency /\ currency' = c /\ Refreshes(c) /\ UNCHANGED rateOf

(* The page tells that accounts changed.                                     *)
AccountsChanged ==
    /\ UNCHANGED <<currency, rateOf>>
    /\ IF refreshes < MaxRefreshes THEN Refreshes(currency)
       ELSE UNCHANGED <<rateRequests, refreshes, overtaken, rateLoading, rateError>>
RetryRate == rateError /\ Refreshes(currency) /\ UNCHANGED <<currency, rateOf>>

(* An answer; the one of USD is made on the spot and cannot fail.            *)
RateArrives(a) ==
    /\ a \in rateRequests /\ rateRequests' = rateRequests \ {a} /\ rateOf' = a[2] /\ rateLoading' = FALSE
    /\ overtaken' = (overtaken /\ ~(rateRequests = {a} /\ a[2] = currency))
    /\ UNCHANGED <<currency, rateError, refreshes>>
RateFails(a) ==
    /\ a \in rateRequests /\ a[2] # "USD" /\ rateRequests' = rateRequests \ {a}
    /\ rateError' = TRUE /\ rateLoading' = FALSE
    /\ UNCHANGED <<currency, rateOf, refreshes, overtaken>>

CurrencyInit ==
    /\ currency \in Currencies /\ rateOf = "USD" /\ rateLoading = TRUE /\ rateError = FALSE
    /\ rateRequests = {<<0, currency>>} /\ refreshes = 1 /\ overtaken = FALSE
CurrencyNext ==
    \/ \E c \in Currencies : setCurrency(c)
    \/ RetryRate \/ AccountsChanged
    \/ \E a \in rateRequests : RateArrives(a) \/ RateFails(a)
=============================================================================
