--------------------------- MODULE ChargeForecast ---------------------------
(* The upcoming charges of the dashboard (DashboardCalculator): of every     *)
(* merchant and account whose charges come at a regular interval, the next   *)
(* in the month, or the whole year, that the page shows, whatever the day    *)
(* is.  Dates are numbers of days; medians are doubled to stay whole.        *)
EXTENDS Integers, Sequences, FiniteSets, FiniteSetsExt, Functions

CONSTANTS
    Cadences,           \* weekly 7, biweekly 14, monthly 30, quarterly 91, yearly 365
    MonthLengths,       \* the months of the calendar, from day 0
    ChargeMonths,       \* bound: those that the user looks at
    AllMonths,          \* the whole year
    Unit,               \* what an amount of 1 is worth in the amounts' smallest part
    MaxShown,           \* 8 rows in the code
    ChargePool          \* bound: the sets of charges to choose from

MonthStart[m \in 1 .. Len(MonthLengths) + 1] == MapThenSumSet(LAMBDA i : MonthLengths[i], 1 .. m - 1)

ASSUME CadencesAssumption ==
    /\ IsFiniteSet(Cadences)
    /\ \A c, o \in Cadences :
          c.days \in Nat \ {0} /\ (c.cadence = o.cadence \/ c.days = o.days => c = o)
(* The calendar goes on for a month after any that is shown or has a charge. *)
ASSUME ForecastAssumption ==
    /\ MonthLengths \in Seq(Nat \ {0}) /\ Len(MonthLengths) > 0
    /\ ChargeMonths \subseteq 1 .. Len(MonthLengths) - 1
    /\ Unit \in Nat \ {0} /\ MaxShown \in Nat
    /\ \A C \in ChargePool :
          /\ IsFiniteSet(C)
          /\ \A c \in C : c.amount \in Int /\ c.date \in 0 .. MonthStart[Len(MonthLengths)] - 1

VARIABLES charges, chargeMonth
forecastVars == <<charges, chargeMonth>>

Larger(a, b) == IF a > b THEN a ELSE b
Distance(a, b) == IF a > b THEN a - b ELSE b - a
(* A set in order; which of two that are alike comes first is left open.     *)
Sorted(S, upTo(_, _)) ==
    CHOOSE s \in [1 .. Cardinality(S) -> S] :
       IsInjective(s) /\ \A i, j \in DOMAIN s : i < j => upTo(s[i], s[j])

MonthOf(d) == CHOOSE m \in DOMAIN MonthLengths : MonthStart[m] <= d /\ d < MonthStart[m + 1]
(* getSelectedMonthWindow: "today" is the first day of the month or year.    *)
today == IF chargeMonth = AllMonths THEN 0 ELSE MonthStart[chargeMonth]
LastDate == MonthStart[Len(MonthLengths) + 1] - 1
horizonDays == IF chargeMonth = AllMonths THEN LastDate ELSE MonthLengths[chargeMonth] - 1
DayOf(d) == d - MonthStart[MonthOf(d)]
addMonthClamped(d) ==
    LET m == MonthOf(d) + 1 IN MonthStart[m] + Min({DayOf(d), MonthLengths[m] - 1})

(* The charges of a merchant on an account, in the order of their dates;     *)
(* money that came in is none.                                               *)
GroupKeys == {<<c.merchant, c.account>> : c \in {d \in charges : d.amount > 0}}
Charged(k) == {c \in charges : c.amount > 0 /\ <<c.merchant, c.account>> = k}
Group(k) == Sorted(Charged(k), LAMBDA a, b : a.date <= b.date)
Latest(k) == Group(k)[Len(Group(k))].date
(* The days between one charge and the next of another day.                  *)
getIntervals(s) ==
    [i \in {j \in 2 .. Len(s) : s[j].date > s[j - 1].date} |-> s[i].date - s[i - 1].date]
median2(values) ==
    LET v == Sorted(DOMAIN values, LAMBDA i, j : values[i] <= values[j])
        middle == Len(v) \div 2
    IN IF Len(v) = 0 THEN 0
       ELSE IF Len(v) % 2 = 1 THEN 2 * values[v[middle + 1]]
       ELSE values[v[middle]] + values[v[middle + 1]]

(* The cadence nearest to the median, if it is near enough; the shorter of   *)
(* two that are.                                                             *)
matchCadence(m2) ==
    LET near == {c \in Cadences : 100 * Distance(m2, 2 * c.days) <= Larger(400, 24 * c.days)}
    IN {c \in near : \A o \in near : \/ Distance(m2, 2 * c.days) < Distance(m2, 2 * o.days)
                                     \/ Distance(m2, 2 * c.days) = Distance(m2, 2 * o.days) /\ c.days <= o.days}
NextAfter(c, d) == IF c.cadence = "monthly" THEN addMonthClamped(d) ELSE d + c.days

(* The first date of the rhythm that is after today.                         *)
\* Mutant: a charge of the first day is one of the month.
UpcomingToday(c, latest) ==
    LET date[n \in Nat] == IF n = 0 THEN latest ELSE NextAfter(c, date[n - 1])
    IN date[CHOOSE n \in 1 .. LastDate + 1 : date[n] >= today /\ \A i \in 1 .. n - 1 : date[i] < today]
Upcoming(c, latest) ==
    LET date[n \in Nat] == IF n = 0 THEN latest ELSE NextAfter(c, date[n - 1])
    IN date[CHOOSE n \in 1 .. LastDate + 1 : date[n] > today /\ \A i \in 1 .. n - 1 : date[i] <= today]

Stable(intervals, c) ==
    Cardinality({i \in DOMAIN intervals : 100 * Distance(intervals[i], c.days) <= Larger(200, 18 * c.days)})
(* No amount is a fifth off the average.                                     *)
Steady(amounts) ==
    LET sum == MapThenSumSet(LAMBDA i : amounts[i], DOMAIN amounts)
    IN \A i \in DOMAIN amounts : 5 * Distance(Cardinality(DOMAIN amounts) * amounts[i], sum) <= sum
Predictions(k) ==
    LET sorted == Group(k)
        intervals == getIntervals(sorted)
        recent == [i \in Larger(1, Len(sorted) - 3) .. Len(sorted) |-> sorted[i].amount]
    IN {[key |-> k, amount2 |-> median2(recent), nextDate |-> Upcoming(c, Latest(k)),
         cadence |-> c.cadence,
         confidence |-> IF /\ Len(sorted) >= 3 /\ Steady(recent)
                           /\ Stable(intervals, c) >= Larger(1, Cardinality(DOMAIN intervals) - 1)
                        THEN "high" ELSE "medium"]
        : c \in {d \in matchCadence(median2(intervals)) :
                   /\ Len(sorted) >= 2 /\ DOMAIN intervals # {} /\ Stable(intervals, d) > 0
                   /\ median2(recent) >= 2 * Unit}}
Due == {p \in UNION {Predictions(k) : k \in GroupKeys} : p.nextDate <= today + horizonDays}
predictUpcomingCharges ==
    LET rows == Sorted(Due, LAMBDA a, b : \/ a.nextDate < b.nextDate
                                          \/ a.nextDate = b.nextDate /\ a.amount2 >= b.amount2)
    IN SubSeq(rows, 1, Min({MaxShown, Len(rows)}))

ForecastInit == charges \in ChargePool /\ chargeMonth = AllMonths
ShowMonth == /\ chargeMonth' \in (ChargeMonths \cup {AllMonths}) \ {chargeMonth}
             /\ UNCHANGED charges
ForecastSpec == ForecastInit /\ [][ShowMonth]_forecastVars
-----------------------------------------------------------------------------
(* Every row is a day of the month that is shown, but not its first, the     *)
(* soonest row first, and one step of the rhythm after a day before the      *)
(* month, or after the last charge.                                          *)
RowsAreAhead ==
    LET rows == predictUpcomingCharges
    IN \A i \in DOMAIN rows :
          /\ today < rows[i].nextDate /\ rows[i].nextDate <= today + horizonDays
          /\ i > 1 => rows[i - 1].nextDate <= rows[i].nextDate
          /\ LET c == CHOOSE c \in Cadences : c.cadence = rows[i].cadence
             IN \E d \in Latest(rows[i].key) .. Larger(today, Latest(rows[i].key)) :
                   NextAfter(c, d) = rows[i].nextDate

(* Charges that came at exactly the same interval and amount, three or more  *)
(* of them, have a row with that amount and high confidence when the next is *)
(* due in time, unless the page is full of rows that are due no later.       *)
Regular(k, c) ==
    LET s == Group(k)
    IN /\ Len(s) >= 3 /\ s[1].amount >= Unit
       /\ \A i \in 2 .. Len(s) : s[i].date - s[i - 1].date = c.days /\ s[i].amount = s[1].amount
RegularForetold ==
    \A k \in GroupKeys, c \in Cadences :
       LET rows == predictUpcomingCharges
           p == [key |-> k, amount2 |-> 2 * Group(k)[1].amount, cadence |-> c.cadence,
                 nextDate |-> Upcoming(c, Latest(k)), confidence |-> "high"]
       IN Regular(k, c) /\ p.nextDate <= today + horizonDays
          => \/ \E i \in DOMAIN rows : rows[i] = p
             \/ Len(rows) = MaxShown /\ \A i \in DOMAIN rows : rows[i].nextDate <= p.nextDate

(* The forecast says what it should, and only that.                          *)
Foretold == RowsAreAhead /\ RegularForetold
=============================================================================
