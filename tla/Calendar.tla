------------------------------ MODULE Calendar ------------------------------
(***************************************************************************)
(* PartitionsForPeriod: which tables a run of the partitioning routine     *)
(* plans for the days from its start.                                      *)
(*                                                                         *)
(* Days are counted from a fixed day 0 and time of day is dropped, as      *)
(* Truncate(24 * time.Hour) drops it; months are counted on across years.  *)
(* The process runs in UTC, so that Date() and Truncate agree on the day.  *)
(***************************************************************************)
EXTENDS Integers, FiniteSetsExt

CONSTANTS
  Months,                                  \* number of months looked at
  MonthStart,                              \* first day of each month
  MaxMetricPartitioningPrefillPeriodDays   \* 28 in the code

(***************************************************************************)
(* Months follow each other without gaps, and none is shorter than the     *)
(* largest prefill period: February has 28 days.                           *)
(***************************************************************************)
ASSUME CalendarAssumption ==
  /\ Months \in Nat
  /\ MaxMetricPartitioningPrefillPeriodDays \in Nat \ {0}
  /\ MonthStart \in [1 .. Months + 1 -> Nat]
  /\ \A m, n \in 1 .. Months + 1 :
       m < n => MonthStart[n] >= MonthStart[m] + MaxMetricPartitioningPrefillPeriodDays
  /\ \A d \in MonthStart[1] .. MonthStart[Months + 1] - 1 :
       \E m \in 1 .. Months : MonthStart[m] <= d /\ d < MonthStart[m + 1]

\* The month of Date(), and the day in it.
MonthOf(d) ==
  CHOOSE m \in 1 .. Months : MonthStart[m] <= d /\ d < MonthStart[m + 1]
DayOf(d) == d - MonthStart[MonthOf(d)] + 1

daysInMonth(d) == MonthStart[MonthOf(d) + 1] - MonthStart[MonthOf(d)]

(***************************************************************************)
(* The days left in the month, the start included.                         *)
(***************************************************************************)
newDaysRemainingInCurrentMonth(start) == daysInMonth(start) - DayOf(start) + 1

(***************************************************************************)
(* A partition period: its table, named by a format, a month and a day,    *)
(* and the days it holds, from <= d < to.  The two loops of the function   *)
(* name their tables in two formats.                                       *)
(***************************************************************************)
Period(format, first, i) ==
  [table |-> [format |-> format, month |-> MonthOf(first), day |-> DayOf(first) + i],
   from  |-> first + i,
   to    |-> first + i + 1]

\* Mutant of PartitionsForPeriod: the future month's names start one day late.
PartitionsForPeriodLate(start, numDaysToPrefill) ==
  LET remaining == newDaysRemainingInCurrentMonth(start)
      future    == start + remaining + 1
  IN [k \in 1 .. numDaysToPrefill |->
        IF k <= remaining THEN Period("_year_", start, k - 1)
        ELSE [Period("_year", future, k - remaining - 1) EXCEPT !.table.day = @ + 1]]

(***************************************************************************)
(* Current month first, then the future month, whose first partition is    *)
(* remaining + 1 days after the start.                                     *)
(***************************************************************************)
PartitionsForPeriod(start, numDaysToPrefill) ==
  LET remaining == newDaysRemainingInCurrentMonth(start)
      future    == start + remaining + 1
  IN [k \in 1 .. numDaysToPrefill |->
        IF k <= remaining THEN Period("_year_", start, k - 1)
        ELSE Period("_year", future, k - remaining - 1)]

(***************************************************************************)
(* A period holds exactly the day its table is named after, and that day   *)
(* is a day of the calendar.                                               *)
(***************************************************************************)
NamedByItsDay(p) ==
  /\ p.table.month \in 1 .. Months
  /\ p.table.day \in 1 .. MonthStart[p.table.month + 1] - MonthStart[p.table.month]
  /\ p.from = MonthStart[p.table.month] + p.table.day - 1
  /\ p.to = p.from + 1
=============================================================================
