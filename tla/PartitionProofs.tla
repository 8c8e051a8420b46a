--------------------------- MODULE PartitionProofs --------------------------
(***************************************************************************)
(* Proofs about Partition, for every calendar, prefill period and number   *)
(* of instances: plans name the days they hold, and a run without failed   *)
(* statements leaves every day it planned covered.                         *)
(***************************************************************************)
EXTENDS Partition, TLAPS

Prefill == MetricPartitioningPrefillPeriodDays

(***************************************************************************)
(* The types of the constants.                                             *)
(***************************************************************************)
LEMMA ConstantTypes ==
  /\ Months \in Nat /\ Months > 1
  /\ MaxMetricPartitioningPrefillPeriodDays \in Nat
  /\ Prefill \in Nat /\ Prefill <= MaxMetricPartitioningPrefillPeriodDays
  /\ FirstDay \in Nat /\ LastDay \in Nat
  /\ \A m \in 1 .. Months + 1 : MonthStart[m] \in Nat
BY CalendarAssumption, PartitionAssumption DEF Prefill

(***************************************************************************)
(* The days of the model lie in a month that is not the last one.          *)
(***************************************************************************)
LEMMA MonthOfDay ==
  ASSUME NEW d \in FirstDay .. LastDay
  PROVE  /\ MonthOf(d) \in 1 .. Months - 1
         /\ MonthStart[MonthOf(d)] <= d
         /\ d < MonthStart[MonthOf(d) + 1]
<1> DEFINE P(m) == MonthStart[m] <= d /\ d < MonthStart[m + 1]
<1>1. MonthStart[1] <= d /\ d < MonthStart[Months] /\ d \in Nat
  BY SMTT(60), CalendarAssumption, PartitionAssumption
<1>2. MonthStart[Months] <= MonthStart[Months + 1]
  BY CalendarAssumption, PartitionAssumption
<1>3. d \in MonthStart[1] .. MonthStart[Months + 1] - 1
  BY <1>1, <1>2, CalendarAssumption, PartitionAssumption
<1>4. \E m \in 1 .. Months : P(m)
  BY <1>3, CalendarAssumption
<1>5. MonthOf(d) \in 1 .. Months /\ P(MonthOf(d))
  BY <1>4 DEF MonthOf
<1>6. MonthOf(d) # Months
  BY <1>1, <1>5, CalendarAssumption, PartitionAssumption
<1> QED  BY SMTT(60), <1>5, <1>6, CalendarAssumption, PartitionAssumption

(***************************************************************************)
(* The second day of a month lies in that month, if it has two.            *)
(***************************************************************************)
LEMMA SecondDay ==
  ASSUME NEW m \in 2 .. Months, MaxMetricPartitioningPrefillPeriodDays > 1
  PROVE  MonthOf(MonthStart[m] + 1) = m
<1> DEFINE f == MonthStart[m] + 1
           P(n) == MonthStart[n] <= f /\ f < MonthStart[n + 1]
<1>1. MonthStart[m] \in Nat /\ MonthStart[m + 1] \in Nat
  BY CalendarAssumption
<1>2. MonthStart[m + 1] >= MonthStart[m] + MaxMetricPartitioningPrefillPeriodDays
  BY CalendarAssumption
<1>3. m \in 1 .. Months /\ P(m)
  BY SMTT(60), <1>1, <1>2, CalendarAssumption
<1>4. ASSUME NEW n \in 1 .. Months, P(n)
      PROVE  n = m
  <2>1. CASE n < m
    <3>1. n + 1 <= m /\ n + 1 \in 1 .. Months + 1 /\ m \in 1 .. Months + 1
      BY <2>1, CalendarAssumption
    <3>2. MonthStart[n + 1] <= MonthStart[m]
      <4>1. CASE n + 1 = m  BY <4>1, <1>1
      <4>2. CASE n + 1 < m  BY SMTT(60), <4>2, <3>1, <1>1, CalendarAssumption
      <4> QED  BY <3>1, <4>1, <4>2
    <3>3. MonthStart[n + 1] \in Nat
      BY <3>1, CalendarAssumption
    <3> QED  BY <3>2, <3>3, <1>1, <1>4
  <2>2. CASE n > m
    <3>1. MonthStart[n] >= MonthStart[m] + MaxMetricPartitioningPrefillPeriodDays
      BY <2>2, CalendarAssumption
    <3>2. MonthStart[n] \in Nat
      BY CalendarAssumption
    <3> QED  BY SMTT(60), <3>1, <3>2, <1>1, <1>4, CalendarAssumption
  <2> QED  BY <2>1, <2>2
<1>5. P(MonthOf(f)) /\ MonthOf(f) \in 1 .. Months
  <2> HIDE DEF f
  <2> QED  BY <1>3 DEF MonthOf
<1> QED  BY <1>4, <1>5

(***************************************************************************)
(* What PartitionsForPeriod returns: as many periods as days are asked     *)
(* for, each one day long and named after that day, first the start.       *)
(***************************************************************************)
LEMMA PlanIsNamedByItsDays ==
  ASSUME NEW start \in FirstDay .. LastDay, NEW n \in 1 .. Prefill
  PROVE  LET plans == PartitionsForPeriod(start, n)
         IN  /\ plans \in [1 .. n -> Periods]
             /\ \A k \in 1 .. n : NamedByItsDay(plans[k])
<1> DEFINE m == MonthOf(start)
           r == newDaysRemainingInCurrentMonth(start)
           f == start + r + 1
<1>1. /\ m \in 1 .. Months - 1
      /\ MonthStart[m] <= start /\ start < MonthStart[m + 1]
      /\ start \in Nat
      /\ MonthStart[m] \in Nat /\ MonthStart[m + 1] \in Nat
  <2>1. /\ m \in 1 .. Months - 1
        /\ MonthStart[m] <= start /\ start < MonthStart[m + 1]
    BY MonthOfDay
  <2>2. start \in Nat /\ m \in 1 .. Months + 1 /\ m + 1 \in 1 .. Months + 1
    BY <2>1, ConstantTypes
  <2> QED  BY <2>1, <2>2, ConstantTypes
<1> HIDE DEF m
<1>2. r = MonthStart[m + 1] - start
  BY <1>1 DEF newDaysRemainingInCurrentMonth, daysInMonth, DayOf, m
<1>3. f = MonthStart[m + 1] + 1
  BY <1>1, <1>2
<1>4. n <= MaxMetricPartitioningPrefillPeriodDays /\ n \in Nat
  BY ConstantTypes
<1>5. ASSUME NEW k \in 1 .. n, k <= r
      PROVE  LET p == Period("_year_", start, k - 1)
             IN  p \in Periods /\ NamedByItsDay(p)
  <2> DEFINE p == Period("_year_", start, k - 1)
  <2>1. /\ p.table.month = m /\ p.table.day = start - MonthStart[m] + 1 + (k - 1)
        /\ p.table.format = "_year_"
        /\ p.from = start + (k - 1) /\ p.to = start + (k - 1) + 1
    BY DEF Period, DayOf, m
  <2>2. p.table.day \in 1 .. MonthStart[m + 1] - MonthStart[m]
    BY <2>1, <1>1, <1>2, <1>5
  <2>3. NamedByItsDay(p)
    <3> HIDE DEF p
    <3>1. m \in 1 .. Months  BY <1>1, ConstantTypes
    <3>2. p.from = MonthStart[m] + p.table.day - 1 /\ p.to = p.from + 1
      BY <2>1, <1>1
    <3> QED  BY <2>1, <2>2, <3>1, <3>2 DEF NamedByItsDay
  <2>4. p \in Periods
    <3>1. p = [table |-> [format |-> "_year_", month |-> m, day |-> p.table.day],
               from |-> p.from, to |-> p.to]
      BY DEF Period, m
    <3>2. p.from \in Nat /\ p.to \in Nat /\ p.table.day \in Nat /\ m \in 1 .. Months
      BY <2>1, <2>2, <1>1, ConstantTypes
    <3> HIDE DEF p
    <3> QED  BY <3>1, <3>2 DEF Periods, Tables
  <2> QED  BY <2>3, <2>4
<1>6. ASSUME NEW k \in 1 .. n, ~(k <= r)
      PROVE  LET p == Period("_year", f, k - r - 1)
             IN  p \in Periods /\ NamedByItsDay(p)
  <2> DEFINE p == Period("_year", f, k - r - 1)
  <2>0. r \in Nat /\ r >= 1 /\ k - r - 1 \in Nat /\ k - r - 1 <= n - 2
    BY <1>1, <1>2, <1>6
  <2>1. MaxMetricPartitioningPrefillPeriodDays > 1
    BY <1>4, <1>6, <2>0, CalendarAssumption
  <2>2. m + 1 \in 2 .. Months
    BY <1>1, ConstantTypes
  <2>3. MonthOf(f) = m + 1
    BY <1>3, <2>1, <2>2, SecondDay
  <2>4. /\ p.table.month = m + 1 /\ p.table.day = 2 + (k - r - 1)
        /\ p.table.format = "_year"
        /\ p.from = f + (k - r - 1) /\ p.to = f + (k - r - 1) + 1
    BY <2>3, <1>1, <1>3 DEF Period, DayOf
  <2>5. MonthStart[m + 2] >= MonthStart[m + 1] + MaxMetricPartitioningPrefillPeriodDays
        /\ MonthStart[m + 2] \in Nat
    <3>1. m + 1 \in 1 .. Months + 1 /\ m + 2 \in 1 .. Months + 1 /\ m + 1 < m + 2
      BY <1>1, <2>2, ConstantTypes
    <3> QED  BY <3>1, CalendarAssumption
  <2>6. p.table.day \in 1 .. MonthStart[m + 2] - MonthStart[m + 1]
    <3> HIDE DEF p
    <3> QED  BY <2>4, <2>5, <2>0, <1>1, <1>4, ConstantTypes
  <2>7. NamedByItsDay(p)
    <3> HIDE DEF p, f
    <3>1. p.from = MonthStart[m + 1] + p.table.day - 1 /\ p.to = p.from + 1
      BY <2>4, <2>0, <1>1, <1>3
    <3>2. p.table.month \in 1 .. Months /\ p.table.month = m + 1 /\ m + 1 + 1 = m + 2
      BY <2>2, <2>4, <1>1, ConstantTypes
    <3> QED  BY <2>6, <3>1, <3>2 DEF NamedByItsDay
  <2>8. p \in Periods
    <3>1. p = [table |-> [format |-> "_year", month |-> p.table.month, day |-> p.table.day],
               from |-> p.from, to |-> p.to]
      BY DEF Period
    <3> HIDE DEF p, f
    <3>2. p.from \in Nat /\ p.to \in Nat /\ p.table.day \in Nat
          /\ p.table.month \in 1 .. Months
      BY <2>2, <2>4, <2>6, <2>0, <1>1, <1>3, ConstantTypes
    <3> QED  BY <3>1, <3>2 DEF Periods, Tables
  <2> QED  BY <2>7, <2>8
<1> HIDE DEF f, r
<1>7. PartitionsForPeriod(start, n) =
        [k \in 1 .. n |-> IF k <= r THEN Period("_year_", start, k - 1)
                          ELSE Period("_year", f, k - r - 1)]
  BY DEF PartitionsForPeriod, f, r
<1> QED  BY <1>5, <1>6, <1>7

-----------------------------------------------------------------------------
(***************************************************************************)
(* The type invariant, and that a run in progress is at one of its         *)
(* periods.                                                                *)
(***************************************************************************)
Located == \A i \in Instances : pc[i] # "idle" => at[i] \in 1 .. Len(plan[i])

TypeInv == TypeOK /\ Located

(***************************************************************************)
(* A plan is a sequence of periods, as long as the prefill period.         *)
(***************************************************************************)
LEMMA PlanIsSequence ==
  ASSUME today \in FirstDay .. LastDay
  PROVE  LET p == PartitionsForPeriod(today, Prefill)
         IN  /\ p \in Seq(Periods) /\ Len(p) = Prefill /\ Prefill >= 1
             /\ \A k \in DOMAIN p : NamedByItsDay(p[k])
<1> DEFINE p == PartitionsForPeriod(today, Prefill)
<1>1. Prefill \in Nat /\ Prefill >= 1
  BY PartitionAssumption, CalendarAssumption DEF Prefill
<1>2. p \in [1 .. Prefill -> Periods] /\ \A k \in 1 .. Prefill : NamedByItsDay(p[k])
  BY <1>1, PlanIsNamedByItsDays
<1> HIDE DEF p
<1>3. p \in Seq(Periods) /\ Len(p) = Prefill /\ DOMAIN p = 1 .. Prefill
  BY <1>1, <1>2
<1> QED  BY <1>1, <1>2, <1>3 DEF p

(***************************************************************************)
(* The period at hand of a run in progress.                                *)
(***************************************************************************)
LEMMA AtHand ==
  ASSUME TypeInv, NEW i \in Instances, pc[i] # "idle"
  PROVE  /\ at[i] \in 1 .. Len(plan[i]) /\ at[i] \in DOMAIN plan[i]
         /\ partitionToCreate(i) \in Periods
         /\ partitionToCreate(i).table \in Tables
<1>1. at[i] \in 1 .. Len(plan[i]) /\ plan[i] \in Seq(Periods)
  BY DEF TypeInv, TypeOK, Located
<1>2. partitionToCreate(i) \in Periods /\ at[i] \in DOMAIN plan[i]
  BY <1>1 DEF partitionToCreate
<1> QED  BY <1>1, <1>2 DEF Periods

(***************************************************************************)
(* Continue and Goto keep the types of what they change.                   *)
(***************************************************************************)
Labels == {"idle", "begin", "select", "create", "attach", "inherits"}
LocalTypes ==
  /\ pc \in [Instances -> Labels]
  /\ plan \in [Instances -> Seq(Periods)]
  /\ at \in [Instances -> Nat \ {0}]
  /\ Located

LEMMA ContinueTypes ==
  ASSUME TypeInv, NEW i \in Instances, pc[i] # "idle", Continue(i)
  PROVE  LocalTypes' /\ tx' \in [Instances -> {"none", "open", "reading"}]
<1>1. /\ pc \in [Instances -> Labels] /\ plan \in [Instances -> Seq(Periods)]
      /\ at \in [Instances -> Nat \ {0}] /\ tx \in [Instances -> {"none", "open", "reading"}]
      /\ Located
  BY DEF TypeInv, TypeOK, Labels
<1>2. at[i] \in 1 .. Len(plan[i]) /\ Len(plan[i]) \in Nat
  BY <1>1, AtHand
<1>3. CASE at[i] < Len(plan[i])
  <2>1. /\ at' = [at EXCEPT ![i] = @ + 1] /\ pc' = [pc EXCEPT ![i] = "begin"]
        /\ plan' = plan
    BY <1>2, <1>3 DEF Continue
  <2> QED  BY <1>1, <1>2, <1>3, <2>1 DEF Continue, LocalTypes, Located, Labels
<1>4. CASE at[i] = Len(plan[i])
  <2>1. /\ at' = [at EXCEPT ![i] = 1] /\ pc' = [pc EXCEPT ![i] = "idle"]
        /\ plan' = [plan EXCEPT ![i] = <<>>]
    BY <1>2, <1>4 DEF Continue
  <2>2. <<>> \in Seq(Periods)
    OBVIOUS
  <2> QED  BY <1>1, <2>1, <2>2 DEF Continue, LocalTypes, Located, Labels
<1> QED  BY <1>2, <1>3, <1>4

LEMMA GotoTypes ==
  ASSUME TypeInv, NEW i \in Instances, pc[i] # "idle", NEW label \in Labels, Goto(i, label)
  PROVE  LocalTypes'
BY AtHand, Zenon DEF Goto, TypeInv, TypeOK, LocalTypes, Located, Labels

(***************************************************************************)
(* Every step keeps TypeInv.                                               *)
(***************************************************************************)
LEMMA TypeStep == TypeInv /\ [Next]_vars => TypeInv'
<1> SUFFICES ASSUME TypeInv, [Next]_vars PROVE TypeInv'
  OBVIOUS
<1> USE DEF TypeInv, TypeOK
<1>1. ASSUME NEW i \in Instances, StartRun(i) PROVE TypeInv'
  <2>1. PartitionsForPeriod(today, Prefill) \in Seq(Periods)
        /\ Len(PartitionsForPeriod(today, Prefill)) = Prefill /\ Prefill >= 1
    BY PlanIsSequence
  <2>2. plan' = [plan EXCEPT ![i] = PartitionsForPeriod(today, Prefill)]
    BY <1>1 DEF StartRun, Prefill
  <2>3. Located'
    BY <1>1, <2>1, <2>2, ConstantTypes DEF StartRun, Located
  <2> QED  BY <1>1, <2>1, <2>2, <2>3 DEF StartRun, database
<1>2. ASSUME NEW i \in Instances, BeginTx(i) PROVE TypeInv'
  <2>1. CASE Fails(i)
    BY <1>2, <2>1, ContinueTypes, Zenon DEF BeginTx, Fails, LocalTypes, Labels, database
  <2>2. CASE ~Fails(i)
    BY <1>2, <2>2, GotoTypes, Zenon DEF BeginTx, LocalTypes, Labels, database
  <2> QED  BY <2>1, <2>2
<1>3. ASSUME NEW i \in Instances, SelectFromPartition(i) PROVE TypeInv'
  <2>1. CASE Fails(i)
    BY <1>3, <2>1, ContinueTypes, SMTT(60) DEF SelectFromPartition, Fails, LocalTypes, Labels, database
  <2>2. CASE ~Fails(i)
    BY <1>3, <2>2, GotoTypes, Zenon DEF SelectFromPartition, LocalTypes, Labels, database
  <2> QED  BY <2>1, <2>2
<1>4. ASSUME NEW i \in Instances, CreateTable(i) PROVE TypeInv'
  <2>0. partitionToCreate(i).table \in Tables
    BY <1>4, AtHand DEF CreateTable
  <2>1. created' \subseteq Tables
    BY <1>4, <2>0 DEF CreateTable
  <2>2. CASE Fails(i)
    BY <1>4, <2>1, <2>2, ContinueTypes, SMTT(60) DEF CreateTable, Fails, LocalTypes, Labels
  <2>3. CASE ~Fails(i)
    BY <1>4, <2>1, <2>3, GotoTypes DEF CreateTable, LocalTypes, Labels
  <2> QED  BY <2>2, <2>3
<1>5. ASSUME NEW i \in Instances, Attach(i) PROVE TypeInv'
  <2>1. attached' \subseteq Periods
    BY <1>5, AtHand DEF Attach, AttachPartition
  <2> QED  BY <1>5, <2>1, ContinueTypes DEF Attach, LocalTypes, Labels
<1>6. ASSUME NEW i \in Instances, AttachFails(i) PROVE TypeInv'
  <2>1. pending' \subseteq Periods
    BY <1>6, AtHand DEF AttachFails, LeaveBehind
  <2> QED  BY <1>6, <2>1, ContinueTypes DEF AttachFails, Fails, LocalTypes, Labels
<1>7. ASSUME NEW i \in Instances, QueryInherits(i) PROVE TypeInv'
  <2>1. leaked' \in [Instances -> Seq(Tables)]
    <3>1. partitionToCreate(i).table \in Tables
      BY <1>7, AtHand DEF QueryInherits
    <3>2. leaked' = leaked \/ leaked' =
            [leaked EXCEPT ![i] = Append(leaked[i], partitionToCreate(i).table)]
      BY <1>7 DEF QueryInherits
    <3>3. leaked \in [Instances -> Seq(Tables)]
      OBVIOUS
    <3>4. Append(leaked[i], partitionToCreate(i).table) \in Seq(Tables)
      BY <3>1, <3>3
    <3> QED  BY Zenon, <3>2, <3>3, <3>4
  <2>2. CASE Continue(i)
    BY <1>7, <2>1, <2>2, ContinueTypes, Zenon DEF QueryInherits, Fails, LocalTypes, Labels, database
  <2>3. CASE ~Continue(i)
    BY <1>7, <2>1, <2>3, GotoTypes, Zenon DEF QueryInherits, Fails, LocalTypes, Labels, database
  <2> QED  BY <2>2, <2>3
<1>8. ASSUME NEW i \in Instances, Stop(i) PROVE TypeInv'
  <2>1. pending' \subseteq Periods
    BY <1>8, AtHand DEF Stop, LeaveBehind
  <2>2. <<>> \in Seq(Periods) /\ <<>> \in Seq(Tables)
    OBVIOUS
  <2>3. Located'
    BY <1>8 DEF Stop, Located
  <2> QED  BY <1>8, <2>1, <2>2, <2>3 DEF Stop
<1>9. CASE RunPending
  BY <1>9 DEF RunPending, AttachPartition, Located
<1>10. CASE Midnight
  BY <1>10, ConstantTypes DEF Midnight, Located
<1>11. CASE UNCHANGED vars
  BY <1>11 DEF vars, database, Located
<1> QED
  BY <1>1, <1>2, <1>3, <1>4, <1>5, <1>6, <1>7, <1>8, <1>9, <1>10, <1>11, Zenon DEF Next, Step

-----------------------------------------------------------------------------
(***************************************************************************)
(* Plans, attached partitions and statements left behind keep holding the  *)
(* day they are named after.                                               *)
(***************************************************************************)
LEMMA HoldingStep == TypeInv /\ TablesHoldTheirDay /\ [Next]_vars => TablesHoldTheirDay'
<1> SUFFICES ASSUME TypeInv, TablesHoldTheirDay, [Next]_vars PROVE TablesHoldTheirDay'
  OBVIOUS
<1>0. ASSUME NEW i \in Instances, pc[i] # "idle"
      PROVE  NamedByItsDay(partitionToCreate(i))
  BY <1>0, AtHand DEF TablesHoldTheirDay, partitionToCreate
<1>a. \A i \in Instances : DOMAIN <<>> = {}
  OBVIOUS
<1>b. ASSUME NEW i \in Instances, Continue(i)
      PROVE  \A j \in Instances : \A k \in DOMAIN plan'[j] : NamedByItsDay(plan'[j][k])
  BY <1>b, <1>a, Zenon DEF Continue, TablesHoldTheirDay, TypeInv, TypeOK
<1>1. ASSUME NEW i \in Instances, StartRun(i) PROVE TablesHoldTheirDay'
  <2>1. \A k \in DOMAIN PartitionsForPeriod(today, Prefill) :
          NamedByItsDay(PartitionsForPeriod(today, Prefill)[k])
    BY PlanIsSequence DEF TypeInv, TypeOK
  <2>2. plan' = [plan EXCEPT ![i] = PartitionsForPeriod(today, Prefill)]
    BY <1>1 DEF StartRun, Prefill
  <2>3. \A j \in Instances : \A k \in DOMAIN plan'[j] : NamedByItsDay(plan'[j][k])
    BY <2>1, <2>2 DEF TablesHoldTheirDay, TypeInv, TypeOK
  <2> QED  BY <1>1, <2>3 DEF StartRun, TablesHoldTheirDay, database
<1>2. ASSUME NEW i \in Instances, BeginTx(i) PROVE TablesHoldTheirDay'
  BY <1>2, <1>b DEF BeginTx, Fails, Goto, TablesHoldTheirDay, database
<1>3. ASSUME NEW i \in Instances, SelectFromPartition(i) PROVE TablesHoldTheirDay'
  BY <1>3, <1>b DEF SelectFromPartition, Fails, Goto, TablesHoldTheirDay, database
<1>4. ASSUME NEW i \in Instances, CreateTable(i) PROVE TablesHoldTheirDay'
  BY <1>4, <1>b DEF CreateTable, Fails, Goto, TablesHoldTheirDay
<1>5. ASSUME NEW i \in Instances, Attach(i) PROVE TablesHoldTheirDay'
  <2>1. \A p \in attached' \union pending' : NamedByItsDay(p)
    BY <1>5, <1>0 DEF Attach, AttachPartition, TablesHoldTheirDay
  <2> QED  BY <1>5, <2>1, <1>b DEF Attach, TablesHoldTheirDay
<1>6. ASSUME NEW i \in Instances, AttachFails(i) PROVE TablesHoldTheirDay'
  <2>1. \A p \in attached' \union pending' : NamedByItsDay(p)
    BY <1>6, <1>0 DEF AttachFails, LeaveBehind, TablesHoldTheirDay
  <2> QED  BY <1>6, <2>1, <1>b DEF AttachFails, Fails, TablesHoldTheirDay
<1>7. ASSUME NEW i \in Instances, QueryInherits(i) PROVE TablesHoldTheirDay'
  BY <1>7, <1>b DEF QueryInherits, Fails, Goto, TablesHoldTheirDay, database
<1>8. ASSUME NEW i \in Instances, Stop(i) PROVE TablesHoldTheirDay'
  <2>1. \A p \in attached' \union pending' : NamedByItsDay(p)
    BY <1>8, <1>0 DEF Stop, LeaveBehind, TablesHoldTheirDay
  <2> QED  BY <1>8, <2>1, <1>a DEF Stop, TablesHoldTheirDay, TypeInv, TypeOK
<1>9. CASE RunPending
  <2>1. \A p \in attached' \union pending' : NamedByItsDay(p)
    BY <1>9 DEF RunPending, AttachPartition, TablesHoldTheirDay
  <2> QED  BY <1>9, <2>1 DEF RunPending, TablesHoldTheirDay
<1>10. CASE Midnight
  BY <1>10 DEF Midnight, TablesHoldTheirDay
<1>11. CASE UNCHANGED vars
  BY <1>11 DEF vars, database, TablesHoldTheirDay
<1> QED
  BY <1>1, <1>2, <1>3, <1>4, <1>5, <1>6, <1>7, <1>8, <1>9, <1>10, <1>11 DEF Next, Step

(***************************************************************************)
(* Two one-day periods that overlap hold the same day.                     *)
(***************************************************************************)
LEMMA OverlapCovers ==
  ASSUME NEW p \in Periods, NamedByItsDay(p), attached \subseteq Periods,
         \A q \in attached : NamedByItsDay(q), Overlaps(p)
  PROVE  Covered(attached, p.from)
<1>1. PICK q \in attached : p.from < q.to /\ q.from < p.to
  BY DEF Overlaps
<1>2. /\ p.from \in Nat /\ q.from \in Nat
      /\ p.to = p.from + 1 /\ q.to = q.from + 1
  BY ZenonT(60) DEF Periods, NamedByItsDay
<1> QED  BY <1>1, <1>2 DEF Covered

(***************************************************************************)
(* No step detaches a partition.                                           *)
(***************************************************************************)
LEMMA AttachedGrows == [Next]_vars => attached \subseteq attached'
BY DEF Next, Step, StartRun, BeginTx, SelectFromPartition, CreateTable, Attach,
       AttachFails, QueryInherits, Stop, RunPending, Midnight, AttachPartition,
       database, vars

(***************************************************************************)
(* A statement sequence that moves on to the next period without a failure *)
(* has its day covered: it has attached the table, or an overlap refused   *)
(* it, or the catalogue names it.                                          *)
(***************************************************************************)
LEMMA IterationCovers ==
  ASSUME TypeInv, TablesHoldTheirDay, NEW i \in Instances, Step(i),
         Continue(i), clean'[i]
  PROVE  Covered(attached', partitionToCreate(i).from)
<1> DEFINE p == partitionToCreate(i)
<1>1. pc[i] # "idle"
  BY DEF Step, BeginTx, SelectFromPartition, CreateTable, Attach, AttachFails, QueryInherits
<1>2. p \in Periods /\ p.table \in Tables /\ NamedByItsDay(p)
  BY <1>1, AtHand DEF TablesHoldTheirDay, partitionToCreate
<1>3. /\ attached \subseteq Periods /\ \A q \in attached : NamedByItsDay(q)
      /\ pc \in [Instances -> Labels] /\ clean \in [Instances -> BOOLEAN]
  BY DEF TypeInv, TypeOK, TablesHoldTheirDay, Labels
<1>4. pc'[i] \in {"begin", "idle"}
  BY <1>3 DEF Continue
<1>5. ~Fails(i)
  BY <1>3 DEF Fails
<1>6. ~Goto(i, "select") /\ ~Goto(i, "inherits") /\ ~Goto(i, "create") /\ ~Goto(i, "attach")
  BY <1>3, <1>4, ZenonT(60) DEF Goto
<1>7. Attach(i) \/ QueryInherits(i)
  BY <1>5, <1>6 DEF Step, BeginTx, SelectFromPartition, CreateTable, AttachFails
<1> HIDE DEF p
<1>8. p.from \in Nat /\ p.to = p.from + 1
  BY <1>2 DEF Periods, NamedByItsDay
<1>9. CASE Attach(i)
  <2>1. CASE Overlaps(p)
    <3>1. attached' = attached
      BY <1>9, <2>1 DEF Attach, AttachPartition, p
    <3> QED  BY <1>2, <1>3, <2>1, <3>1, OverlapCovers DEF p
  <2>2. CASE ~Overlaps(p)
    <3>1. p \in attached'
      BY <1>9, <2>2 DEF Attach, AttachPartition, p
    <3> QED  BY <1>8, <3>1 DEF Covered, p
  <2> QED  BY <2>1, <2>2
<1>10. CASE QueryInherits(i)
  <2>1. attached' = attached
    BY <1>10 DEF QueryInherits, database
  <2>2. PICK q \in attached : q.table = p.table
    BY <1>10, <1>5, <1>6 DEF QueryInherits, p
  <2>3. /\ q.from = MonthStart[q.table.month] + q.table.day - 1
        /\ q.to = q.from + 1 /\ NamedByItsDay(q)
    BY <1>3 DEF NamedByItsDay
  <2>4. q.from = p.from
    BY <1>2, <2>2, <2>3, ZenonT(60) DEF NamedByItsDay
  <2> QED  BY <1>8, <2>1, <2>3, <2>4 DEF Covered, p
<1> QED  BY ZenonT(60), <1>7, <1>9, <1>10

(***************************************************************************)
(* What a clean run has passed is covered.                                 *)
(***************************************************************************)
Passed ==
  \A i \in Instances : pc[i] # "idle" /\ clean[i] =>
    \A k \in 1 .. at[i] - 1 : Covered(attached, plan[i][k].from)

IInv == TypeInv /\ TablesHoldTheirDay /\ Passed

(***************************************************************************)
(* An instance that is not at work keeps its run.                          *)
(***************************************************************************)
LEMMA OthersKeepTheirRun ==
  ASSUME TypeInv, NEW j \in Instances, [Next]_vars,
         ~(StartRun(j) \/ Step(j) \/ Stop(j))
  PROVE  pc'[j] = pc[j] /\ plan'[j] = plan[j] /\ at'[j] = at[j] /\ clean'[j] = clean[j]
<1> USE DEF TypeInv, TypeOK
<1>1. ASSUME NEW i \in Instances, i # j, StartRun(i) \/ Stop(i)
      PROVE  pc'[j] = pc[j] /\ plan'[j] = plan[j] /\ at'[j] = at[j] /\ clean'[j] = clean[j]
  BY <1>1, Zenon DEF StartRun, Stop
<1>2. ASSUME NEW i \in Instances, i # j, Step(i)
      PROVE  pc'[j] = pc[j] /\ plan'[j] = plan[j] /\ at'[j] = at[j] /\ clean'[j] = clean[j]
  BY <1>2, Zenon DEF Step, BeginTx, SelectFromPartition, CreateTable, Attach,
       AttachFails, QueryInherits, Fails, Continue, Goto
<1>3. CASE RunPending \/ Midnight \/ UNCHANGED vars
  BY <1>3, Zenon DEF RunPending, Midnight, vars
<1> QED  BY <1>1, <1>2, <1>3 DEF Next

(***************************************************************************)
(* A step of a run goes on within the period, or on to the next one.       *)
(***************************************************************************)
LEMMA StepShape ==
  ASSUME TypeInv, NEW i \in Instances, Step(i)
  PROVE  /\ pc[i] # "idle"
         /\ \/ Continue(i) /\ (clean'[i] => clean[i])
            \/ /\ plan' = plan /\ at' = at /\ clean' = clean
               /\ pc'[i] # "idle"
<1>1. pc[i] # "idle"
  BY DEF Step, BeginTx, SelectFromPartition, CreateTable, Attach, AttachFails, QueryInherits
<1>2. pc \in [Instances -> Labels] /\ clean \in [Instances -> BOOLEAN]
  BY DEF TypeInv, TypeOK, Labels
<1>3. Fails(i) => Continue(i) /\ ~clean'[i]
  BY <1>2 DEF Fails
<1>4. ASSUME NEW label \in {"select", "inherits", "create", "attach"}, Goto(i, label)
      PROVE  plan' = plan /\ at' = at /\ pc'[i] # "idle"
  BY <1>2, <1>4 DEF Goto
<1> QED
  BY <1>1, <1>3, <1>4, ZenonT(60) DEF Step, BeginTx, SelectFromPartition, CreateTable,
     Attach, AttachFails, QueryInherits

(***************************************************************************)
(* What is covered stays covered.                                          *)
(***************************************************************************)
LEMMA CoveredGrows ==
  ASSUME [Next]_vars, NEW d, Covered(attached, d)
  PROVE  Covered(attached', d)
BY AttachedGrows DEF Covered

(***************************************************************************)
(* When a step moves a clean run on, everything up to the period at hand   *)
(* is covered.                                                             *)
(***************************************************************************)
LEMMA MovingOnCovers ==
  ASSUME IInv, [Next]_vars, NEW i \in Instances, Step(i), Continue(i), clean'[i]
  PROVE  \A k \in 1 .. at[i] : Covered(attached', plan[i][k].from)
<1>1. pc[i] # "idle" /\ at[i] \in Nat
  BY StepShape, AtHand, Zenon DEF IInv, TypeInv, TypeOK
<1>2. clean[i]
  BY StepShape DEF IInv
<1>3. \A k \in 1 .. at[i] - 1 : Covered(attached', plan[i][k].from)
  BY <1>1, <1>2, CoveredGrows DEF IInv, Passed
<1>4. Covered(attached', plan[i][at[i]].from)
  BY IterationCovers, Zenon DEF IInv, partitionToCreate
<1> QED  BY <1>1, <1>3, <1>4

LEMMA PassedStep == IInv /\ [Next]_vars => Passed'
<1> SUFFICES ASSUME IInv, [Next]_vars, NEW i \in Instances, pc'[i] # "idle", clean'[i]
             PROVE  \A k \in 1 .. at'[i] - 1 : Covered(attached', plan'[i][k].from)
  BY DEF Passed
<1>0. /\ at \in [Instances -> Nat \ {0}] /\ plan \in [Instances -> Seq(Periods)]
      /\ pc \in [Instances -> Labels] /\ clean \in [Instances -> BOOLEAN]
  BY DEF IInv, TypeInv, TypeOK, Labels
<1>1. CASE StartRun(i)
  BY <1>0, <1>1 DEF StartRun
<1>2. CASE Stop(i)
  BY <1>0, <1>2 DEF Stop
<1>3. CASE Step(i) /\ Continue(i)
  <2>1. \A k \in 1 .. at[i] : Covered(attached', plan[i][k].from)
    BY <1>3, MovingOnCovers
  <2>2. at'[i] = at[i] + 1 /\ plan' = plan
    BY <1>0, <1>3, Zenon DEF Continue
  <2> QED  BY SMTT(60), <1>0, <2>1, <2>2
<1>4. CASE Step(i) /\ ~Continue(i)
  <2>1. plan' = plan /\ at' = at /\ clean' = clean /\ pc[i] # "idle"
    BY <1>4, StepShape DEF IInv
  <2> QED  BY <2>1, CoveredGrows DEF IInv, Passed
<1>5. CASE ~(StartRun(i) \/ Step(i) \/ Stop(i))
  <2>1. pc'[i] = pc[i] /\ plan'[i] = plan[i] /\ at'[i] = at[i] /\ clean'[i] = clean[i]
    BY <1>5, OthersKeepTheirRun, Zenon DEF IInv
  <2> QED  BY <2>1, CoveredGrows, Zenon DEF IInv, Passed
<1> QED  BY Zenon, <1>1, <1>2, <1>3, <1>4, <1>5

(***************************************************************************)
(* The inductive invariant.                                                *)
(***************************************************************************)
LEMMA InitEstablishes == Init => IInv
<1> SUFFICES ASSUME Init PROVE IInv
  OBVIOUS
<1>1. TypeInv
  <2>1. <<>> \in Seq(Periods) /\ <<>> \in Seq(Tables)
    OBVIOUS
  <2> QED  BY <2>1, PartitionAssumption DEF Init, TypeInv, TypeOK, Located
<1>2. TablesHoldTheirDay
  BY DEF Init, TablesHoldTheirDay
<1>3. Passed
  BY DEF Init, Passed
<1> QED  BY <1>1, <1>2, <1>3 DEF IInv

LEMMA Inductive == Spec => []IInv
<1>1. IInv /\ [Next]_vars => IInv'
  BY TypeStep, HoldingStep, PassedStep DEF IInv
<1> QED  BY <1>1, InitEstablishes, PTL DEF Spec

(***************************************************************************)
(* The types of Partition's state hold in every reachable state.           *)
(***************************************************************************)
THEOREM TypeCorrect == Spec => []TypeOK
<1>1. IInv => TypeOK
  BY DEF IInv, TypeInv
<1> QED  BY <1>1, Inductive, PTL

(***************************************************************************)
(* For every calendar whose months are no shorter than the largest prefill *)
(* period: a table that PartitionsForPeriod plans, or that the database    *)
(* has attached, holds exactly the day it is named after.                  *)
(***************************************************************************)
THEOREM TablesAreHonest == Spec => []TablesHoldTheirDay
<1>1. IInv => TablesHoldTheirDay
  BY DEF IInv
<1> QED  BY <1>1, Inductive, PTL

(***************************************************************************)
(* For any number of instances: a run of Partition that ends without a     *)
(* failed statement leaves every day it planned covered.                   *)
(***************************************************************************)
THEOREM CleanRunsCover == Spec => CleanRunCovers
<1>1. IInv /\ [Next]_vars =>
        \A i \in Instances : Ends(i) =>
          \A k \in DOMAIN plan[i] : Covered(attached', plan[i][k].from)
  <2> SUFFICES ASSUME IInv, [Next]_vars, NEW i \in Instances, Ends(i)
               PROVE  \A k \in DOMAIN plan[i] : Covered(attached', plan[i][k].from)
    OBVIOUS
  <2>0. /\ at \in [Instances -> Nat \ {0}] /\ plan \in [Instances -> Seq(Periods)]
        /\ pc \in [Instances -> Labels] /\ clean \in [Instances -> BOOLEAN]
    BY DEF IInv, TypeInv, TypeOK, Labels
  <2>1. pc[i] # "idle" /\ pc'[i] = "idle" /\ clean'[i]
    BY DEF Ends
  <2>2. ~StartRun(i) /\ ~Stop(i)
    BY <2>0, <2>1 DEF StartRun, Stop
  <2>3. Step(i)
    BY <2>1, <2>2, OthersKeepTheirRun DEF IInv
  <2>4. Continue(i)
    BY <2>1, <2>3, StepShape DEF IInv
  <2>5. at[i] = Len(plan[i])
    BY <2>0, <2>1, <2>4 DEF Continue
  <2>6. DOMAIN plan[i] = 1 .. at[i]
    BY <2>0, <2>5
  <2> QED  BY <2>1, <2>3, <2>4, <2>6, MovingOnCovers
<1> QED  BY <1>1, Inductive, PTL DEF Spec, CleanRunCovers
=============================================================================
