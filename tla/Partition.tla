------------------------------ MODULE Partition -----------------------------
(***************************************************************************)
(* Metric partitioning: several instances of the service run Partition     *)
(* against one database, on the ticks of their routines, while days pass,  *)
(* statements fail or time out and instances stop and start.               *)
(*                                                                         *)
(* The database is external.  It keeps tables, of which some are attached  *)
(* as partitions, and table locks: a transaction that has read a table     *)
(* holds a shared lock on it until it ends, ATTACH PARTITION waits for an  *)
(* exclusive one.  A statement whose client has gone away (read timeout,   *)
(* stopped process) is cancelled or still runs once it has its lock.       *)
(***************************************************************************)
EXTENDS Calendar, Sequences, FiniteSets

CONSTANTS
  Instances,                            \* processes of the service
  MetricPartitioningPrefillPeriodDays,  \* as the configuration says
  DatabaseMaxOpenConnections,           \* of each instance's pool
  FirstDay, LastDay,                    \* the days of the model
  MaxLeftovers   \* bound: transactions leaked and statements left behind

ASSUME PartitionAssumption ==
  /\ MetricPartitioningPrefillPeriodDays \in
       1 .. MaxMetricPartitioningPrefillPeriodDays
  /\ FirstDay \in Nat /\ LastDay \in Nat /\ FirstDay <= LastDay
  /\ Months > 1
  /\ MonthStart[1] <= FirstDay /\ LastDay < MonthStart[Months]
  /\ MaxLeftovers \in Nat
  /\ DatabaseMaxOpenConnections \in Nat
  /\ MaxLeftovers + 1 < DatabaseMaxOpenConnections

VARIABLES
  today,
  created,    \* the tables that exist
  attached,   \* the periods attached to proxied_request_metrics
  pending,    \* ATTACH statements left at the server by their client
  pc, plan, at, \* each instance's run: where it is, its periods, the one at hand
  tx,         \* its transaction: none, open, or reading the table at hand
  leaked,     \* tables read by transactions it never ended
  clean       \* its run has met no error

database == <<today, created, attached, pending>>
vars == <<database, pc, plan, at, tx, leaked, clean>>

Init ==
  /\ today = FirstDay
  /\ created = {} /\ attached = {} /\ pending = {}
  /\ pc = [i \in Instances |-> "idle"]
  /\ plan = [i \in Instances |-> <<>>]
  /\ at = [i \in Instances |-> 1]
  /\ tx = [i \in Instances |-> "none"]
  /\ leaked = [i \in Instances |-> <<>>]
  /\ clean = [i \in Instances |-> FALSE]

-----------------------------------------------------------------------------
(* The database *)

Covered(partitions, d) == \E p \in partitions : p.from <= d /\ d < p.to

Overlaps(p) == \E q \in attached : p.from < q.to /\ q.from < p.to

partitionToCreate(i) == plan[i][at[i]]

\* Transactions that hold a shared lock on a table.
Readers(t) ==
  {i \in Instances :
     \/ tx[i] = "reading" /\ partitionToCreate(i).table = t
     \/ \E k \in DOMAIN leaked[i] : leaked[i][k] = t}

\* ATTACH PARTITION, once it has its lock: refused on an overlap.
AttachPartition(p) ==
  attached' = IF Overlaps(p) THEN attached ELSE attached \union {p}

Leftovers == Cardinality(pending) + MapThenSumSet(LAMBDA i : Len(leaked[i]), Instances)

\* A client goes away from its ATTACH statement, which the server still runs.
LeaveBehind(i) ==
  /\ Leftovers < MaxLeftovers
  /\ pending' = pending \union {partitionToCreate(i)}

(***************************************************************************)
(* Connections the pool still has.  A leaked transaction keeps its own.    *)
(***************************************************************************)
FreeConnections(i) ==
  DatabaseMaxOpenConnections - Len(leaked[i]) - (IF tx[i] = "none" THEN 0 ELSE 1)

-----------------------------------------------------------------------------
(* One run of Partition *)

\* Mutant of StartRun: the loop starts before the first period.
StartRunBefore(i) ==
  /\ pc[i] = "idle"
  /\ plan' = [plan EXCEPT ![i] =
                PartitionsForPeriod(today, MetricPartitioningPrefillPeriodDays)]
  /\ at' = [at EXCEPT ![i] = 0]
  /\ clean' = [clean EXCEPT ![i] = TRUE]
  /\ pc' = [pc EXCEPT ![i] = "begin"]
  /\ UNCHANGED <<database, tx, leaked>>

(***************************************************************************)
(* A tick of the routine, or its first run: the plan is made from the      *)
(* clock once.                                                             *)
(***************************************************************************)
StartRun(i) ==
  /\ pc[i] = "idle"
  /\ plan' = [plan EXCEPT ![i] =
                PartitionsForPeriod(today, MetricPartitioningPrefillPeriodDays)]
  /\ at' = [at EXCEPT ![i] = 1]
  /\ clean' = [clean EXCEPT ![i] = TRUE]
  /\ pc' = [pc EXCEPT ![i] = "begin"]
  /\ UNCHANGED <<database, tx, leaked>>

\* On to the next period, or out of the loop, the transaction over.
Continue(i) ==
  /\ tx' = [tx EXCEPT ![i] = "none"]
  /\ \/ /\ at[i] < Len(plan[i])
        /\ at' = [at EXCEPT ![i] = @ + 1]
        /\ pc' = [pc EXCEPT ![i] = "begin"]
        /\ UNCHANGED plan
     \/ /\ at[i] = Len(plan[i])
        /\ at' = [at EXCEPT ![i] = 1]
        /\ pc' = [pc EXCEPT ![i] = "idle"]
        /\ plan' = [plan EXCEPT ![i] = <<>>]

Goto(i, label) == pc' = [pc EXCEPT ![i] = label] /\ UNCHANGED <<plan, at>>

Fails(i) == Continue(i) /\ clean' = [clean EXCEPT ![i] = FALSE]

BeginTx(i) ==
  /\ pc[i] = "begin"
  /\ FreeConnections(i) > 0
  /\ \/ /\ tx' = [tx EXCEPT ![i] = "open"]
        /\ Goto(i, "select")
        /\ UNCHANGED clean
     \/ Fails(i)
  /\ UNCHANGED <<database, leaked>>

(***************************************************************************)
(* select * from the table: it exists and is locked, it does not exist     *)
(* (42P01), or another error rolls back.                                   *)
(***************************************************************************)
SelectFromPartition(i) ==
  /\ pc[i] = "select"
  /\ \/ /\ partitionToCreate(i).table \in created
        /\ tx' = [tx EXCEPT ![i] = "reading"]
        /\ Goto(i, "inherits")
        /\ UNCHANGED clean
     \/ /\ partitionToCreate(i).table \notin created
        /\ Goto(i, "create")
        /\ UNCHANGED <<tx, clean>>
     \/ Fails(i)
  /\ UNCHANGED <<database, leaked>>

(***************************************************************************)
(* CREATE TABLE IF NOT EXISTS, on a second connection: it is not undone    *)
(* by the rollback, nor known not to have happened when it fails.          *)
(***************************************************************************)
CreateTable(i) ==
  /\ pc[i] = "create"
  /\ FreeConnections(i) > 0
  /\ \/ /\ created' = created \union {partitionToCreate(i).table}
        /\ Goto(i, "attach")
        /\ UNCHANGED <<tx, clean>>
     \/ /\ created' \in {created, created \union {partitionToCreate(i).table}}
        /\ Fails(i)
  /\ UNCHANGED <<today, attached, pending, leaked>>

(***************************************************************************)
(* ALTER TABLE ... ATTACH PARTITION, on a second connection, of the table  *)
(* just created or of a dangling one, once no transaction reads it.        *)
(* Attached, the transaction commits; refused, it rolls back.              *)
(***************************************************************************)
Attach(i) ==
  /\ pc[i] = "attach"
  /\ FreeConnections(i) > 0
  /\ Readers(partitionToCreate(i).table) = {}
  /\ AttachPartition(partitionToCreate(i))
  /\ Continue(i)
  /\ UNCHANGED <<today, created, pending, leaked, clean>>

\* Mutant of AttachFails: the driver has no read timeout.
AttachFailsUnlocked(i) ==
  /\ pc[i] = "attach"
  /\ FreeConnections(i) > 0
  /\ Readers(partitionToCreate(i).table) = {}
  /\ UNCHANGED pending \/ LeaveBehind(i)
  /\ Fails(i)
  /\ UNCHANGED <<today, created, attached, leaked>>

(***************************************************************************)
(* The statement fails, or waits for its lock until the read timeout; the  *)
(* transaction rolls back, the statement may live on at the server.        *)
(***************************************************************************)
AttachFails(i) ==
  /\ pc[i] = "attach"
  /\ FreeConnections(i) > 0
  /\ UNCHANGED pending \/ LeaveBehind(i)
  /\ Fails(i)
  /\ UNCHANGED <<today, created, attached, leaked>>

\* Mutant of QueryInherits: a table that exists is taken to be attached.
QueryInheritsTrusting(i) ==
  /\ pc[i] = "inherits"
  /\ FreeConnections(i) > 0
  /\ Continue(i)
  /\ UNCHANGED <<database, leaked, clean>>

(***************************************************************************)
(* The catalogue query, on a second connection.  Attached: commit.  Not    *)
(* attached, or reading the rows failed, which makes Next() false too and  *)
(* is not noticed: attach it, the transaction still reading it.  On an     *)
(* error of the query itself the loop continues and the transaction is     *)
(* never ended.                                                            *)
(***************************************************************************)
QueryInherits(i) ==
  /\ pc[i] = "inherits"
  /\ FreeConnections(i) > 0
  /\ \/ /\ \E p \in attached : p.table = partitionToCreate(i).table
        /\ Continue(i)
        /\ UNCHANGED <<leaked, clean>>
     \/ /\ Goto(i, "attach")
        /\ UNCHANGED <<tx, leaked, clean>>
     \/ /\ Leftovers < MaxLeftovers
        /\ leaked' = [leaked EXCEPT ![i] = Append(@, partitionToCreate(i).table)]
        /\ Fails(i)
  /\ UNCHANGED database

-----------------------------------------------------------------------------
(* The environment *)

(***************************************************************************)
(* A process stops, in a rolling update or a crash: its connections close, *)
(* its transactions end, its statement may live on.  It starts again as an *)
(* idle routine.                                                           *)
(***************************************************************************)
Stop(i) ==
  /\ pc[i] # "idle" \/ leaked[i] # <<>>
  /\ UNCHANGED pending \/ (pc[i] = "attach" /\ LeaveBehind(i))
  /\ pc' = [pc EXCEPT ![i] = "idle"]
  /\ tx' = [tx EXCEPT ![i] = "none"]
  /\ leaked' = [leaked EXCEPT ![i] = <<>>]
  /\ plan' = [plan EXCEPT ![i] = <<>>]
  /\ at' = [at EXCEPT ![i] = 1]
  /\ clean' = [clean EXCEPT ![i] = FALSE]
  /\ UNCHANGED <<today, created, attached>>

\* The server runs a statement left behind, or notices that its client has gone.
RunPending ==
  \E p \in pending :
    /\ \/ Readers(p.table) = {} /\ AttachPartition(p)
       \/ UNCHANGED attached
    /\ pending' = pending \ {p}
    /\ UNCHANGED <<today, created, pc, plan, at, tx, leaked, clean>>

Midnight ==
  /\ today < LastDay
  /\ today' = today + 1
  /\ UNCHANGED <<created, attached, pending, pc, plan, at, tx, leaked, clean>>

Step(i) ==
  \/ BeginTx(i)
  \/ SelectFromPartition(i)
  \/ CreateTable(i)
  \/ Attach(i)
  \/ AttachFails(i)
  \/ QueryInherits(i)

Next ==
  \/ \E i \in Instances : StartRun(i) \/ Step(i) \/ Stop(i)
  \/ RunPending
  \/ Midnight

Spec == Init /\ [][Next]_vars

(***************************************************************************)
(* A run goes on: every statement returns or times out.  Nobody promises   *)
(* ticks, the end of a day, or that a statement succeeds.                  *)
(***************************************************************************)
FairSpec == Spec /\ \A i \in Instances : WF_vars(Step(i))

-----------------------------------------------------------------------------
(* Properties *)

Tables == [format : {"_year_", "_year"}, month : 1 .. Months, day : Nat]
Periods == [table : Tables, from : Nat, to : Nat]

\* The types of the database's and the instances' state.
TypeOK ==
  /\ today \in FirstDay .. LastDay
  /\ created \subseteq Tables
  /\ attached \subseteq Periods
  /\ pending \subseteq Periods
  /\ pc \in [Instances -> {"idle", "begin", "select", "create", "attach", "inherits"}]
  /\ plan \in [Instances -> Seq(Periods)]
  /\ at \in [Instances -> Nat \ {0}]
  /\ tx \in [Instances -> {"none", "open", "reading"}]
  /\ leaked \in [Instances -> Seq(Tables)]
  /\ clean \in [Instances -> BOOLEAN]

(***************************************************************************)
(* Every period that is planned, attached or left at the server holds      *)
(* exactly the day its table is named after, across the end of a month     *)
(* too: a table found by its name is evidence for its day.                 *)
(***************************************************************************)
TablesHoldTheirDay ==
  /\ \A i \in Instances : \A k \in DOMAIN plan[i] : NamedByItsDay(plan[i][k])
  /\ \A p \in attached \union pending : NamedByItsDay(p)

(***************************************************************************)
(* Concurrent instances: when a run ends in which no statement failed,     *)
(* refused ATTACHes excepted, every period it planned has its day covered  *)
(* by an attached partition, whatever the other instances, their crashes   *)
(* and the statements left behind did meanwhile.                           *)
(***************************************************************************)
Ends(i) == pc[i] # "idle" /\ pc'[i] = "idle" /\ clean'[i]

CleanRunCovers ==
  [][\A i \in Instances : Ends(i) =>
       \A k \in DOMAIN plan[i] : Covered(attached', plan[i][k].from)]_vars

(***************************************************************************)
(* A run of Partition ends: no instance waits for ever for a table lock    *)
(* or a connection, of its own or of another instance, as long as fewer    *)
(* catalogue queries have failed than the pool has spare connections.      *)
(***************************************************************************)
RunEnds == \A i \in Instances : pc[i] # "idle" ~> pc[i] = "idle"

(***************************************************************************)
(* architecture/DATABASE_PARTITIONING.md: a run creates partitions up to   *)
(* the prefill period in advance, inclusive of the current day.  The code  *)
(* skips the first day of the next month.                                  *)
(***************************************************************************)
PrefillIsComplete ==
  [][\A i \in Instances : Ends(i) =>
       \A d \in 0 .. MetricPartitioningPrefillPeriodDays - 1 :
         Covered(attached', plan[i][1].from + d)]_vars

(***************************************************************************)
(* Partition's comment: the transaction allows retries on each run and     *)
(* safe concurrency.  A retry that finds a dangling table waits for a lock *)
(* that its own transaction holds.                                         *)
(***************************************************************************)
NeverWaitsForItself ==
  \A i \in Instances : pc[i] = "attach" => i \notin Readers(partitionToCreate(i).table)
=============================================================================
