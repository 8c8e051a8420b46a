------------------------------ MODULE Startup -------------------------------
(***************************************************************************)
(* The start of the service: main and New, the goroutine that migrates the *)
(* database, and the first run of the partitioning routine, for several    *)
(* instances that share one database.  Instances crash and are started     *)
(* again, the database goes away and comes back.                           *)
(*                                                                         *)
(* External: the database, and bun's migrator.  It keeps a row per applied *)
(* migration with the number of its group, and one row as a lock.  Migrate *)
(* marks a migration as applied and then runs its SQL, which Postgres runs *)
(* as one transaction.  Rollback unmarks the last group; the repository    *)
(* has no down migrations, so that is all it does.                         *)
(***************************************************************************)
EXTENDS Integers, FiniteSets

CONSTANTS
  Instances,
  Configs,       \* what an instance may find in its environment
  Migrations,    \* 1 .. n, in the order of their names
  Idempotent,    \* those whose SQL can be run again: IF NOT EXISTS
  MaxMetricPartitioningPrefillPeriodDays,
  MaxStarts, MaxOutages   \* bounds

ASSUME StartupAssumption ==
  /\ Configs \subseteq [MetricDatabaseEnabled : BOOLEAN, RunDatabaseMigrations : BOOLEAN,
                        MetricPartitioningPrefillPeriodDays : Int,
                        EvmQueryServiceURLParses : BOOLEAN]
  /\ Migrations \subseteq Nat \ {0} /\ IsFiniteSet(Migrations)
  /\ Idempotent \subseteq Migrations
  /\ MaxMetricPartitioningPrefillPeriodDays \in Nat
  /\ MaxStarts \in Nat /\ MaxOutages \in Nat

VARIABLES
  dbUp,       \* the database can be reached
  lockRow,    \* the row of bun_migration_locks
  applied,    \* the group each migration is marked with, 0 if it is not
  executed,   \* the migrations whose SQL has taken effect
  abandoned,  \* history: the lock row was left by one that cannot delete it
  torn,       \* history: migrations left marked by one that could not run them
  main,       \* each instance's main goroutine
  config,     \* its configuration
  err,        \* the err of createDatabaseClient, which its goroutine shares
  mig,        \* its migration goroutine
  todo,       \* the migrations it has still to run
  group,      \* and their group
  routine,    \* its partitioning routine
  starts, outages

database == <<dbUp, lockRow, applied, executed, abandoned, torn, outages>>
process == <<main, config, err, mig, todo, group, routine>>
vars == <<database, process, starts>>

(***************************************************************************)
(* Migrations of earlier releases may have been applied, as one group.     *)
(***************************************************************************)
Init ==
  /\ dbUp \in BOOLEAN /\ lockRow = FALSE /\ abandoned = FALSE /\ torn = {}
  /\ \E old \in Migrations \cup {0} :
       /\ applied = [k \in Migrations |-> IF k <= old THEN 1 ELSE 0]
       /\ executed = {k \in Migrations : k <= old}
  /\ main = [i \in Instances |-> "off"]
  /\ config \in [Instances -> Configs]
  /\ err = [i \in Instances |-> FALSE]
  /\ mig = [i \in Instances |-> "none"]
  /\ todo = [i \in Instances |-> {}]
  /\ group = [i \in Instances |-> 0]
  /\ routine = [i \in Instances |-> "none"]
  /\ starts = 0 /\ outages = 0

Migrating(i) == mig[i] \in {"status", "mark", "up", "rollback", "unlock"}

Goto(i, label) == mig' = [mig EXCEPT ![i] = label]

\* The migration at hand.
At(i) == CHOOSE k \in todo[i] : \A j \in todo[i] : k <= j

Unrun(marks, run) == {k \in Migrations : marks[k] # 0} \ run

-----------------------------------------------------------------------------
(* main and New *)

\* Mutant of Validate: the prefill period is not bounded.
ValidateUnbounded(c) == c.MetricPartitioningPrefillPeriodDays >= 1

Validate(c) ==
  c.MetricPartitioningPrefillPeriodDays \in 1 .. MaxMetricPartitioningPrefillPeriodDays

(***************************************************************************)
(* init() panics on a configuration that is not valid.                     *)
(***************************************************************************)
Boot(i) ==
  /\ main[i] \in {"off", "exited"}
  /\ starts < MaxStarts
  /\ starts' = starts + 1
  /\ main' = [main EXCEPT ![i] = IF Validate(config[i]) THEN "new" ELSE "exited"]
  /\ UNCHANGED <<database, config, err, mig, todo, group, routine>>

\* Mutant of CreateDatabaseClient: it waits for the database.
CreateDatabaseClientWaits(i) ==
  /\ main[i] = "new"
  /\ dbUp
  /\ LET migrates == config[i].MetricDatabaseEnabled /\ config[i].RunDatabaseMigrations
     IN /\ main' = [main EXCEPT ![i] = IF migrates THEN "return" ELSE "dial"]
        /\ Goto(i, IF migrates THEN "ping" ELSE "none")
  /\ UNCHANGED <<database, config, err, todo, group, routine, starts>>

(***************************************************************************)
(* createDatabaseClient, or the noop database.  With migrations to run it  *)
(* starts a goroutine and returns the err that the goroutine shares.       *)
(***************************************************************************)
CreateDatabaseClient(i) ==
  /\ main[i] = "new"
  /\ LET migrates == config[i].MetricDatabaseEnabled /\ config[i].RunDatabaseMigrations
     IN /\ main' = [main EXCEPT ![i] = IF migrates THEN "return" ELSE "dial"]
        /\ Goto(i, IF migrates THEN "ping" ELSE "none")
  /\ UNCHANGED <<database, config, err, todo, group, routine, starts>>

(***************************************************************************)
(* The read of err races with the goroutine's write: an error that has     *)
(* been assigned is seen or not.                                           *)
(***************************************************************************)
ReturnClient(i) ==
  /\ main[i] = "return"
  /\ \/ main' = [main EXCEPT ![i] = "dial"]
     \/ err[i] /\ main' = [main EXCEPT ![i] = "failing"]
  /\ UNCHANGED <<database, config, err, mig, todo, group, routine, starts>>

(***************************************************************************)
(* The rest of New, which connects to nobody, and of main: the routines    *)
(* start if there is a database, and the service listens.                  *)
(***************************************************************************)
NewService(i) ==
  /\ main[i] = "dial"
  /\ \/ /\ config[i].EvmQueryServiceURLParses
        /\ main' = [main EXCEPT ![i] = "serving"]
        /\ routine' = [routine EXCEPT ![i] =
                         IF config[i].MetricDatabaseEnabled THEN "first" ELSE "none"]
     \/ /\ ~config[i].EvmQueryServiceURLParses
        /\ main' = [main EXCEPT ![i] = "failing"]
        /\ UNCHANGED routine
  /\ UNCHANGED <<database, config, err, mig, todo, group, starts>>

(***************************************************************************)
(* The process ends with all its goroutines.  A statement that it had sent *)
(* takes effect or does not; its marks and its lock stay behind.           *)
(***************************************************************************)
Die(i) ==
  /\ main' = [main EXCEPT ![i] = "exited"]
  /\ err' = [err EXCEPT ![i] = FALSE]
  /\ mig' = [mig EXCEPT ![i] = "none"]
  /\ todo' = [todo EXCEPT ![i] = {}]
  /\ group' = [group EXCEPT ![i] = 0]
  /\ routine' = [routine EXCEPT ![i] = "none"]
  /\ executed' \in {executed} \cup
       (IF mig[i] = "up" /\ dbUp THEN {executed \cup {At(i)}} ELSE {})
  /\ torn' = IF Migrating(i) THEN torn \cup Unrun(applied, executed') ELSE torn
  /\ abandoned' = (abandoned \/ Migrating(i))
  /\ UNCHANGED <<dbUp, lockRow, applied, outages, config, starts>>

\* main panics with the error of New.
Panic(i) == main[i] = "failing" /\ Die(i)

Crash(i) == main[i] \notin {"off", "exited", "failing"} /\ starts < MaxStarts /\ Die(i)

(***************************************************************************)
(* Run of the partitioning routine sends the error of its first run on an  *)
(* unbuffered channel that nobody can receive from before Run returns.     *)
(* Partition's only error is a prefill period that is too long.            *)
(***************************************************************************)
RoutineFirstRun(i) ==
  /\ routine[i] = "first"
  /\ routine' = [routine EXCEPT ![i] =
       IF config[i].MetricPartitioningPrefillPeriodDays > MaxMetricPartitioningPrefillPeriodDays
       THEN "blocked" ELSE "ticking"]
  /\ UNCHANGED <<database, main, config, err, mig, todo, group, starts>>

-----------------------------------------------------------------------------
(* The migration goroutine *)

\* The connection breaks after a statement took effect and before its reply.
ReplyIsLost ==
  /\ dbUp /\ dbUp' = FALSE
  /\ outages < MaxOutages /\ outages' = outages + 1

(***************************************************************************)
(* The loop until the database is reachable.                               *)
(***************************************************************************)
Ping(i) ==
  /\ mig[i] = "ping"
  /\ err' = [err EXCEPT ![i] = ~dbUp]
  /\ Goto(i, IF dbUp THEN "init" ELSE "ping")
  /\ UNCHANGED <<database, main, config, todo, group, routine, starts>>

\* Mutant of MigratorInit: the error of Migrate is assigned to the shared err.
MigratorInitAssigns(i) ==
  /\ mig[i] = "init"
  /\ \/ dbUp /\ Goto(i, "lock") /\ UNCHANGED err
     \/ Goto(i, "done") /\ err' = [err EXCEPT ![i] = TRUE]
  /\ UNCHANGED <<database, main, config, todo, group, routine, starts>>

(***************************************************************************)
(* The migrator's tables are created if they do not exist, which may fail  *)
(* when two instances do so at once.                                       *)
(***************************************************************************)
MigratorInit(i) ==
  /\ mig[i] = "init"
  /\ (dbUp /\ Goto(i, "lock")) \/ Goto(i, "done")
  /\ UNCHANGED <<database, main, config, err, todo, group, routine, starts>>

\* Mutant of Lock: an error of the insert is taken for the lock.
LockIgnoringErrors(i) ==
  /\ mig[i] = "lock" /\ dbUp
  /\ lockRow' = TRUE
  /\ \/ Goto(i, "status") /\ UNCHANGED <<dbUp, outages, abandoned>>
     \/ ReplyIsLost /\ abandoned' = TRUE /\ UNCHANGED mig
  /\ UNCHANGED <<applied, executed, torn, main, config, err, todo, group, routine, starts>>

(***************************************************************************)
(* The loop until the row could be inserted.  An insert whose reply is     *)
(* lost counts as failed, and the loop goes on against its own row.        *)
(***************************************************************************)
Lock(i) ==
  /\ mig[i] = "lock" /\ dbUp
  /\ ~lockRow /\ lockRow' = TRUE
  /\ \/ Goto(i, "status") /\ UNCHANGED <<dbUp, outages, abandoned>>
     \/ ReplyIsLost /\ abandoned' = TRUE /\ UNCHANGED mig
  /\ UNCHANGED <<applied, executed, torn, main, config, err, todo, group, routine, starts>>

(***************************************************************************)
(* migrator.Migrate: what is not applied becomes the next group, ...       *)
(***************************************************************************)
NextGroup(g) ==
  /\ \A k \in Migrations : applied[k] < g
  /\ g > 1 => \E k \in Migrations : applied[k] = g - 1

MigrationsWithStatus(i) ==
  /\ mig[i] = "status"
  /\ \/ /\ dbUp
        /\ todo' = [todo EXCEPT ![i] = {k \in Migrations : applied[k] = 0}]
        /\ \E g \in 1 .. Cardinality(Migrations) + 1 :
             NextGroup(g) /\ group' = [group EXCEPT ![i] = g]
        /\ Goto(i, IF todo'[i] = {} THEN "unlock" ELSE "mark")
     \/ ~dbUp /\ Goto(i, "rollback") /\ UNCHANGED <<todo, group>>
  /\ UNCHANGED <<database, main, config, err, routine, starts>>

(***************************************************************************)
(* ... and one after the other is marked ...                               *)
(***************************************************************************)
MarkApplied(i) ==
  /\ mig[i] = "mark"
  /\ \/ /\ applied' = [applied EXCEPT ![At(i)] = group[i]]
        /\ \/ dbUp /\ Goto(i, "up") /\ UNCHANGED <<dbUp, outages>>
           \/ ReplyIsLost /\ Goto(i, "rollback")
     \/ ~dbUp /\ Goto(i, "rollback") /\ UNCHANGED <<applied, dbUp, outages>>
  /\ UNCHANGED <<lockRow, executed, abandoned, torn, main, config, err, todo, group,
                 routine, starts>>

(***************************************************************************)
(* ... and run.                                                            *)
(***************************************************************************)
Up(i) ==
  /\ mig[i] = "up" /\ dbUp
  /\ At(i) \in executed => At(i) \in Idempotent
  /\ executed' = executed \cup {At(i)}
  /\ \/ /\ todo' = [todo EXCEPT ![i] = @ \ {At(i)}]
        /\ Goto(i, IF todo'[i] = {} THEN "unlock" ELSE "mark")
        /\ UNCHANGED <<dbUp, outages>>
     \/ ReplyIsLost /\ Goto(i, "rollback") /\ UNCHANGED todo
  /\ UNCHANGED <<lockRow, applied, abandoned, torn, main, config, err, group, routine,
                 starts>>

\* Mutant of UpFails: the error is logged and the next migration is run.
UpFailsGoesOn(i) ==
  /\ mig[i] = "up"
  /\ todo' = [todo EXCEPT ![i] = @ \ {At(i)}]
  /\ Goto(i, IF todo'[i] = {} THEN "unlock" ELSE "mark")
  /\ UNCHANGED <<database, main, config, err, group, routine, starts>>

\* The SQL fails: the database is away, it finds its columns there, it times out.
UpFails(i) ==
  /\ mig[i] = "up"
  /\ Goto(i, "rollback")
  /\ UNCHANGED <<database, main, config, err, todo, group, routine, starts>>

LastGroup ==
  {k \in Migrations : applied[k] # 0 /\ \A j \in Migrations : applied[j] <= applied[k]}

(***************************************************************************)
(* After an error of Migrate the last group is unmarked, last one first;   *)
(* this stops at the first statement that fails.                           *)
(***************************************************************************)
Rollback(i) ==
  /\ mig[i] = "rollback"
  /\ \/ /\ dbUp /\ UNCHANGED <<dbUp, outages>>
        /\ applied' = [k \in Migrations |-> IF k \in LastGroup THEN 0 ELSE applied[k]]
        /\ torn' = torn \ LastGroup
     \/ /\ ReplyIsLost
        /\ \E m \in LastGroup :
             applied' = [k \in Migrations |-> IF k \in LastGroup /\ k >= m THEN 0 ELSE applied[k]]
        /\ torn' = torn \cup Unrun(applied', executed)
     \/ /\ ~dbUp /\ UNCHANGED <<dbUp, outages, applied>>
        /\ torn' = torn \cup Unrun(applied, executed)
  /\ Goto(i, "unlock")
  /\ UNCHANGED <<lockRow, executed, abandoned, main, config, err, todo, group, routine,
                 starts>>

\* Mutant of Unlock: it is not deferred, and skipped after an error.
UnlockNotDeferred(i) ==
  /\ mig[i] = "unlock"
  /\ \/ dbUp /\ todo[i] = {} /\ lockRow' = FALSE /\ abandoned' = FALSE
     \/ dbUp /\ todo[i] # {} /\ UNCHANGED <<lockRow, abandoned>>
     \/ ~dbUp /\ abandoned' = TRUE /\ UNCHANGED lockRow
  /\ todo' = [todo EXCEPT ![i] = {}]
  /\ group' = [group EXCEPT ![i] = 0]
  /\ Goto(i, "done")
  /\ UNCHANGED <<dbUp, applied, executed, torn, outages, main, config, err, routine, starts>>

\* Mutant of Unlock: migrations that failed are tried again, without a limit.
UnlockAndRetry(i) ==
  /\ mig[i] = "unlock"
  /\ \/ dbUp /\ lockRow' = FALSE /\ abandoned' = FALSE
     \/ ~dbUp /\ abandoned' = TRUE /\ UNCHANGED lockRow
  /\ todo' = [todo EXCEPT ![i] = {}]
  /\ group' = [group EXCEPT ![i] = 0]
  /\ Goto(i, IF todo[i] = {} THEN "done" ELSE "lock")
  /\ UNCHANGED <<dbUp, applied, executed, torn, outages, main, config, err, routine, starts>>

(***************************************************************************)
(* The deferred Unlock, after the status was read or an error returned.    *)
(* Its own error is logged, and the row stays.                             *)
(***************************************************************************)
Unlock(i) ==
  /\ mig[i] = "unlock"
  /\ \/ dbUp /\ lockRow' = FALSE /\ abandoned' = FALSE
     \/ ~dbUp /\ abandoned' = TRUE /\ UNCHANGED lockRow
  /\ todo' = [todo EXCEPT ![i] = {}]
  /\ group' = [group EXCEPT ![i] = 0]
  /\ Goto(i, "done")
  /\ UNCHANGED <<dbUp, applied, executed, torn, outages, main, config, err, routine, starts>>

-----------------------------------------------------------------------------
(* The environment *)

DbFails ==
  /\ ReplyIsLost
  /\ UNCHANGED <<lockRow, applied, executed, abandoned, torn, process, starts>>

DbRecovers ==
  /\ ~dbUp /\ dbUp' = TRUE
  /\ UNCHANGED <<lockRow, applied, executed, abandoned, torn, outages, process, starts>>

(***************************************************************************)
(* architecture/MIGRATIONS.MD: an operator makes sure that the holder of   *)
(* the lock is gone and deletes the row.                                   *)
(***************************************************************************)
OperatorUnlocks ==
  /\ dbUp /\ lockRow
  /\ \A i \in Instances : ~Migrating(i)
  /\ lockRow' = FALSE /\ abandoned' = FALSE
  /\ UNCHANGED <<dbUp, applied, executed, torn, outages, process, starts>>

Main(i) == CreateDatabaseClient(i) \/ ReturnClient(i) \/ NewService(i) \/ Panic(i)

Migration(i) ==
  \/ Ping(i) \/ MigratorInit(i) \/ Lock(i)
  \/ MigrationsWithStatus(i) \/ MarkApplied(i) \/ Up(i) \/ UpFails(i)
  \/ Rollback(i) \/ Unlock(i)

Next ==
  \/ \E i \in Instances :
       Boot(i) \/ Main(i) \/ Migration(i) \/ RoutineFirstRun(i) \/ Crash(i)
  \/ DbFails \/ DbRecovers \/ OperatorUnlocks

Spec == Init /\ [][Next]_vars

(***************************************************************************)
(* The goroutines run on.  Operators delete the locks of those who are     *)
(* gone.  Nobody promises that the database comes back.                    *)
(***************************************************************************)
FairSpec ==
  /\ Spec
  /\ \A i \in Instances : WF_vars(Main(i)) /\ WF_vars(Migration(i))
  /\ WF_vars(OperatorUnlocks)

-----------------------------------------------------------------------------
(* Properties *)

(***************************************************************************)
(* The types of the database's and the instances' state; the err that New  *)
(* may return is never one of Migrate's, whose err is a variable of its    *)
(* own.                                                                    *)
(***************************************************************************)
TypeOK ==
  /\ dbUp \in BOOLEAN /\ lockRow \in BOOLEAN /\ abandoned \in BOOLEAN
  /\ applied \in [Migrations -> Nat]
  /\ executed \subseteq Migrations /\ torn \subseteq Migrations
  /\ main \in [Instances -> {"off", "new", "return", "dial", "failing", "serving", "exited"}]
  /\ config \in [Instances -> Configs]
  /\ err \in [Instances -> BOOLEAN] /\ \A i \in Instances : err[i] => mig[i] = "ping"
  /\ mig \in [Instances -> {"none", "ping", "init", "lock", "status", "mark", "up",
                            "rollback", "unlock", "done"}]
  /\ todo \in [Instances -> SUBSET Migrations]
  /\ group \in [Instances -> Nat]
  /\ routine \in [Instances -> {"none", "first", "blocked", "ticking"}]
  /\ starts \in 0 .. MaxStarts /\ outages \in 0 .. MaxOutages

(***************************************************************************)
(* At most one instance at a time reads, marks, runs or rolls back         *)
(* migrations, whatever crashes, lost replies and operators do to the lock *)
(* row.                                                                    *)
(***************************************************************************)
MigrationsExclusive ==
  /\ \A i, j \in Instances : Migrating(i) /\ Migrating(j) => i = j
  /\ (\E i \in Instances : Migrating(i)) => lockRow

(***************************************************************************)
(* The lock row outlives the one who inserted it only when that instance   *)
(* stopped, or lost its connection, while it had the lock: every return of *)
(* Migrate, also after an error and a rollback, deletes it.                *)
(***************************************************************************)
LockIsReleased == lockRow => abandoned \/ \E i \in Instances : Migrating(i)

(***************************************************************************)
(* A migration that is marked as applied has been run, or is about to be   *)
(* by the instance that has the lock, unless an instance stopped or lost   *)
(* the database before it could run or unmark it.                          *)
(***************************************************************************)
MarkedIsRun ==
  \A k \in Unrun(applied, executed) :
    k \in torn \/ \E i \in Instances : mig[i] \in {"up", "rollback"} /\ k = At(i)

(***************************************************************************)
(* The partitioning routine never blocks on the channel for its first      *)
(* error: a configuration with which Partition fails is not valid.         *)
(***************************************************************************)
RoutineNeverStuck == \A i \in Instances : routine[i] # "blocked"

(***************************************************************************)
(* The start of an instance does not wait for the database, which may      *)
(* never come: main serves or the process exits.                           *)
(***************************************************************************)
StartIsNotBlocked ==
  \A i \in Instances : main[i] = "new" ~> main[i] \in {"serving", "exited"}

(***************************************************************************)
(* Once the database stays reachable, every migration goroutine gets the   *)
(* lock and returns, unless its process stops.                             *)
(***************************************************************************)
MigrationsSettle ==
  <>[]dbUp => \A i \in Instances : mig[i] = "ping" ~> mig[i] \in {"done", "none"}

(***************************************************************************)
(* service.go:184: the migrations run in the background so that the        *)
(* service starts without its database.  The error of an early health      *)
(* check can become the error of New, and main panics.                     *)
(***************************************************************************)
StartsWithoutDatabase ==
  \A i \in Instances :
    main[i] = "failing" => ~config[i].EvmQueryServiceURLParses

(***************************************************************************)
(* migrate.go:50: a failed migration is rolled back so that migrations can *)
(* be attempted again.  The ones of the group that had been run are        *)
(* unmarked but not undone; run again, they find their columns there.      *)
(***************************************************************************)
RollbackAllowsRetry ==
  \A i \in Instances : mig[i] = "up" /\ At(i) \in executed => At(i) \in Idempotent
=============================================================================
