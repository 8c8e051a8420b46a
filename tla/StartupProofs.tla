---------------------------- MODULE StartupProofs ---------------------------
(***************************************************************************)
(* Proofs about Startup, for any number of instances, migrations, restarts *)
(* and outages.                                                            *)
(***************************************************************************)
EXTENDS Startup, TLAPS, Extrema, FiniteSetTheorems

-----------------------------------------------------------------------------
Labels == {"none", "ping", "init", "lock", "status", "mark", "up", "rollback", "unlock", "done"}

(***************************************************************************)
(* While an instance marks or runs migrations it has one at hand.  The     *)
(* goroutine starts after New was called and ends with the process.        *)
(***************************************************************************)
HasWork ==
  \A i \in Instances :
    /\ mig[i] \in {"mark", "up"} => todo[i] # {}
    /\ main[i] \in {"off", "new", "exited"} => mig[i] = "none"

TypeInv == TypeOK /\ HasWork

LEMMA AtHand ==
  ASSUME TypeInv, NEW i \in Instances, todo[i] # {}
  PROVE  At(i) \in todo[i] /\ At(i) \in Migrations
<1>1. todo[i] \in SUBSET Nat /\ todo[i] \in SUBSET Migrations
  BY StartupAssumption, ZenonT(60) DEF TypeInv, TypeOK
<1>2. \E k \in todo[i] : \A j \in todo[i] : k <= j
  BY <1>1, LeastExists
<1> QED  BY <1>1, <1>2 DEF At

LEMMA GroupsAreNumbers == 1 .. Cardinality(Migrations) + 1 \subseteq Nat
BY StartupAssumption, FS_CardinalityType

LEMMA Bounds ==
  MaxStarts \in Nat /\ MaxOutages \in Nat /\ MaxMetricPartitioningPrefillPeriodDays \in Nat
BY StartupAssumption

LEMMA OutageTypes ==
  ASSUME TypeInv, ReplyIsLost
  PROVE  dbUp' \in BOOLEAN /\ outages' \in 0 .. MaxOutages
<1>1. outages \in 0 .. MaxOutages
  BY DEF TypeInv, TypeOK
<1>2. outages' \in 0 .. MaxOutages
  BY <1>1, Bounds, SMTT(60) DEF ReplyIsLost
<1> QED  BY <1>2, Zenon DEF ReplyIsLost

(***************************************************************************)
(* The types are preserved, goroutine by goroutine.                        *)
(***************************************************************************)
LEMMA MainTypes ==
  ASSUME TypeInv, NEW i \in Instances, Boot(i) \/ Main(i) \/ RoutineFirstRun(i) \/ Crash(i)
  PROVE  TypeInv'
<1> USE DEF TypeInv, TypeOK, HasWork, database
<1>1. CASE Boot(i)
  <2>1. starts' \in 0 .. MaxStarts
    BY <1>1, Bounds DEF Boot
  <2> QED  BY <1>1, <2>1 DEF Boot
<1>2. CASE CreateDatabaseClient(i)
  BY <1>2 DEF CreateDatabaseClient, Goto
<1>3. CASE ReturnClient(i)
  BY <1>3 DEF ReturnClient
<1>4. CASE NewService(i)
  BY <1>4 DEF NewService
<1>5. CASE Die(i)
  <2>1. mig[i] = "up" => At(i) \in Migrations
    BY AtHand
  <2>2. executed' \subseteq Migrations
    BY <1>5, <2>1 DEF Die
  <2>3. torn' \subseteq Migrations
    BY <1>5 DEF Die, Unrun
  <2> QED  BY <1>5, <2>2, <2>3, SMTT(60) DEF Die, Migrating
<1>6. CASE RoutineFirstRun(i)
  BY <1>6, Zenon DEF RoutineFirstRun
<1> QED  BY <1>1, <1>2, <1>3, <1>4, <1>5, <1>6 DEF Main, Panic, Crash

LEMMA MigrationTypes ==
  ASSUME TypeInv, NEW i \in Instances, Migration(i)
  PROVE  TypeInv'
<1> USE DEF TypeInv, TypeOK, HasWork, database, Goto
<1>0. (mig[i] \in {"mark", "up"} => At(i) \in todo[i] /\ At(i) \in Migrations) /\ group[i] \in Nat
  BY AtHand
<1>1. CASE Ping(i)
  BY <1>1, Zenon DEF Ping
<1>2. CASE MigratorInit(i)
  BY <1>2 DEF MigratorInit
<1>3. CASE Lock(i)
  BY <1>3, OutageTypes, ZenonT(60) DEF Lock
<1>4. CASE MigrationsWithStatus(i)
  <2>1. group' \in [Instances -> Nat]
    BY <1>4, GroupsAreNumbers DEF MigrationsWithStatus
  <2>2. todo' \in [Instances -> SUBSET Migrations]
    BY <1>4 DEF MigrationsWithStatus
  <2> QED  BY <1>4, <2>1, <2>2 DEF MigrationsWithStatus
<1>5. CASE MarkApplied(i)
  BY <1>0, <1>5, OutageTypes DEF MarkApplied
<1>6. CASE Up(i)
  <2>1. executed' \subseteq Migrations /\ todo' \in [Instances -> SUBSET Migrations]
    BY <1>0, <1>6, ZenonT(60) DEF Up
  <2>2. dbUp' \in BOOLEAN /\ outages' \in 0 .. MaxOutages
    BY <1>6, OutageTypes, Zenon DEF Up
  <2> QED  BY <1>6, <2>1, <2>2, ZenonT(60) DEF Up
<1>7. CASE UpFails(i)
  BY <1>7 DEF UpFails
<1>8. CASE Rollback(i)
  <2>1. applied' \in [Migrations -> Nat]
    BY <1>8 DEF Rollback
  <2>2. torn' \subseteq Migrations
    BY <1>8 DEF Rollback, Unrun
  <2>3. dbUp' \in BOOLEAN /\ outages' \in 0 .. MaxOutages
    BY <1>8, OutageTypes DEF Rollback
  <2> QED  BY <1>8, <2>1, <2>2, <2>3 DEF Rollback
<1>9. CASE Unlock(i)
  BY <1>9, Zenon DEF Unlock
<1> QED  BY <1>1, <1>2, <1>3, <1>4, <1>5, <1>6, <1>7, <1>8, <1>9, ZenonT(60) DEF Migration

LEMMA TypeStep == TypeInv /\ [Next]_vars => TypeInv'
<1> SUFFICES ASSUME TypeInv, [Next]_vars PROVE TypeInv'
  OBVIOUS
<1>1. CASE DbFails
  <2>1. dbUp' \in BOOLEAN /\ outages' \in 0 .. MaxOutages
    BY <1>1, OutageTypes, Zenon DEF DbFails
  <2>2. UNCHANGED <<lockRow, applied, executed, abandoned, torn, process, starts>>
    BY <1>1, Zenon DEF DbFails
  <2> QED  BY <2>1, <2>2, Zenon DEF TypeInv, TypeOK, HasWork, process
<1>2. CASE DbRecovers
  <2>1. dbUp' \in BOOLEAN /\ outages' = outages
    BY <1>2, Zenon DEF DbRecovers
  <2>2. UNCHANGED <<lockRow, applied, executed, abandoned, torn, process, starts>>
    BY <1>2, Zenon DEF DbRecovers
  <2> QED  BY <2>1, <2>2, Zenon DEF TypeInv, TypeOK, HasWork, process
<1>3. CASE OperatorUnlocks
  <2>1. lockRow' \in BOOLEAN /\ abandoned' \in BOOLEAN
    BY <1>3, Zenon DEF OperatorUnlocks
  <2>2. UNCHANGED <<dbUp, applied, executed, torn, outages, process, starts>>
    BY <1>3, Zenon DEF OperatorUnlocks
  <2> QED  BY <2>1, <2>2, Zenon DEF TypeInv, TypeOK, HasWork, process
<1>4. CASE UNCHANGED vars
  BY <1>4, ZenonT(60) DEF vars, database, process, TypeInv, TypeOK, HasWork
<1> QED  BY <1>1, <1>2, <1>3, <1>4, MainTypes, MigrationTypes, Zenon DEF Next

-----------------------------------------------------------------------------
(***************************************************************************)
(* The lock: every step of an instance that migrates, of one that gets the *)
(* lock and of the operator keeps the lock row where it belongs.           *)
(***************************************************************************)
LockInv == MigrationsExclusive /\ LockIsReleased

LEMMA MigrationLocks ==
  ASSUME TypeInv, LockInv, NEW i \in Instances, Migration(i)
  PROVE  LockInv'
<1> USE DEF LockInv, MigrationsExclusive, LockIsReleased, Migrating, Goto, database
<1>0. mig \in [Instances -> Labels]
  BY DEF TypeInv, TypeOK, Labels
<1>1. CASE Ping(i)
  BY <1>0, <1>1 DEF Ping
<1>2. CASE MigratorInit(i)
  BY <1>0, <1>2 DEF MigratorInit
<1>3. CASE Lock(i)
  <2>1. \A j \in Instances : ~Migrating(j)
    BY <1>3 DEF Lock
  <2>2. mig'[i] = "status" \/ mig' = mig
    BY <1>0, <1>3, Zenon DEF Lock
  <2>3. \A j \in Instances : j # i => mig'[j] = mig[j]
    BY <1>0, <1>3, Zenon DEF Lock
  <2>4. lockRow' /\ (mig'[i] = "status" \/ abandoned')
    BY <1>0, <1>3, Zenon DEF Lock
  <2> QED  BY <2>1, <2>2, <2>3, <2>4
<1>4. CASE MigrationsWithStatus(i)
  BY <1>0, <1>4 DEF MigrationsWithStatus
<1>5. CASE MarkApplied(i)
  BY <1>0, <1>5 DEF MarkApplied
<1>6. CASE Up(i)
  BY <1>0, <1>6, Zenon DEF Up
<1>7. CASE UpFails(i)
  BY <1>0, <1>7 DEF UpFails
<1>8. CASE Rollback(i)
  BY <1>0, <1>8 DEF Rollback
<1>9. CASE Unlock(i)
  <2>1. \A j \in Instances : j # i => ~Migrating(j) /\ mig'[j] = mig[j]
    BY <1>0, <1>9 DEF Unlock
  <2>2. mig'[i] = "done"
    BY <1>0, <1>9 DEF Unlock
  <2>3. lockRow' => abandoned'
    BY <1>9, ZenonT(60) DEF Unlock
  <2> QED  BY <2>1, <2>2, <2>3
<1> QED  BY <1>1, <1>2, <1>3, <1>4, <1>5, <1>6, <1>7, <1>8, <1>9, ZenonT(60) DEF Migration

LEMMA LockStep == TypeInv /\ LockInv /\ [Next]_vars => LockInv'
<1> SUFFICES ASSUME TypeInv, LockInv, [Next]_vars PROVE LockInv'
  OBVIOUS
<1> USE DEF LockInv, MigrationsExclusive, LockIsReleased, Migrating, Goto, database
<1>0. mig \in [Instances -> Labels]
  BY DEF TypeInv, TypeOK, Labels
<1>1. ASSUME NEW i \in Instances, Die(i) PROVE LockInv'
  <2>1. \A j \in Instances : j # i => mig'[j] = mig[j]
    BY <1>0, <1>1 DEF Die
  <2>2. mig'[i] = "none" /\ lockRow' = lockRow
    BY <1>0, <1>1 DEF Die
  <2>3. abandoned \/ Migrating(i) => abandoned'
    BY <1>1, Zenon DEF Die
  <2> QED  BY <2>1, <2>2, <2>3
<1>2. ASSUME NEW i \in Instances, CreateDatabaseClient(i) PROVE LockInv'
  <2>1. mig[i] = "none"
    BY <1>2 DEF CreateDatabaseClient, TypeInv, HasWork
  <2>2. mig'[i] \in {"ping", "none"} /\ \A j \in Instances : j # i => mig'[j] = mig[j]
    BY <1>0, <1>2 DEF CreateDatabaseClient
  <2>3. lockRow' = lockRow /\ abandoned' = abandoned
    BY <1>2, Zenon DEF CreateDatabaseClient
  <2> QED  BY <2>1, <2>2, <2>3
<1>3. ASSUME NEW i \in Instances,
             Boot(i) \/ ReturnClient(i) \/ NewService(i) \/ RoutineFirstRun(i)
      PROVE  LockInv'
  BY <1>3 DEF Boot, ReturnClient, NewService, RoutineFirstRun
<1>4. CASE OperatorUnlocks
  BY <1>4 DEF OperatorUnlocks, process
<1>5. CASE DbFails \/ DbRecovers
  BY <1>5 DEF DbFails, DbRecovers, process
<1>6. CASE UNCHANGED vars
  BY <1>6 DEF vars, process
<1> QED
  BY <1>1, <1>2, <1>3, <1>4, <1>5, <1>6, MigrationLocks DEF Next, Main, Panic, Crash

-----------------------------------------------------------------------------
(***************************************************************************)
(* The marks.  The group of an instance that migrates is the last one, and *)
(* so a rollback unmarks the migration at hand.                            *)
(***************************************************************************)
GroupIsLast ==
  \A i \in Instances : mig[i] \in {"mark", "up"} =>
    group[i] # 0 /\ \A k \in Migrations : applied[k] <= group[i]

MarksAreOwned ==
  \A k \in Unrun(applied, executed) :
    \/ k \in torn
    \/ k \in LastGroup /\ \E i \in Instances : mig[i] \in {"up", "rollback"} /\ k = At(i)

MarkInv == GroupIsLast /\ MarksAreOwned

(***************************************************************************)
(* While one instance has the lock, the other goroutines are elsewhere.    *)
(***************************************************************************)
LEMMA OthersAreElsewhere ==
  ASSUME LockInv, NEW i \in Instances, Migrating(i), NEW j \in Instances, j # i
  PROVE  mig[j] \notin {"status", "mark", "up", "rollback", "unlock"}
BY DEF LockInv, MigrationsExclusive, Migrating

(***************************************************************************)
(* Only the instance that has the lock touches the marks.                  *)
(***************************************************************************)
LEMMA HolderMarks ==
  ASSUME TypeInv, LockInv, MarkInv, NEW i \in Instances, Migrating(i), Migration(i)
  PROVE  MarkInv'
<1> USE DEF Goto, database
<1>0. /\ mig \in [Instances -> Labels] /\ todo \in [Instances -> SUBSET Migrations]
      /\ applied \in [Migrations -> Nat] /\ group \in [Instances -> Nat]
      /\ executed \subseteq Migrations
  BY DEF TypeInv, TypeOK, Labels
<1>1. \A j \in Instances : j # i => mig[j] \notin {"status", "mark", "up", "rollback", "unlock"}
  BY Zenon, OthersAreElsewhere
<1>2. \A j \in Instances : j # i => mig'[j] = mig[j]
  BY <1>0, Zenon DEF Migration, Ping, MigratorInit, Lock, MigrationsWithStatus, MarkApplied, Up,
     UpFails, Rollback, Unlock
<1>3. mig[i] \in {"mark", "up"} => At(i) \in todo[i] /\ At(i) \in Migrations
  BY AtHand DEF TypeInv, HasWork
<1>4. mig[i] \in {"status", "mark", "unlock"} => Unrun(applied, executed) \subseteq torn
  BY <1>1 DEF MarkInv, MarksAreOwned
<1>5. CASE MigrationsWithStatus(i)
  <2>1. applied' = applied /\ executed' = executed /\ torn' = torn
    BY <1>5 DEF MigrationsWithStatus
  <2>2. MarksAreOwned'
    BY <1>4, <1>5, <2>1 DEF MarksAreOwned, Unrun, MigrationsWithStatus
  <2>3. mig'[i] = "mark" =>
          group'[i] # 0 /\ \A k \in Migrations : applied[k] <= group'[i]
    <3> SUFFICES ASSUME mig'[i] = "mark"
                 PROVE  group'[i] # 0 /\ \A k \in Migrations : applied[k] <= group'[i]
      OBVIOUS
    <3>1. PICK g \in 1 .. Cardinality(Migrations) + 1 :
            NextGroup(g) /\ group' = [group EXCEPT ![i] = g]
      BY <1>0, <1>5 DEF MigrationsWithStatus
    <3>2. g \in Nat /\ g >= 1 /\ group'[i] = g
      BY <1>0, <3>1, GroupsAreNumbers
    <3>3. \A k \in Migrations : applied[k] < g /\ applied[k] \in Nat
      BY <1>0, <3>1 DEF NextGroup
    <3> QED  BY <3>2, <3>3
  <2>4. mig'[i] # "up"
    BY <1>0, <1>5, Zenon DEF MigrationsWithStatus
  <2> QED  BY <1>1, <1>2, <2>1, <2>2, <2>3, <2>4 DEF MarkInv, GroupIsLast
<1>6. CASE MarkApplied(i)
  <2>0. group[i] # 0 /\ \A k \in Migrations : applied[k] <= group[i]
    BY <1>6 DEF MarkApplied, MarkInv, GroupIsLast
  <2>1. executed' = executed /\ torn' = torn /\ group' = group /\ todo' = todo
    BY <1>6 DEF MarkApplied
  <2>2. applied' \in [Migrations -> Nat] /\ \A k \in Migrations : applied'[k] <= group[i]
    BY <1>0, <1>3, <1>6, <2>0 DEF MarkApplied
  <2>3. GroupIsLast'
    BY <1>0, <1>1, <1>2, <1>6, <2>0, <2>1, <2>2, ZenonT(60) DEF GroupIsLast, MarkApplied
  <2>4. ASSUME NEW k \in Unrun(applied', executed), k \notin torn
        PROVE  k = At(i) /\ k \in LastGroup' /\ mig'[i] \in {"up", "rollback"}
    <3>1. k \in Migrations /\ applied'[k] # 0 /\ k \notin executed
      BY <2>4 DEF Unrun
    <3>2. applied' = [applied EXCEPT ![At(i)] = group[i]] \/ applied' = applied
      BY <1>6 DEF MarkApplied
    <3>3. applied[k] = 0
      BY <1>4, <1>6, <2>4, <3>1 DEF Unrun, MarkApplied
    <3>4. k = At(i) /\ applied'[k] = group[i]
      BY <1>0, <3>1, <3>2, <3>3
    <3>5. mig'[i] \in {"up", "rollback"}
      BY <1>0, <1>6 DEF MarkApplied
    <3> QED  BY <2>2, <3>1, <3>4, <3>5 DEF LastGroup
  <2>5. At(i)' = At(i)
    BY <2>1, Zenon DEF At
  <2> QED  BY <2>1, <2>3, <2>4, <2>5, ZenonT(60) DEF MarkInv, MarksAreOwned, Unrun
<1>7. CASE Up(i)
  <2>1. /\ applied' = applied /\ torn' = torn /\ group' = group
        /\ executed' = executed \cup {At(i)}
    BY <1>7 DEF Up
  <2>2. Unrun(applied', executed') \subseteq torn
    BY <1>1, <1>7, <2>1 DEF MarkInv, MarksAreOwned, Unrun, Up
  <2>3. mig'[i] \in {"unlock", "mark", "rollback"}
    BY <1>0, <1>7, Zenon DEF Up
  <2> QED  BY <1>1, <1>2, <1>7, <2>1, <2>2, <2>3, ZenonT(60) DEF MarkInv, MarksAreOwned,
     GroupIsLast, Up
<1>8. CASE UpFails(i)
  BY <1>0, <1>1, <1>2, <1>8, SMTT(60) DEF UpFails, MarkInv, MarksAreOwned, GroupIsLast, At,
     LastGroup, Unrun
<1>9. CASE Rollback(i)
  <2>1. GroupIsLast'
    BY <1>0, <1>1, <1>2, <1>9 DEF Rollback, GroupIsLast
  <2>2. Unrun(applied, executed) \subseteq torn \cup LastGroup
    BY DEF MarkInv, MarksAreOwned
  <2>3. Unrun(applied', executed') \subseteq torn'
    BY <1>0, <1>9, <2>2, Zenon DEF Rollback, Unrun
  <2> QED  BY <2>1, <2>3, SMTT(60) DEF MarkInv, MarksAreOwned
<1>10. CASE Unlock(i)
  BY <1>0, <1>1, <1>2, <1>4, <1>10 DEF Unlock, MarkInv, MarksAreOwned, GroupIsLast, Unrun
<1> QED
  BY <1>5, <1>6, <1>7, <1>8, <1>9, <1>10, Zenon DEF Migration, Migrating, Ping, MigratorInit, Lock

(***************************************************************************)
(* A step that leaves the marks and the instance that migrates alone.      *)
(***************************************************************************)
LEMMA MarksUntouched ==
  ASSUME MarkInv,
         applied' = applied, executed' = executed, torn' = torn,
         \A j \in Instances : mig[j] \in {"mark", "up", "rollback"} =>
           mig'[j] = mig[j] /\ todo'[j] = todo[j] /\ group'[j] = group[j],
         \A j \in Instances : mig'[j] \in {"mark", "up"} => mig[j] \in {"mark", "up"}
  PROVE  MarkInv'
<1>1. GroupIsLast'
  BY DEF MarkInv, GroupIsLast
<1>2. LastGroup' = LastGroup /\ Unrun(applied', executed') = Unrun(applied, executed)
  BY DEF LastGroup, Unrun
<1>3. \A j \in Instances : mig[j] \in {"up", "rollback"} => At(j)' = At(j)
  BY DEF At
<1>4. MarksAreOwned'
  BY <1>2, <1>3 DEF MarkInv, MarksAreOwned
<1> QED  BY <1>1, <1>4, ZenonT(60) DEF MarkInv

LEMMA MarkStep == TypeInv /\ LockInv /\ MarkInv /\ [Next]_vars => MarkInv'
<1> SUFFICES ASSUME TypeInv, LockInv, MarkInv, [Next]_vars PROVE MarkInv'
  OBVIOUS
<1> USE DEF database, process, Goto
<1>0. /\ mig \in [Instances -> Labels] /\ todo \in [Instances -> SUBSET Migrations]
      /\ group \in [Instances -> Nat]
  BY DEF TypeInv, TypeOK, Labels
<1>1. ASSUME NEW i \in Instances, Ping(i) \/ MigratorInit(i) \/ Lock(i) PROVE MarkInv'
  <2>1. /\ applied' = applied /\ executed' = executed /\ torn' = torn
        /\ todo' = todo /\ group' = group
    BY <1>1, Zenon DEF Ping, MigratorInit, Lock
  <2>2. /\ mig[i] \in {"ping", "init", "lock"} /\ mig'[i] \notin {"mark", "up", "rollback"}
        /\ \A j \in Instances : j # i => mig'[j] = mig[j]
    BY <1>0, <1>1 DEF Ping, MigratorInit, Lock
  <2> QED  BY Zenon, <2>1, <2>2, MarksUntouched
<1>2. ASSUME NEW i \in Instances, CreateDatabaseClient(i) PROVE MarkInv'
  <2>1. mig[i] = "none"
    BY <1>2 DEF CreateDatabaseClient, TypeInv, HasWork
  <2>2. /\ mig'[i] \in {"ping", "none"} /\ \A j \in Instances : j # i => mig'[j] = mig[j]
        /\ applied' = applied /\ executed' = executed /\ torn' = torn
        /\ todo' = todo /\ group' = group
    BY <1>0, <1>2, ZenonT(60) DEF CreateDatabaseClient
  <2> QED  BY ZenonT(60), <2>1, <2>2, MarksUntouched
<1>3. ASSUME NEW i \in Instances,
             Boot(i) \/ ReturnClient(i) \/ NewService(i) \/ RoutineFirstRun(i)
      PROVE  MarkInv'
  BY <1>3, MarksUntouched DEF Boot, ReturnClient, NewService, RoutineFirstRun
<1>4. ASSUME NEW i \in Instances, Die(i) PROVE MarkInv'
  <2>1. /\ mig'[i] = "none" /\ applied' = applied
        /\ \A j \in Instances : j # i =>
             mig'[j] = mig[j] /\ todo'[j] = todo[j] /\ group'[j] = group[j]
    BY <1>0, <1>4, Zenon DEF Die
  <2>2. CASE Migrating(i)
    <3>1. Unrun(applied', executed') \subseteq torn'
      BY <1>4, <2>1, <2>2, Zenon DEF Die
    <3>2. \A j \in Instances : mig'[j] \notin {"mark", "up"}
      BY Zenon, <2>1, <2>2, OthersAreElsewhere
    <3> QED  BY <3>1, <3>2, Zenon DEF MarkInv, MarksAreOwned, GroupIsLast
  <2>3. CASE ~Migrating(i)
    <3>1. executed' = executed /\ torn' = torn
      BY <1>4, <2>3, ZenonT(60) DEF Die, Migrating
    <3> QED  BY <2>1, <2>3, <3>1, MarksUntouched, Zenon DEF Migrating
  <2> QED  BY Zenon, <2>2, <2>3
<1>5. CASE DbFails \/ DbRecovers \/ OperatorUnlocks \/ UNCHANGED vars
  BY <1>5, MarksUntouched, Zenon DEF DbFails, DbRecovers, OperatorUnlocks, vars
<1>6. ASSUME NEW i \in Instances, Migration(i) PROVE MarkInv'
  <2>1. Migrating(i) \/ Ping(i) \/ MigratorInit(i) \/ Lock(i)
    BY <1>6, Zenon DEF Migration, Migrating, MigrationsWithStatus, MarkApplied, Up, UpFails,
       Rollback, Unlock
  <2> QED  BY Zenon, <1>1, <1>6, <2>1, HolderMarks
<1> QED
  BY <1>2, <1>3, <1>4, <1>5, <1>6 DEF Next, Main, Panic, Crash

-----------------------------------------------------------------------------
(***************************************************************************)
(* A routine runs only in a process whose configuration is valid.          *)
(***************************************************************************)
RoutineInv ==
  \A i \in Instances :
    /\ main[i] \notin {"off", "exited"} => Validate(config[i])
    /\ routine[i] # "none" => main[i] = "serving"
    /\ routine[i] # "blocked"

LEMMA RoutineStep == TypeInv /\ RoutineInv /\ [Next]_vars => RoutineInv'
<1> SUFFICES ASSUME TypeInv, RoutineInv, [Next]_vars PROVE RoutineInv'
  OBVIOUS
<1>0. /\ DOMAIN main = Instances /\ DOMAIN routine = Instances
      /\ main = [j \in Instances |-> main[j]] /\ routine = [j \in Instances |-> routine[j]]
      /\ config' = config
  BY ZenonT(60) DEF TypeInv, TypeOK, Next, Boot, Main, CreateDatabaseClient, ReturnClient,
     NewService, Panic,
     Crash, Die, RoutineFirstRun, Migration, Ping, MigratorInit, Lock, MigrationsWithStatus,
     MarkApplied, Up, UpFails, Rollback, Unlock, DbFails, DbRecovers, OperatorUnlocks, vars,
     process
<1>1. ASSUME NEW i \in Instances, Boot(i) PROVE RoutineInv'
  BY <1>0, <1>1, Zenon DEF Boot, RoutineInv, Validate
<1>2. ASSUME NEW i \in Instances, CreateDatabaseClient(i) \/ ReturnClient(i) PROVE RoutineInv'
  BY <1>0, <1>2 DEF CreateDatabaseClient, ReturnClient, RoutineInv
<1>3. ASSUME NEW i \in Instances, NewService(i) PROVE RoutineInv'
  BY <1>0, <1>3 DEF NewService, RoutineInv
<1>4. ASSUME NEW i \in Instances, Die(i) PROVE RoutineInv'
  BY <1>0, <1>4 DEF Die, RoutineInv
<1>5. ASSUME NEW i \in Instances, RoutineFirstRun(i) PROVE RoutineInv'
  <2>1. config[i].MetricPartitioningPrefillPeriodDays
          \in 1 .. MaxMetricPartitioningPrefillPeriodDays
    BY <1>5 DEF RoutineFirstRun, RoutineInv, Validate
  <2>2. ~(config[i].MetricPartitioningPrefillPeriodDays > MaxMetricPartitioningPrefillPeriodDays)
    BY <2>1, Bounds
  <2>3. routine' = [routine EXCEPT ![i] = "ticking"] /\ main' = main
    BY <1>5, <2>2, Zenon DEF RoutineFirstRun
  <2> QED  BY <1>0, <1>5, <2>3, Zenon DEF RoutineFirstRun, RoutineInv
<1>6. CASE \/ \E i \in Instances : Migration(i)
           \/ DbFails \/ DbRecovers \/ OperatorUnlocks \/ UNCHANGED vars
  <2>1. main' = main /\ routine' = routine
    BY <1>6, Zenon DEF Migration, Ping, MigratorInit, Lock, MigrationsWithStatus, MarkApplied, Up,
       UpFails, Rollback, Unlock, DbFails, DbRecovers, OperatorUnlocks, vars, process
  <2> QED  BY <1>0, <2>1, Zenon DEF RoutineInv
<1> QED  BY <1>1, <1>2, <1>3, <1>4, <1>5, <1>6, ZenonT(60) DEF Next, Main, Panic, Crash

-----------------------------------------------------------------------------
IInv == TypeInv /\ LockInv /\ MarkInv /\ RoutineInv

LEMMA InitEstablishes == Init => IInv
<1> SUFFICES ASSUME Init PROVE IInv
  OBVIOUS
<1>1. TypeInv
  <2>1. applied \in [Migrations -> Nat] /\ executed \subseteq Migrations
    BY DEF Init
  <2>2. starts \in 0 .. MaxStarts /\ outages \in 0 .. MaxOutages
    BY Bounds DEF Init
  <2> QED  BY <2>1, <2>2, Zenon DEF Init, TypeInv, TypeOK, HasWork
<1>2. LockInv
  BY DEF Init, LockInv, MigrationsExclusive, LockIsReleased, Migrating
<1>3. MarkInv
  BY DEF Init, MarkInv, GroupIsLast, MarksAreOwned, Unrun
<1>4. RoutineInv
  BY DEF Init, RoutineInv
<1> QED  BY <1>1, <1>2, <1>3, <1>4 DEF IInv

LEMMA Inductive == Spec => []IInv
<1>1. IInv /\ [Next]_vars => IInv'
  BY TypeStep, LockStep, MarkStep, RoutineStep DEF IInv
<1> QED  BY <1>1, InitEstablishes, PTL DEF Spec

(***************************************************************************)
(* The types hold, and New never returns an error of Migrate.              *)
(***************************************************************************)
THEOREM TypeCorrect == Spec => []TypeOK
<1>1. IInv => TypeOK
  BY DEF IInv, TypeInv
<1> QED  BY <1>1, Inductive, PTL

(***************************************************************************)
(* For any number of instances that crash and restart over a database that *)
(* comes and goes: at most one migrates at a time.                         *)
(***************************************************************************)
THEOREM MutualExclusion == Spec => []MigrationsExclusive
<1>1. IInv => MigrationsExclusive
  BY DEF IInv, LockInv
<1> QED  BY <1>1, Inductive, PTL

(***************************************************************************)
(* Only an instance that stopped or lost its connection with the lock in   *)
(* its hands leaves the row behind.                                        *)
(***************************************************************************)
THEOREM LockReleased == Spec => []LockIsReleased
<1>1. IInv => LockIsReleased
  BY DEF IInv, LockInv
<1> QED  BY <1>1, Inductive, PTL

(***************************************************************************)
(* For any number of migrations: what is marked has been run, is at hand,  *)
(* or was left behind by a crash or a failed rollback.                     *)
(***************************************************************************)
THEOREM MarksAreTrue == Spec => []MarkedIsRun
<1>1. IInv => MarkedIsRun
  BY DEF IInv, MarkInv, MarksAreOwned, MarkedIsRun
<1> QED  BY <1>1, Inductive, PTL

(***************************************************************************)
(* The partitioning routine is never stuck on its error channel.           *)
(***************************************************************************)
THEOREM RoutineTicks == Spec => []RoutineNeverStuck
<1>1. IInv => RoutineNeverStuck
  BY DEF IInv, RoutineInv, RoutineNeverStuck
<1> QED  BY <1>1, Inductive, PTL
=============================================================================
