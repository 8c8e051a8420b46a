----------------------------- MODULE MCStartup ------------------------------
(***************************************************************************)
(* Configurations for TLC: one that migrates, one without a database, and  *)
(* two that keep the service from starting.                                *)
(***************************************************************************)
EXTENDS Startup

Config(db, migrations, prefill, evm) ==
  [MetricDatabaseEnabled |-> db, RunDatabaseMigrations |-> migrations,
   MetricPartitioningPrefillPeriodDays |-> prefill, EvmQueryServiceURLParses |-> evm]

Migrates == Config(TRUE, TRUE, 2, TRUE)

MCConfigs ==
  {Migrates, Config(FALSE, TRUE, 1, TRUE), Config(TRUE, FALSE, 3, TRUE),
   Config(TRUE, FALSE, 1, FALSE)}
OneConfig == {Migrates}
=============================================================================
