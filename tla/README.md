# Verification of kava-proxy-service

TLA+ models of the proxy service, the TLC runs that check them on small
instances, and TLAPS proofs of the properties that matter most for every value
of the constants. `PROJECT.json` lists the runs, the theorems, the mutants that
each property catches, the hazards it is about, and the source lines behind
every definition. Paths below are relative to `src/`.

## The system

A JSON-RPC request to the proxy passes through a chain of HTTP middlewares that
`service/service.go` builds.

1. **Decode** (`service/middleware.go`, `decode/evm_rpc.go`). A single request is
   decoded and put in the context. A batch goes to the batch middleware; a body
   that is neither is forwarded as it is.
2. **Batch** (`service/batchmdw`). One goroutine per sub-request runs the single
   request sequence against a fake response writer. The serving goroutine waits
   for all of them and combines their responses.
3. **Is cached** (`service/cachemdw/is_cached_middleware.go`). A cacheable
   request is looked up in Redis.
4. **Proxy** (`service/middleware.go`, `service/proxy.go`, `service/shard.go`).
   The response comes from the cache or from the backend that the host, the
   method and the block height select.
5. **Caching** (`service/cachemdw/caching_middleware.go`, `cache.go`). A response
   that can no longer change is stored.
6. **Finalizer** (`service/middleware.go`). A metric is built, for which the block
   of a hash may be asked of the EVM query service, and a new goroutine saves it
   in Postgres.

Beside the requests, `main.go` reads and validates the configuration (`config/`),
the database client runs migrations, and routines partition, compact and prune
the metrics (`routines/`, `clients/database/postgres`).

## Modules

| Module | Models | Source |
| --- | --- | --- |
| `BatchProcessor` | the goroutines of one batch | `service/batchmdw/*.go` |
| `BatchService` | what a batch promises its client | abstract |
| `BatchRefinement` | the mapping from one to the other | |
| `BatchProcessorProofs` | the proofs about batches | |
| `Decode` | method tables, block parameters, the tag codec | `decode/evm_rpc.go` |
| `Intervals` | the sorted shard ends and the lookup of a height | `config/intervalmap.go` |
| `IntervalsProofs` | the lemmas about the lookup | |
| `Config` | the host and shard maps and their validation | `config/config.go`, `config/validate.go` |
| `Routing` | the backend of a request | `service/proxy.go`, `service/shard.go` |
| `RoutingService`, `MCRoutingService` | start of the service, then one routed request; environments and requests for TLC | `main.go` |
| `RoutingServiceProofs` | the proofs about configuration and routing | |
| `ServiceCache` | what is cacheable, and under which key | `service/cachemdw` |
| `RequestPipeline`, `MCRequestPipeline` | concurrent handlers in the single request sequence; calls for TLC | `service/middleware.go`, `service/cachemdw`, `clients/cache/redis.go` |
| `Gateway` | what the service promises a client | abstract |
| `PipelineRefinement` | the mapping from one to the other | |
| `RequestPipelineProofs`, `PipelineRefinementProofs` | the proofs about the request sequence and the mapping | |
| `Calendar` | the periods a run plans | `clients/database/postgres/partition.go` |
| `Partition`, `MCPartition` | concurrent runs of `Partition` against one database; a calendar for TLC | `clients/database/postgres/partition.go`, `routines/metric_partitioning.go` |
| `PartitionProofs` | the proofs about partitioning | |
| `Startup`, `MCStartup` | start of the service, migrations, first run of the routine; configurations for TLC | `main.go`, `service/service.go`, `clients/database/postgres/migrate.go`, `routines/metric_partitioning.go` |
| `StartupProofs` | the proofs about the start | |
| `Extrema` | lemmas: the least and the greatest of a set of naturals | |

### Batches

`BatchProcessor` has one control state for the serving goroutine (`main`) and one
per sub-request (`pc`). `wg`, `mu`, `responses`, `header`, `cacheHits` and
`status` are the WaitGroup's counter and the fields of the Go struct. A critical
section is one step when it touches one field. `applyHeaders` is two steps, split
inside `cacheHits += 1`, so that the mutex has something to protect. The handler
of a sub-request is seen through its response writer only: a status, a body that
is JSON, empty or something else, a cache header, or a panic before or after.
`RequestAndServe`'s four outcomes are the disjuncts of `Serve`.

`BatchService` has none of this: sub-requests write and end, and one answer that
is determined by how they ended is given when all of them have. It permits what
the code does about panics and bodies that are not JSON; the runs below say where
that differs from the documentation.

### Routing

A request is a host, a method and params; a param is null, an object, a tag, a
number or another word. `MaxInt64` stands for the largest int64, so that numbers
beyond it are among the inputs. `ProxyForRequest` composes the default, pruning
and shard proxies as `NewProxies` does, with the panic of a missing param as one
of its results. `RoutingService` adds the clusters of
`architecture/PROXY_ROUTING.md`: a pruning cluster holds the tip, a shard its
heights, the default cluster the rest. What a request needs, the position of its
block number included (`BlockPosition`), is defined from the JSON-RPC specification
and not from the routing code, so the two can disagree. The environment holds the
raw maps, and the configuration what `ReadConfig` makes of them; routing sees the
configuration, and `RouteIsConfigured` compares the route with the raw maps. The
environment also has both switches, `PROXY_HEIGHT_BASED_ROUTING_ENABLED` and
`PROXY_SHARDED_ROUTING_ENABLED`. `ReadConfig` never reads the second; the data
that the clusters hold depends on it.

`RoutedToHolder` is about every request and setting with three exceptions, each
named in the module. `Uncle` and `LooksLikeATag` are requests that the code takes
for others, and sharding without height-based routing is the subject of the run
`sharded_switch`.

`Intervals` is `NewIntervalURLMap` and `Lookup`. `sort.Slice` and `sort.Search`
are external and given by what they return: the ascending list of the ends, and
the first index at which the predicate holds.

### The request sequence

A handler of `RequestPipeline` goes through `received`, `looked`, `forwarded`,
`proxied`, `stored` and possibly `resolving` to `done` or `aborted`; the other
variables are what the Go code keeps in the request's context, and the metric
that is saved after the handler has returned. Each middleware is one or more
actions, one per outcome. Redis may fail at every access. A backend answers from
its own view of the chain, with an error, with bytes that are not JSON-RPC, or
breaks off, which aborts the handler. Views grow independently, so two backends
disagree about a new block, and a transaction is pending, unknown or included.
Backends, Redis, the database and the EVM query service are external and modelled
from how the code uses them.

`Gateway` answers a call with what some backend says at that moment. For a cache
to implement it, an entry must never be something the chain no longer says.

`config` holds the two switches of the service, the cache and the metrics, which
are fixed when it starts. `pipeline` takes all four combinations, and
`pipeline_refinement` both on and both off.

### Partitioning

`Calendar` counts days and months from fixed ones and drops the time of day, as
`Truncate` does. It assumes that the process runs in UTC: `partition.go:41` takes
the date in the local zone and `:57` truncates to midnight in UTC, which elsewhere
are two different days for some hours. `Partition` has one control state per instance: `begin`,
`select`, `create`, `attach`, `inherits` are the statements of the loop body, and
each outcome of a statement is a disjunct with the commit, the rollback or the
missing rollback that follows it. An error that ends the rows of the last query
early is never looked at (`partition.go:210`), so a table that is attached may be
taken for one that is not. The database is external. What matters of it is
that a transaction which has read a table keeps a shared lock on it until it ends,
that `ATTACH PARTITION` waits for an exclusive one and refuses overlaps, and that
a statement whose client is gone may still run (`pending`). The pool has
`DatabaseMaxOpenConnections` connections, and a leaked transaction keeps one.
Instances stop at any point and start again.

### Start and migrations

`Startup` has the main goroutine of each instance (`main`), its migration
goroutine (`mig`) and its partitioning routine. `err` is the variable that
`createDatabaseClient` and its goroutine share; its racy read is a choice. The
migrator of bun is external: it inserts a row as the lock, marks a migration with
its group and then runs its SQL, and its rollback unmarks the last group. A reply
may be lost after a statement took effect. `Die` leaves in the database what an
instance had there. `abandoned` and `torn` are history variables: they record that
a crash or an outage, and not a return of `Migrate`, left the lock or a mark.

## Runs

Passing runs:

| Run | Question |
| --- | --- |
| `batch` | Is the answer to a batch right in every interleaving, does the code implement `BatchService`, and is every batch answered? |
| `routing` | Does every request of every valid configuration reach a cluster that holds what it needs, is it the one the environment names for the host, and are only unknown hosts refused? Does the lookup of a height find its shard at every boundary? |
| `pipeline` | Does the cache ever hold or serve an answer that may change, or answer one request with the response of another? Do metrics match answers? |
| `pipeline_refinement` | Can a client tell the service from one without a cache? Is every request finished? |
| `partition` | Do concurrent, failing and restarted runs of `Partition` cover the days they plan, and does every run end? |
| `startup` | Does one instance at a time migrate; are locks and marks left behind by failures only; does the start wait for the database; do migrations end? |

Runs in which TLC finds what a document or a comment says to be false of the code:

| Run | What the code does |
| --- | --- |
| `batch_panic` | A panic that is to be "discarded" leaves a nil response; the serving goroutine then panics, and the whole batch is lost. |
| `sharded_switch` | With sharded routing on and height-based routing off, `config/config.go:358` leaves the shards unused, and a height that a shard holds is asked of the default cluster. |
| `partition_prefill` | A run over the end of a month creates no partition for the first day of the next month. |
| `partition_selfwait` | A retry that finds a dangling table waits for the lock of its own transaction, until the driver's read timeout. |
| `startup_race` | An early failed health check becomes the error of `New`; the service, which is to start without its database, panics. |
| `migrations_retry` | After an error the rollback unmarks migrations whose SQL has been run; the next attempt runs them again and fails. |

More disagreements, without a run of their own:

- `service/batchmdw/batch_processor.go:120`: the headers of a batch are those of the
  sub-request that completes first; `service/batchmdw/doc.go:8` says of the first
  request. `BatchService` permits those of any sub-request that returned.
- `decode/evm_rpc.go:325`: a missing block parameter panics;
  `architecture/PROXY_ROUTING.md:120` says that it means `latest`. The panics are
  in the models of routing and of the request sequence.
- `decode/evm_rpc.go:204`: `eth_getUncleByBlockNumberAndIndex` is routed by the index
  of the uncle, so to the wrong shard. `RoutedToHolder` leaves this method out, and
  TLC finds it false of this method otherwise.
- `decode/evm_rpc.go:340`: a decimal block number is routed by its value, and the
  tags have the values -1 to -6 (`:221`). So "-1" goes to the pruning cluster and
  "-3" to the first shard, where other negative numbers go to the default cluster.
  `RoutedToHolder` leaves these six numbers out, and TLC finds it false of -1
  otherwise.
- `service/middleware.go:476`: the finalizer waits for the EVM query service inside
  the handler; `architecture/MIDDLEWARE.MD:53` says that it does not block the
  response.
- `service/middleware.go:336`: with several forwarded addresses the metric records
  the load balancer's, although the comment at line 212 says that the last one
  wins. `MetricsMatchAnswers` is about at most one.
- `clients/database/postgres/partition.go:56` and `:81` name their tables in two
  formats. A month later the table of a day is not found by its other name; a
  second one is created whose `ATTACH` is refused, and every further run then
  finds it dangling and waits for itself.
- `config/config.go:390` turns a TTL of -1 into -1 seconds, which
  `config/validate.go:104` does not recognise as "cache indefinitely", so the
  service does not start.
- `service/middleware.go:456` records the referer as the origin, and `main.go:106`
  gives the pruning routine the delay of the partitioning routine.

### Bounds

- `batch`: batches of one and of three, and one that is too large (four). Three
  goroutines are enough for two to race inside `bp.mu` while a third fails or
  panics; the proofs cover every size.
- `routing`: a host with every kind of backend, one with the default backend only,
  one with none; shards ending at 2 and 4, or at 1, 3 and `MaxInt64` = 8; every
  setting of the two switches; block numbers before, on, between and beyond the
  ends, zero, negative numbers, and numbers beyond int64. Maps that do not parse, that lack a
  fallback, or that name a host twice, are among the environments. The proofs have
  no such bounds.
- pipeline: two handlers, since an entry has one writer and one reader at a time;
  two backends, so that one lags; a chain that grows from height 1 to
  `MaxHeight` = 2, so that block 2 and its transaction come into being during a
  behaviour. A handler takes its next request once its last metric is saved,
  which bounds the saves in flight. `pipeline` uses symmetry of the handlers, and
  the runs with liveness properties do not.

- `partition`: two instances, since what can go wrong is between one run and one
  other; months of two and three days and a prefill period of two, so that a plan
  reaches the next month and the prefill period is as long as the shortest month;
  the last day of a month and the first of the next; one leftover (`MaxLeftovers`),
  a leaked transaction or an abandoned statement, and a pool of three connections,
  so that one is spare beyond the two a run needs. The proofs have no such bounds.
- `startup`: two instances, each with one of four configurations (one that
  migrates, one without a database, one with a prefill period that is too long, one
  whose EVM query service URL does not parse); two migrations of which one can be
  run again, with none, one or both applied before; `MaxStarts` = 3, so that one
  instance restarts while the other migrates; `MaxOutages` = 1 after the start, in
  which the database may also be away. The proofs have no such bounds.

Every run checks deadlock except those of `Startup`, where an instance that exits
for the last time stays down. Batches and routed requests end in an
explicit stuttering step, which exists in final states only.

### Fairness

Weak fairness for each goroutine: the Go scheduler runs what is runnable. For a
handler this includes that a backend and Redis answer or that their connections
break. `Spec` of the request sequence assumes the same of the EVM query service
and the database; `HeaderByHash` is called without a deadline, so that
`RequestIsFinished` rests on the EVM query service to answer. Clients need not
send requests, chains need not grow and entries need not expire.

A run of `Partition` goes on since a statement returns, fails or reaches the read
timeout of the driver. Ticks and midnights are not promised, nor that any
statement succeeds. In `Startup` operators delete the lock of an instance that is
gone, as `architecture/MIGRATIONS.MD` tells them to. Nobody promises that the
database comes back: `StartIsNotBlocked` holds without it, and `MigrationsSettle`
assumes in its statement that it does.

## Proofs

`tlapm` checks the theorems for every value of the constants that satisfies the
named assumptions (`BatchAssumption`, `RoutingAssumption`,
`PipelineAssumption`, `BackendAssumption`, `CalendarAssumption`,
`PartitionAssumption`, `StartupAssumption`).

`BatchProcessorProofs`, for every batch size and limit:

- `TypeCorrect`: the types, so the WaitGroup's counter is never negative;
- `WaitBarrier`: after `Wait` no goroutine of the batch is running;
- `HitsAreCounted`, `ArrayInOrder`, `ErrorsAreReported`: the cache header counts
  every hit, the array follows the requests, an error status is one a sub-request
  got, and no success hides it;
- `Refinement`: the goroutines implement `BatchService`.

None of these is inductive. The inductive invariant `Inv` adds to the types:
`ControlInv` (goroutine `i` exists exactly when the loop has passed `i`, and the
counter is zero once `Wait` has returned), `CountInv` (the counter is the number of running
goroutines, which is what makes `Wait` a barrier), `MutexInv` (`mu` names the one
goroutine inside `applyHeaders`), `HitsInv` (`cacheHits` is the number of hits
applied so far, and the goroutine inside has read exactly that) and `DataInv` (what
responses, headers and status say about the goroutines that wrote them).
`AnswerInv` joins the properties of the answer, and each has a lemma per part of
`Inv`. The refinement maps a goroutine that has called `wg.Done()` to an ended
sub-request; `ServeImplementsRespond` shows that the answer is then permitted.

`RoutingServiceProofs`, for any hosts, raw maps and requests. `RoutingAssumption`
says what the pieces of a raw map and the params of a request look like, malformed
ones included, and nothing about how they fit together:

- `TypeCorrect`: the types, so every route is one of the defined outcomes, and the
  shards of a service that started end at positive heights;
- `HoldersAreReached`: a request reaches a cluster that holds what it needs, with
  the exceptions of `RoutedToHolder` and no others, so for block zero and for
  numbers below the tag codes and beyond int64 too;
- `LookupCorrect`: the lookup of a height returns the shard that holds it, and
  nothing only beyond the last shard;
- `OnlyUnknownHostsAreRefused`: exactly the hosts without a default backend are
  refused;
- `RoutesAreConfigured`: the url is that of the host's last entry in the raw map of
  the backend's kind. `BackendAssumption` of the request sequence, that a proxy
  which is found leads to a backend, rests on this.

The inductive invariant `IInv` says that a service that runs has a configuration
that passes `Validate`, and that a route is what `ProxyForRequest` gives for the
configuration and the request. The rest is about the operators of the model. The
lemmas `LastEntryWins` and `LastShardsWin` say what the parsers keep of a raw map,
and `EndsArePositive` that a shard list is refused or has positive ends only.
`ParsedNeed` is the core of `HoldersAreReached`: the code of a block parameter, in
which tags are negative numbers, still tells what the request needs. The lemmas of
`IntervalsProofs` then put the needed height between the ends of the shard that is
found. The parser compares an end with the one before it; `NeighboursAscend` shows
that the whole list is then ascending, for a first position that is not above all those before it
would not be above its neighbour. `ListIsSorted` says that such a list is what
`NewIntervalURLMap` gives, and `LookupIsLeast` that the search for the first end
not below the height returns the least such end.

`RequestPipelineProofs`, for any handlers, calls, routing and backends and a chain
of any length. The assumptions say what the params of a call look like, and that a
proxy that is found leads to a backend:

- `TypeCorrect`: the types, so nothing in the cache is an error or not JSON-RPC;
- `CacheIsSettled`, `HitsAreSettled`: what is stored and what is served from the
  cache is what the chain says now and at every later height;
- `HitsAllowBrowsers`, `MetricsAreRight`: the headers of a hit and the metrics.

The argument has three parts. `StoredIsStable` is about the code of `cachemdw`: if a
call is cacheable, and a backend at height h says something about it that may be
stored, then every height from h on says just that. `SameKeySameTruth` says that
calls which share a key share their answers. `TipGrows` says that the highest view
never falls, so that what is settled stays settled. The inductive invariant `Inv`
then follows a handler through the sequence: `Control` (where it has a call, a
cached response, an answer and a metric), `Coherent` (what it found, what it
answered and what it is about to store is settled), `AllowsBrowser` and `Recorded`.
`CacheHoldsSettledAnswers` is not inductive without `Coherent`, since a response is
stored some steps after the backend gave it, when other views have moved on.

`PipelineRefinementProofs`, `GatewaySafety`: every step of the sequence is one of
`Gateway` or invisible. The interesting step is a hit, which is what the backend
with the highest view says; the rest follows from `Inv`. The fairness part of
`ImplementsGateway` stays with TLC.

`PartitionProofs`, for every calendar whose months are no shorter than the largest
prefill period, and any instances, pools and bounds:

- `TypeCorrect`, and `TablesAreHonest`: a table found by its name holds its day,
  also across the end of a month. The lemmas about `Calendar` say that the days of
  a plan never leave the two months it names;
- `CleanRunsCover`: a run without a failure leaves every planned day covered. The
  inductive invariant adds `Passed`: in a run that is still clean, the days of the
  periods before the one at hand are covered. It is preserved since partitions are
  never detached, and `TablesHoldTheirDay` is needed because a run stops at a table
  it finds attached by name.

`StartupProofs`, for any instances, configurations, migrations and bounds:

- `TypeCorrect`, `MutualExclusion`, `LockReleased`, `MarksAreTrue`,
  `RoutineTicks`. The inductive invariant adds to the types what work an instance
  has in each control state, `LockInv` (whoever migrates has the row, and a row
  without an owner is abandoned), `MarkInv` (the group of the one that migrates is
  the last, so its rollback reaches all its marks; unrun marks are its own or torn)
  and `RoutineInv` (a routine runs with a validated configuration only).

Only model-checked: the liveness properties (`BatchIsServed`,
`RequestIsFinished`, `RunEnds`, `StartIsNotBlocked`, `MigrationsSettle`), which need
fairness, among them the liveness of `Gateway`. Every invariant and action property
of a passing run, and the safety part of both refinements, is proved.

## Not modelled

- The wording of errors, logs, JSON and HTTP details; the id and version of a
  cached response; the order of header values beyond what the properties need.
- TTLs: an entry may expire at any time, which covers every TTL.
- The header map that the sub-requests of a batch share
  (`service/batchmdw/batchmdw.go:75`): a sub-request is seen through its response
  writer.
- The compaction routine, which only logs its ticks, and the pruning routine, which
  is one `DELETE` per tick whose error is dropped.
- The in-memory cache, which tests use in place of Redis.
- Health, readiness and status handlers (`service/handlers.go`), which are one
  stateless read each; the client of the status endpoints (`service/client.go`);
  logging; the interceptors (`service/raptors.go`), of which none is installed.
