# A formal model of omkit

`omkit` is the Python SDK shared by a family of services: an event bus, a cron
scheduler, a registry of provider tasks, a settings manager, a circuit breaker,
tenant isolation on Postgres, sessions, feature flags, quotas, KMS clients. It is
a library: its processes are the services that import it, and almost all of its
difficult behaviour is asyncio tasks that share state with a database or with
Valkey and with each other. This directory holds TLA+ specifications of the
components that keep state, TLC configurations that check them on small
instances, and TLAPS proofs of the most important results for every size.

Every action is translated from the code that `PROJECT.json` ("map") names. A
step of a model is what the code does between two awaits, or one database
transaction; everything that can happen at an await may interleave.

## 1. Inventory

For each part: the state it keeps, its operations, how it interacts, what is hard
about it and what makes it correct. Parts marked * are modelled.

**Postgres event bus*** (`eventbus.py`, `PostgresEventBus`). State: the tables
`events` and `event_offsets`, an `asyncio.Event` per bus. Operations: `publish`,
`publish_tenant`, `subscribe` (which runs `_poll_once` until closed), `close`.
Publishers and subscribers meet only in the database; replicas of a service share
a consumer name and therefore an offset. Hard: the order of commits differs from
the order of ids, handlers raise in the middle of a batch, replicas overlap,
processes die between handling and saving. Correct when the offset never passes an
unhandled event, events are first handled in order, and delivery goes on.

**Redis Streams event bus*** (`eventbus.py`, `RedisEventBus`; `valkeystream.py`).
State: a stream, a consumer group and its pending entries. Operations: `publish`,
`subscribe`, `close`; `StreamConsumer.ensure_group/read/ack/claim_stale`. Hard:
entries that were read and not acknowledged, a group that could not be created,
a malformed entry. Correct when an entry leaves the group only after its handler.

**Circuit breaker*** (`resilience.py`). State: `_state`, `_failures`,
`_opened_at`, `_open_observed`. Operations: `state` (a property that changes
state), `record_success`, `record_failure`, `call`, the decorator `resilient`.
Hard: outcomes of calls admitted in one state arrive in another; cancelled calls
record nothing. Correct when state and count agree, nobody is admitted during the
cool-down, and the circuit closes after an outage.

**Cron scheduler*** (`scheduler/`). State: `_entries`, the loop task; the table
`providers` and the backend's registrations are outside. Operations: `start`,
`stop`, `_reconcile` on every tick. Hard: the table changes during a reconcile,
calls to the backend fail before or after taking effect, the loop is cancelled
between an unregister and a register. Correct when no registration is forgotten
or doubled, unchanged rows are left alone, and the backend converges.

**Provider registry*** (`provider/registry.py`). State: `_tasks`, the manager task,
the Valkey subscription. Operations: `start`, `stop`, `_poll_loop`,
`_subscribe_valkey`, `_reconcile_all`, `_reload_tenant`, `_start_task`,
`_cancel_tasks`, `_on_task_done`. Hard: tasks crash, return or die slowly while
the manager waits, messages are lost, reads fail half-way through a reload.
Correct when there is one task per row, none is forgotten, none survives `stop()`,
and the tasks follow the table.

**Settings manager*** (`settings.py`). State: `_cache`, `_secret_keys`,
`_poll_last_seen`, a cache file, a subscriber or poll task. Operations: `start`, `stop`,
`_load_from_pool`, `_load_from_db`, `_poll_once`, `_subscribe`, `_handle_message`,
`_write_cache`, `_read_cache`. Hard: a strict cursor on `updated_at` that may be NULL,
stamps that commit out of order, deletions, missed messages, stop and restart. Correct
when what the cursor or a message has passed is in the cache, and the file matches it.

**Feature flags*** (`featureflags/`, `auth/roles.py`). State: `_flags`,
`_last_refreshed`, a lock. Operations: `get`, `all_flags`, `refresh`, `invalidate`,
`allowed`. Hard: a refresh in flight while a flag is invalidated or its row changes.
Correct when a flag lets in only whom a row since the last invalidation lets in.

**Model lifecycle*** (`model_lifecycle.py`). State: a model, its `_last_used` and a lock
per lifecycle; the reaper and its `_ttl`. Operations: `ensure_loaded`, `touch`, `unload`,
`start_reaper`, `stop_reaper`, `set_ttl`, `unload_all`. Loads and unloads run in executor
threads. Hard: tasks are cancelled while their thread goes on, the reaper decides before it
holds the lock, loads and unloads raise. Correct when a caller gets a model that nobody is
releasing, nothing keeps the lock, idle models go, and shutdown leaves nothing behind.

**Tenant context and pool*** (`tenant.py`, `dbpool.py`), **job queue***
(`jobqueue/`), **quota*** (`quota.py`) and **cleanup loop*** (`cleanup.py`) meet on
pooled connections: session role, transaction-local tenant, advisory lock; a Postgres event
bus on the same pool changes the role. State: a context variable per task, settings per
connection, rows per tenant. Hard: a connection that serves one tenant after another, handlers that raise anywhere, sessions that die,
a limit that is checked in one transaction and used up in another. Correct when nobody
sees rows of another tenant, quotas are overshot only by what the code lets pass, and
replicas do not clean up together.

**Sessions*** (`sessions.py`). State: rows, or keys with a time to live. Operations:
`put`, `get`, `delete`, `list` of two stores. Hard: expiry while commands travel, seconds
cut off, a SCAN among writers. Correct when sessions end on time and a listing is complete.

**KMS*** (`kms/openbao.py`). State: `_token`, `_token_expiry`, a lock. Operations: six
calls over one `_do`, which logs in and retries. Hard: two callers refused together,
leases counted from different moments, failures under the lock. Correct when a request
within the refresh window carries a living token, a retry a new one, and every call returns.

**Without state of their own**: roles and audit, security events, health, metrics,
tracing, logging, cryptography, sanitising, cost, configuration, the sync notifier,
the HTTP client, facades. They are pure functions or single statements and are
listed in `PROJECT.json` with the reason why they are left out.

## 2. Modules

| Module | Models | Notes |
|---|---|---|
| `AtLeastOnce` | what an event bus promises a consumer | abstract specification |
| `PostgresEventBus` | `PostgresEventBus` of `eventbus.py` | refines `AtLeastOnce` |
| `MCPostgresEventBus` | assignments of topics to subscribers for TLC | |
| `PostgresEventBusProofs` | proofs | |
| `RedisEventBus`, `RedisEventBusProofs` | `RedisEventBus` of `eventbus.py`, `valkeystream.py` | refines `AtLeastOnce` |
| `CircuitBreaker` | `resilience.py` | proofs in `SharedObjectProofs` |
| `ModelLifecycle` | `model_lifecycle.py` | executor external, proofs in `SharedObjectProofs` |
| `Scheduler`, `SchedulerProofs` | `scheduler/` | backend external |
| `ProviderRegistry`, `ProviderRegistryProofs` | `provider/registry.py` | both backends |
| `AppSettings` | the table `app_settings` and its writers | external, shared by the next two |
| `SettingsManager` | `settings.py` | polling, pub/sub, cache file |
| `FeatureFlags` | `featureflags/`, `auth/roles.py` | |
| `AppSettingsCaches`, `MCAppSettings`, `AppSettingsProofs` | composition of the three over one table | |
| `TenantPool`, `MCTenantPool`, `TenantPoolProofs` | `tenant.py`, `dbpool.py`, `jobqueue/`, `quota.py`, `cleanup.py` | one pool shared by all, and by a bus |
| `SessionStore`, `MCSessionStore` | `sessions.py` | both stores, proofs in `SharedObjectProofs` |
| `OpenBaoKMS`, `OpenBaoKMSProofs` | `kms/openbao.py` | server external |

Operators such as `UncheckedOffset` or `NotAwaited`, each directly before the definition it
varies, are plausible mistakes in that code; `PROJECT.json` ("mutants") pairs each
with the property that detects it.

### PostgresEventBus

An event is its id. `Insert` draws the id and opens a transaction, `Commit` makes the
row visible, `Rollback` leaves a gap. `Subscribe`, `Fetch`, `HandlerReturns`,
`SaveOffset`, `PollRaises` and `Wait` are the steps of `subscribe()` and
`_poll_once()`: the fetch and the update of the offset are separate transactions and
the handler runs between them. `Crash` loses the local state of a process and keeps
the tables. `rows` and `last` are the local variables of `_poll_once`. Payloads,
tenant ids and the bus's role do not influence which events are handled and are left
out. Two history variables: `handled`, and `late`, the events whose transaction
committed after one with a higher id.

Events in `late` are the ones the code can lose: the run `event_bus_commit_order`
shows it (`NoEventSkipped`). All other properties are about the events committed in
order (`InOrder`), and for these the bus keeps its promise.

### RedisEventBus

One topic, one consumer group. `Buses` are calls of `RedisEventBus.subscribe`,
`Workers` are loops of a service around a `StreamConsumer`; that loop is not in the
repository and is taken to be the obvious one (read or claim, handle, acknowledge,
go on after an exception), with nothing assumed about whether it runs. The server is
`stream`, `delivered` (what lies below the group's last-delivered id) and `pending`.
`Publish` writes a JSON payload, `Add` is `StreamProducer.add` with fields that hold none.

The head of the loop is two steps: `Enter` tests `_stop` and sends the `XREADGROUP`,
`Read`, `ReadEmpty`, `ReadRaises` and `ReadLost` are the ends of the blocked command, so
that `close()` can come in between; `Return` is the test that finds `_stop` set. After
`close()` the client is closed as well and every command may fail (`CommandFails`). A batch
is worked off in the order of ids; the handler and the acknowledgement are two steps
because each is an await. `ClaimStale` takes any set of at most `Count` pending entries:
which of them have been idle for `idle_ms` is not known, and a consumer may only be slow.
`JoinFails` is a failing `XGROUP CREATE`, which `subscribe()` swallows and `ensure_group()`
raises. History variables: `handled`, `claimed`, `taken` (new entries a worker has read) and
`dropped` (entries whose delivery to a subscriber has failed). The refinement maps what is
settled to `delivered \ pending`.

`subscribe()` reads `">"` only and never its own pending entries. `EventuallyHandled` is
therefore about the subscribers alone and says what they do deliver: an entry in `dropped`
comes back only if somebody claims it.

### CircuitBreaker

`failures` and `age` (the time since `_opened_at`) are counted only up to the limits
the code compares them with, so that the model is finite without bounding behaviours.
`Attempt` is `call()` up to its await, `Succeed`, `Fail` and `Cancel` are what
follows it. `up` is the guarded service: while it is up no call fails. A task whose
attempt fails with a transient error goes back to `ready` and competes with the
others; the length of the backoff is any time.

### Scheduler

`table` is the enabled rows by key, `desired` the rows a reconcile has fetched,
`live` what the backend has registered. A failing call may have had its effect:
`UnregisterLost` and `RegisterLost`, recorded in `ghosts` and `orphans`. The backend
ignores an unknown id, as the test double in `tests/test_scheduler.py` does. Configs
are of three kinds, by what `derive_cron` does with them: `Good`, `Skipped`
(`ok = False`) and `Broken` (raises). The hash is modelled by what it does: it tells
configs apart. `stop()` is called after `start()` has returned or raised. `Agrees` is what a
reconcile makes of each row: one registration with the row's config for a good row, none for
a row that is gone, and for a row that `derive_cron` refuses whatever its last good version
has registered, because the loop passes such a row before it compares anything.

### ProviderRegistry

`tasks` is `_tasks`, `alive` the asyncio tasks themselves, so that a task can be alive
and forgotten, or tracked and over. Done callbacks are part of the step that ends a
task: the event loop runs them before the manager's next I/O completes. Writers
commit a row and publish its tenant in two steps. A lost connection surfaces as an
exception in `listen()`, as the reconnect loop expects. `missed` records tenants whose
latest message never arrived, `crashed` keys whose latest task crashed.

### ModelLifecycle

`loaded[m]` is `_model is not None`, `lock` the `asyncio.Lock` of each lifecycle. A task
that finds the lock free, with nobody waiting, goes on in the same step; otherwise it
waits (`GetLock`). `_reap_loop` and `unload_all` are two sweeps over the models
(`Sweepers`), which differ in what is due. `idle` counts up to the longest ttl;
`seen` is `now - last_used` for the `now` of the running sweep, so that a `touch()`
during the sweep makes it negative. `CancelReaper` is `Task.cancel()`: it releases the
lock and leaves the thread running (`threads`). The order of the models is any order,
and other tasks may run between two visits of a sweep even where the code does not await.
History variables: `released`, `cut` and `fresh`.

The exception in `UsableWhenEnsured` is needed: when the reaper is cancelled inside
`unload()`, `_model` stays set while its thread releases it, and the next
`ensure_loaded()` returns that model at once. So is `fresh` in `ShutdownUnloads`:
`unload_all()` skips a model whose load is still running.

### AppSettings, SettingsManager, FeatureFlags

`app_settings` is written by services outside the repository. A writer stamps
`updated_at` when its transaction begins (`BeginWrite`) and the row is seen when it
commits (`CommitWrite`), so stamps can appear out of order or twice; `late` remembers
the keys for which that happened. `SettingsManager` and `FeatureFlags` cache the same
table and never touch each other: `AppSettingsCaches` composes the table with one of
them at a time (`uses`), which loses no interleaving and keeps the state space small.
Writers publish after they have committed, as a step of its own (`Publish`); `untold` holds
what is committed and not yet published, and two writers of one key may publish in another
order than they committed, which `crossed` remembers.

`SettingsManager`: `Load` is either loader, `Fetch`, `ApplyRow` and `PollDone` are
`_poll_once` with an await between any two rows (callbacks may be coroutines),
`Subscribe`, `HandleMessage`, `SubscriberError` and `Resubscribe` are `_subscribe`, and
`WriteCache` is part of every action whose code saves the file, which is the paths without a
pool. `Published` is what a writer's message becomes; one sent while nobody listens is lost
(`lost`). With neither a pool nor a Valkey URL (`"db_none"`) no worker is started and the
manager is `"idle"`. `Crash` keeps the file only. A write of the file that fails is left out.

What the module shows about the code and no property contradicts: with a NULL cursor
`updated_at > $1` holds of no row, so a manager whose first load found nothing, or
failed, never applies a change (`Newer`); a deleted row never leaves the cache on the
polling path; a row committed with a stamp at or below the cursor is not read
(`PassedWasApplied` is about the other rows); `start()` after `stop()` finds `_stop`
set, and the poll loop returns at once (`Worker`).

`FeatureFlags`: `Get` and `RefreshCall` add a refresh task, `RefreshLocked` to
`RefreshDone` are `refresh()` under its lock, `Invalidate` waits for the same lock.
Every task that waited reads the table again; the module docstring speaks of one
shared round trip (`featureflags/postgres.py:7`). `age` counts up to `Ttl + 1`. `Parse` drops
the role strings that are not known and keeps the others, as lines 65-71 of `flag.py` do.

### TenantPool

A slot is a task of the service that serves one request or job after another. Between
the calls of omkit the handler is free: it opens transactions, sets the tenant, checks
its quota and stores its row in any order the guards allow, and may raise at any point
(`Leave`). `Request` is the middleware, `Job` the queue's middleware around an envelope
that `unwrap` accepts, `Foreign` a producer that does not use `wrap`. `guc` and `role`
belong to a connection and survive a checkout unless something resets them:
`set_config(..., true)` ends with the transaction (`GucAfter`), the role given to
`create_pool` (`PoolRole`, the login role if there is none) is set once per physical
connection (`ConnectedAs`), the pool's reset (`Reset`) gives up advisory locks and leaves the
role alone. `BusTransaction` is a transaction of a `PostgresEventBus` on a free connection: its
`RESET ROLE` stays in force afterwards, and `bus` remembers the session. On such a session,
or in a pool without a role, row level security does not apply: `Visible` is everything and a
check counts the rows of all tenants (`Counted`). `SessionDies` ends a session while it is
checked out. (A SQLAlchemy engine with `sqlalchemy_asyncpg_connect_args` gets its role in the
connection's start-up settings and is no pool for the bus; it is the case in which
`BusTransaction` never happens.)

`Check` reads committed rows only, and its second disjunct is the savepoint around
`usage_log` that failed, on which the code goes on with a count of zero; `blind` counts the
checks that did not count the tenant's own rows. `Insert` stores a document or is
`record_usage`, with or without a check before it; `excess` counts the rows stored without
one. Sizes are integers, since `check_upload` does not refuse negative ones. A handler that
stores several rows does so in several transactions. The limits of `load` are constants, the
same for every tenant.

### SessionStore

The clock is finer than a second: `PerSecond` ticks make one. `Put` computes the time to
live as the code does, cut to whole seconds (`WholeSeconds`) and at least one
(`TimeToLive`), `PutArrives` is the server's half, at most `Latency` ticks later. `Delete` and
the Postgres `List` are one statement, the Redis `list` is a SCAN (`ScanGet`, `ScanEnds`) with
a GET per key; `out` counts how often a session is in the result, because SCAN may show a
key more than once and the code appends each time. `must` and `may` remember what a listing
has to and may return. Differences between the stores that are in the model and are not
judged: Redis ignores `tenant_id` in `get` and `delete`, its list may hold a session twice,
and the upsert of Postgres keeps the tenant of the row it finds, also of an expired one.

### OpenBaoKMS

A call is one `_do`: `GetToken` (with the lock held through a login), the request,
and after the first 403 `DropToken` and once more. `Issue` is the server's half of a
login, so that the lease starts before the reply arrives. Tokens are numbered in the
order of their issue. `Raise` is every failure and every cancellation at an await. A round
trip may take any time: httpx applies its timeout to each phase of a request, and the client
may be the caller's own. `delay` and `since` remember how long a login reply took and when a
request was sent; `Lag` is the part of a lease the client does not know to be gone.

## 3. Runs

| Run | Instance | Result |
|---|---|---|
| `event_bus` | 2 subscribers (replicas, or two topics), 2 open transactions, 3 events, batches of 2, 1 crash | passes, 316 000 states |
| `event_bus_liveness` | 2 replicas, 2 events, batches of 1, 1 crash, fairness | passes, 6 000 states |
| `event_bus_commit_order` | 1 subscriber, 2 open transactions, 2 events | `NoEventSkipped` violated |
| `redis_event_bus` | 2 subscribers, 1 worker, 2 entries, batches of 2, 1 fault, fairness of the subscribers | passes, 317 000 states |
| `circuit_breaker` | 3 tasks, `fail_max` 2, `reset_timeout` 2, 3 attempts, fairness | passes, 8 200 states |
| `model_lifecycle` | 1 model, 2 requests, reaper, `unload_all`, ttl 0 or 1, 3 calls, 1 fault, fairness | passes, 88 000 states |
| `scheduler` | 2 rows, 2 good configs, 1 skipped, 1 raising, 2 edits, 1 fault, fairness | passes, 134 000 states |
| `provider_registry` | 2 tenants, 1 provider each, 2 good configs, 1 raising, 2 edits, 1 fault, fairness | passes, 661 000 states |
| `app_settings` | 2 keys, 2 writes, 4 backends, 1 crash; a flag, a flag with an unknown role, a malformed value, ttl 1, 2 waiting refreshes | passes, 4 730 000 states |
| `tenant_pool` | 2 tenants, 2 slots, 2 loops, 2 connections with role `omur_app`, uploads of size 1 or -1 and queries, 2 requests, jobs or foreign envelopes, 1 unchecked row per tenant, 1 fault | passes, 3 050 000 states |
| `session_store` | 2 clients, 2 tokens, 2 tenants, both stores, seconds of 2 ticks, latency 1, expiry after 2 or 3 ticks, keys shown twice, 3 ticks | passes, 2 180 000 states |
| `openbao_kms` | 2 callers, 3 tokens, lease 3, window 1, 4 ticks, fairness | passes, 170 000 states |

Why the bounds are enough. Three events and a batch of two give a full batch, a partial
one, a failure inside a batch and overlapping batches of replicas; two open
transactions are all that out-of-order commits need. On the Redis bus two entries make a
batch with something behind the entry in work, and one fault is placed at every command,
handler and step; malformed entries and a closed client make further ones. Two failures with three tasks
make a call that is in flight while the others open, probe and close the circuit.
Four tasks around the lock of one model make a holder, a waiter of each kind and a
cancellation; several models are left to the proofs, where their number is arbitrary. Two
edits change a row while a reconcile works on its previous version, and change it
back; one fault is placed at every call. Two tenants let a reload of one run beside
tasks of the other. Two writes make two overlapping transactions, two messages in the wrong
order, or a change during a poll, a refresh or a gap; the settings manager does not look into
values, so two of them (`Written`) tell a change. Two requests on two slots, each with any
number of checks and rows, let a tenant use up its quota, overshoot it together with the
other slot and by a row without a check (`MaxExcess`), and hand a connection to the other
tenant or to the bus; a pool without a role is left to the proofs. Three ticks of half a
second make a session put with a whole second, with a part of one and with nothing left, that
expires while its put travels and during a scan; a key shown twice (`MaxRepeats`) is enough
for a list with duplicates. Four ticks, a lease of three and a window of one make a request
and a login reply that are in time, late within the window and later than it; leases of
zero are left to the proofs.
Deadlock is not checked where the bounds (ids, edits, a stopped or
closed component) really end a behaviour.

What the runs show:

* `event_bus`: the offset passes only handled events; a sole subscriber never goes
  back, while replicas can and only cause redelivery; `AtLeastOnce` is implemented.
* `event_bus_liveness`: every event committed in order is handled unless every
  subscriber of its topic is down or closed; `close()` ends a subscription.
* `redis_event_bus`: subscribers of one group never work on the same entry unless it was
  claimed; the group settles only handled entries (`AtLeastOnce`); `close()` ends a
  subscription, also during a blocked read; an entry reaches a handler while a subscriber
  runs, unless a worker has read it or its delivery has failed, and one raising handler does
  not cost the rest of its batch. What has failed is not retried by the bus: an entry whose
  handler raised, whose reply was lost, or that lay behind a malformed one stays pending until
  somebody calls `claim_stale`.
* `circuit_breaker`: closed exactly below `fail_max` failures, so one failed probe
  reopens; nobody admitted before the whole timeout is over; once the service is back the
  circuit ends up closed. Half open, the code admits every caller, not one.
* `model_lifecycle`: a request gets a usable model unless an unload of it was cut short,
  `unload_all()` leaves only what was loaded after the call, no path keeps the lock, an idle
  model is unloaded also after an unload of it has raised.
* `scheduler`: what `_entries` holds is registered and what is registered is in
  `_entries`, but for lost replies; registrations of unchanged rows are not touched;
  the backend converges to the good rows of the table, keeps what a refused row had, and the
  loop goes on unless `derive_cron` raises. The exception in `ConvergesUnlessReplyLost` is
  needed: an unregister that took effect and raised leaves an entry whose hash still
  matches if the row comes back unchanged before the next tick, and it is then never
  registered again.
* `provider_registry`: one task per key, predecessors end first, nothing is forgotten,
  `stop()` leaves nothing behind, tasks converge
  to the rows, and with Valkey a notified configuration change is applied. With Valkey
  a crashed task waits for the next message or reconnection, hence `Served`.
* `app_settings`: a polled row that the cursor has passed, and a heard row with no message
  left whose writers published in order, are in the cache with their values; in a manager
  without a pool the cache file equals memory without secrets, so a restart with the database
  down continues where the predecessor was; a flag that was invalidated does not come back
  from a refresh that began before.
* `tenant_pool`: in a pool with the role `omur_app`, on a session that no event bus has used,
  a handler sees its own tenant's rows and only after `set_rls`, whichever requests, jobs and
  loops had the connection before; a limit is passed by at most one unit for every other
  slot, every check that did not count the tenant's rows and every row stored without a
  check; two loops clean up together only if one has lost its session.
* `session_store`: Postgres serves no expired session; Redis serves one at most `Latency`
  longer, or until a second after the put if less than a second was left; a listing is
  complete and sound, though it may name a session twice.
* `openbao_kms`: a request carries a token within its lease as long as the login reply and the
  request together take no longer than the refresh window; no login while the cache holds a
  usable token (a caller refused with a 403 may empty it of a token just issued); no
  retry with the refused token; every call returns.

The violation `NoEventSkipped` is described under "findings" in `PROJECT.json`. More
places where the code and a comment differ, or where it does what a reader may not expect,
visible in the modules:

* `eventbus.py:106` runs `RESET ROLE`, not `SET LOCAL ROLE`, on a connection of the pool it is
  given (`BusTransaction`). The pool's reset does not set the role again, which is set when a
  connection is made, so that later users of the connection run without row level security;
  `dbpool.py:3` says that "the role is guaranteed". A bus needs a pool of its own.
* `scheduler/scheduler.py:154` calls `derive_cron` outside any try block (`DeriveRaises`): what it
  raises ends the loop, while `scheduler/__init__.py:20` and `scheduler/scheduler.py:12` say
  failures "never crash the loop".
* `scheduler/scheduler.py:155` passes over a row with `ok = False` before it looks at the entry of
  its last good version (`Skip`, `Agrees`): `scheduler/types.py:26` says that it "skips the row",
  and its old registration goes on firing with the old config.
* `resilience.py` admits every call while half open (`Admits`). The docstring at line 79 says that
  the circuit "must be in the 'closed' state to allow calls", and `tests/test_resilience.py:75`
  speaks of "allowing one probe call".
* `featureflags/flag.py:46` says that unknown role strings "collapse to a disabled Flag
  (deny-all)"; lines 65-71 drop the unknown ones and grant the known ones (`Parse`), as
  `test_parse_from_json_unknown_role_dropped` expects. `GrantsAreCurrent` follows the code.
* `settings.py:126` promises polling with neither pool nor Valkey; lines 137-141 start no worker
  then (`Worker`), and the settings stay as they were loaded.
* `eventbus.py:271` tries once to create the consumer group and swallows every error
  (`JoinFails`): if that fails and nobody else creates the group, the subscriber reads nothing,
  while line 269 speaks of "gracefully handling connection issues".
* `quota.py:154` notes that negative sizes are not refused; `OvershootBounded` holds with them.
* `provider/registry.py:267` compares keys and not configurations on reconnection
  (`ReloadsConfig` speaks of notified tenants only), while `registry.py:44` promises to
  "reconcile any events missed during the outage".
* `eventbus.py:296` decodes a payload outside the try block, so that a malformed entry ends
  `subscribe()`, while `eventbus.py:269` says errors do not stop the loop.

### Fairness

* Event bus: weak fairness of `Wait` (the poll timer); strong fairness of `Fetch`,
  `SaveOffset` and, per event, `HandlerReturns`: the database and a handler may fail
  again and again but not always. An event whose handler always raises blocks its
  topic; that is the code's behaviour and the assumption says so. Nothing obliges a
  process that is down to subscribe again.
* Redis event bus: weak fairness of the steps of each `subscribe()`: commands and handlers
  end. Nothing is assumed of workers, whose loop is not in the repository; subscribers that are
  down stay down if they like. Faults are bounded.
* Circuit breaker: time passes, tasks keep calling (weak), and a task's attempt is
  not cancelled for ever (strong).
* Model lifecycle: executor jobs end, sweeps go on and time passes (weak); the lock is
  handed to its waiters in turn, as `asyncio.Lock` does (strong fairness of `GetLock`). The
  calls that restart the reaper are bounded: a service that restarts it before every sweep
  keeps it from unloading anything.
* Scheduler: weak fairness of the loop as a whole; faults are bounded, so failing is
  not for ever.
* OpenBao KMS: every round trip ends at some time, with an answer or an error (weak). The
  client's timeouts, one per phase, see to that unless a server sends its answer for ever or a
  caller's own client has none. A task that waits for the lock gets it in turn, as
  `asyncio.Lock` does (strong).
* Provider registry: weak fairness of the manager, of the writers' notifications and of
  the end of cancelled tasks. No fairness for edits, faults, crashes or `stop()`.

## 4. Proofs

`PostgresEventBusProofs` holds for any sets of subscribers and topics, any assignment of
topics, any batch size and any bounds. The inductive invariant `IInv` joins the
properties with three facts they need: ids not drawn yet are in no table
(`FreshIds`), an offset is zero or the id of a visible row (`OffsetVisible`), and the
batch a subscriber holds, together with what has been handled, covers a prefix of the
events committed in order (`BatchesArePrefixes`), which is what lets the offset jump to
the last row of a batch. `FirstBatchIsPrefix` proves that `ORDER BY id LIMIT` takes a
prefix, by cardinalities. `NoRewind` needs a second invariant, that the rows held by a
sole subscriber lie above the offset. `Refinement` maps every step to a step of
`AtLeastOnce` or to none.

`RedisEventBusProofs` holds for any sets of subscribers and workers, any batch size and any
bounds. `Accounted` (a delivered entry is pending or handled) needs `AckAfterHandler` (who
is about to acknowledge has handled), and both are what `Refinement` uses.
`HandledOnce` needs `HeldUnhandled` (what a consumer holds is unhandled, claimed, or the
entry it has just handled) and `BatchesDisjoint` (an entry in two batches was claimed), since
a handler that returns would otherwise make another consumer's entry a handled one. The steps
that put entries down without handling them share one lemma (`DropKeeps`).

`SharedObjectProofs` is about the three objects whose methods the tasks of one event loop call
at the same time: the breaker, the session store and the model lifecycles. They share no
state; one module extends all three, which is why the breaker's and the store's
specifications are called `BreakerSpec` and `StoreSpec` and their parts after them.

The breaker's part holds for any number of tasks, any thresholds and any number of
attempts. `CountMatchesState` and `HalfOpenAfterTimeout` are proved together: a failure
while half open restarts the clock only because the count is already at `fail_max`.
`CoolDownHolds` follows from the same step lemma.

The part on model lifecycles holds for any sets of models and requests, any ttl and any bounds.
`LockHeld` (who awaits the executor holds the lock) and `TouchedIsCut` (a model that an unload
has touched is in memory only while a sweep holds its lock, or after an unload of it was cut)
give `UsableAlways`. `Closing` says where each model is that `unload_all()` has not unloaded
yet (still to visit, in work, or loaded since) and gives `ShutdownUnloadsAll`.

The session store's part holds for any clients, tokens and tenants, any latency, any time and
any number of ticks in a second. `TimeToLiveBound` says that the whole seconds of a time to live
exceed neither what is left nor, if that is less, one second; a stored session, and one on its
way, ends within the latency of that; the keys a SCAN has shown and that have been there all the time are
in its result, which gives `ListFaithfulAlways`.

`SchedulerProofs` holds for any rows, configs, entry ids, edits and failed calls. `Books` is
the agreement of `_entries` and the backend: `EntriesAreLive` and `LiveIsTracked` are kept only
together with unique ids (`IdsAreUnique`), and with the facts that an orphan is registered and
in no entry (`OrphansAreLost`) and a ghost is not registered (`GhostsAreGone`), since a removal
by id would otherwise hit another row. All steps on the backend are one of two, the removal of
the registration of a tracked entry and the addition of a fresh one, and each has a lemma.
`CallInProgress` is what the loop knows of the key whose call it awaits, across the await and a
`stop()`: it has no entry before it is registered, and its row is gone or changed before it is
unregistered. The latter gives `NeverChurns`, the former `OneRegistrationPerRow`. `Ids` bounds
the ids in use at one time: a backend may give an id out again once neither side
holds it (`FreeIds`).

`ProviderRegistryProofs` holds for any tenants, providers, configs, edits and failures.
`OneTaskPerKey` and `RunningIsTracked` need each other: a key may be started because it is not
tracked, so that no running task of it is alive, and the late callback that pops a key forgets
no other task because there is one per key. `NotTracked` carries what the manager has
established before its awaits to the moment it starts the keys (nothing tracked during
`start()`, the tenant's tasks cancelled in a reload, tracked keys left out in a reconcile), and
`Draining` that the last `gather()` of `stop()` waits for every task there is. `StartsOnlyMissing`
is the step property that `_start_task` relies on and does not check.

`AppSettingsProofs` holds for any keys, values, roles and bounds. `PassedAlways` needs
`PollerKnown`: no stamp exceeds `newest`, the rows of a poll lie above the cursor, and
during a poll every plain row committed in order is applied, among the rows still to be
applied, or newer than the poll. `HeardAlways` needs `UntoldKnown`, that the last of the
unpublished messages of a key tells its row, and `HeardKnown`: a setting that is told in order
and without a gap is in the cache, or in the channel as the last message about its key.
`FileAlways` is about managers without a pool and needs
that a process whose file is not yet its own has no settings and knows no secret.
`GrantsAlways` needs every cached flag, and every flag of a refresh in flight, to be the
parse of a row in `held`, which is why `invalidate()` has to wait for the lock.

`TenantPoolProofs` holds for any sets of tenants, slots, loops and connections. `Exclusive`
(a connection is checked out once), `RoleKept` (a session the bus has not used has the role it
was made with) and `GucOwned` (a tenant is set on a connection only while a transaction of
that tenant runs on it) give `TenantsIsolated`; `LockHeld` gives `CleanersExclusive`.
`QuotaOvershoot` holds for either role of the pool, for negative sizes and for any number of
unchecked rows. It needs `QInv`: the rows a check counts are those of the slot's own tenant or
the check is in `blind` (`GucSet`), what a slot has passed and not yet used stays in its hand
until it commits or gives up (`HandKept`), and usage plus what is in hand is within the limit
plus the slack. For bytes a sum over the slots in hand is avoided: it suffices that one of
them, the last to have been checked, fits when every other is counted with the largest size
(the `Fits` lemmas, one for each way in which a bound moves). A step moves one slot in or out
of the set of those in hand, so that all the counting there is rests on removing one element
of a finite set.

`OpenBaoKMSProofs` holds for any callers, leases and windows, leases of zero (tokens that do not
end) included, and assumes nothing about how long a round trip takes. `ExpiryKnown` says what
the client takes for the end of the cached token's lease, its real end and the delay of the
login reply; `TokenInHand` that a request was sent with more than the window left of that, or
right after the login; both together are `LeasesKnown` and give `TokenAliveAlways`. `LockOwner`
ties the lock to the one login in flight, `NewestPending` says that its token is the newest of
all, and `RefusedIsGone` that a refused token is no longer cached when its caller asks again.

Assumptions: only the named ASSUMEs of the modules (bounds are naturals, thresholds and
the batch size are positive, markers such as `None` or `NoTenant` are none of the real values,
`"boot"` and `"reconcile"` are no tenants, there is a slot, an id and a largest upload, which is
not negative, and the pool's role is `omur_app` or the login role). Every invariant and every action property of a passing
run is proved. Only model-checked: the liveness properties (`EventuallyHandled`,
`CloseEndsSubscription`, `RecoversForGood`, `CallersReturn`, `IdleIsUnloaded`,
`ConvergesUnlessReplyLost`, `Converges`, `ReloadsConfig`, `CallsReturn`), since fairness and
ENABLED are out of the prover's reach. The violation run `event_bus_commit_order`
has a property that no theorem could state.

## 5. Not modelled

* Cryptography, `LocalDevKMS`, tenant hashes, sanitising, cost, parsing of dates and DSNs:
  pure functions over strings and bytes.
* Sync notifier, HTTP client, security events, audit log: one request or statement per call,
  with nothing kept between calls. `valkeysub.py` decodes messages and keeps nothing; the
  gap of a reconnection is modelled where its users keep state.
* Metrics, tracing, logging, health, configuration, facades, client factories: set-up of
  libraries. `make_worker` takes `max_tries` and `task_timeout_seconds` and forwards neither
  to `streaq.Worker`; retries of the queue are therefore any number in `TenantPool`.
* Of the modelled parts: several rows in one transaction of a handler, what settings callbacks do, `get_secret` (a read), the turn of the
  month in the quota, payloads everywhere, `register()` of a model after the registry is in
  use, `stop()` of the scheduler during its `start()`.
* Liveness of the two settings caches: polling promises nothing for late, deleted or
  NULL-cursor rows, pub/sub nothing for gaps, so what remains is the safety that is checked.
