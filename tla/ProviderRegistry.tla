-------------------------- MODULE ProviderRegistry --------------------------
(***************************************************************************)
(* omkit/provider/registry.py: one asyncio task per enabled providers row, *)
(* kept in step with the table by a manager task that either polls it or   *)
(* listens to Valkey notifications of changed tenants.                     *)
(*                                                                         *)
(* The steps are what runs between two awaits: the read of the table, the  *)
(* wait for cancelled tasks, the connection to Valkey.  Provider tasks,    *)
(* writers of the table and the network act in between.  A writer commits  *)
(* its row and then publishes the tenant; Valkey forgets a message nobody  *)
(* is subscribed to.                                                       *)
(***************************************************************************)
EXTENDS Naturals, Sequences, FiniteSets

CONSTANTS
    Tenants, Names,
    KnownNames,     \* names in provider_classes
    Good,           \* configs with which a provider can be built
    Broken,         \* configs on which its constructor raises
    Ids,            \* identities of tasks of one key
    None,           \* no row, no task
    MaxEdits,       \* bound: changes of the table
    MaxFaults       \* bound: failed reads, lost connections, crashed tasks

Keys    == Tenants \X Names
Configs == Good \cup Broken

ASSUME RegistryAssumption ==
    /\ KnownNames \subseteq Names
    /\ None \notin Configs \cup Ids
    /\ Ids # {}
    /\ Tenants \cap {"boot", "reconcile"} = {}
    /\ MaxEdits \in Nat
    /\ MaxFaults \in Nat

VARIABLES
    backend,    \* _backend
    table,      \* table[k]: config of the enabled row of k, or None
    unsent,     \* tenants whose writer has still to publish
    subscribed, \* the pubsub connection is up
    queue,      \* messages the subscription has not read
    tasks,      \* _tasks: the id of the task tracked for k, or None
    alive,      \* tasks that have not ended: [key, id, cfg, st]
    pc, job,    \* where the manager is, and in which operation
    rows,       \* the rows it has read
    toStart,    \* the keys it is about to start
    edits, faults,
    missed,     \* history: tenants whose last message was never received
    crashed     \* history: keys whose last task crashed

world   == <<backend, table, unsent, edits>>
channel == <<subscribed, queue, missed>>
procs   == <<tasks, alive, crashed>>
manager == <<pc, job, rows, toStart>>
vars    == <<world, channel, procs, manager, faults>>

Task == [key : Keys, id : Ids, cfg : Good, st : {"running", "cancelling"}]

NoRows == [k \in Keys |-> None]

Init ==
    /\ backend \in {"postgres", "redis"}
    /\ table \in [Keys -> Configs \cup {None}]
    /\ unsent = {}
    /\ subscribed = FALSE
    /\ queue = <<>>
    /\ tasks = NoRows
    /\ alive = {}
    /\ pc = "new"
    /\ job = "boot"
    /\ rows = NoRows
    /\ toStart = {}
    /\ edits = 0
    /\ faults = 0
    /\ missed = {}
    /\ crashed = {}

Fault == faults < MaxFaults /\ faults' = faults + 1

-----------------------------------------------------------------------------
(* Writers of the table, and the network. *)

Edit(k, c) ==
    /\ edits < MaxEdits
    /\ table[k] # c
    /\ table' = [table EXCEPT ![k] = c]
    /\ unsent' = unsent \cup {k[1]}
    /\ edits' = edits + 1
    /\ UNCHANGED <<backend, channel, procs, manager, faults>>

Notify(t) ==
    /\ t \in unsent
    /\ unsent' = unsent \ {t}
    /\ IF subscribed
       THEN queue' = Append(queue, t) /\ UNCHANGED missed
       ELSE missed' = missed \cup {t} /\ UNCHANGED queue
    /\ UNCHANGED <<backend, table, edits, subscribed, procs, manager, faults>>

(* The subscription ends and takes its unread messages with it. *)
Unsubscribe ==
    /\ subscribed' = FALSE
    /\ queue' = <<>>
    /\ missed' = missed \cup {queue[i] : i \in DOMAIN queue}

ConnectionLost ==
    /\ subscribed
    /\ Fault
    /\ Unsubscribe
    /\ UNCHANGED <<world, procs, manager>>

-----------------------------------------------------------------------------
(* Provider tasks.  A done callback runs before any coroutine that waits   *)
(* for I/O or for the task goes on, so it is part of the step.             *)

(* run() raises; _on_task_done forgets the task. *)
TaskCrashes(x) ==
    /\ x \in alive
    /\ x.st = "running"
    /\ Fault
    /\ alive' = alive \ {x}
    /\ tasks' = [tasks EXCEPT ![x.key] = None]
    /\ crashed' = crashed \cup {x.key}
    /\ UNCHANGED <<world, channel, manager>>

(* run() returns: the task stays in _tasks. *)
TaskReturns(x) ==
    /\ x \in alive
    /\ x.st = "running"
    /\ alive' = alive \ {x}
    /\ UNCHANGED <<world, channel, tasks, crashed, manager, faults>>

(* A cancelled task ends; when its clean-up raises, _on_task_done pops the *)
(* key, whatever task is under it.                                         *)
TaskEnds(x, raises) ==
    /\ x \in alive
    /\ x.st = "cancelling"
    /\ alive' = alive \ {x}
    /\ tasks' = IF raises THEN [tasks EXCEPT ![x.key] = None] ELSE tasks
    /\ UNCHANGED <<world, channel, crashed, manager, faults>>

NotAwaited == TRUE

(* The gather() of _cancel_tasks is over. *)
Gathered == \A x \in alive : x.st = "running"

PopTasks(S) ==
    /\ tasks' = [k \in Keys |-> IF k \in S THEN None ELSE tasks[k]]
    /\ UNCHANGED <<alive, crashed>>

(* _cancel_tasks(): pop each key, cancel what still runs. *)
CancelTasks(S) ==
    /\ tasks' = [k \in Keys |-> IF k \in S THEN None ELSE tasks[k]]
    /\ alive' = {IF x.key \in S /\ tasks[x.key] = x.id
                 THEN [x EXCEPT !.st = "cancelling"] ELSE x : x \in alive}
    /\ UNCHANGED crashed

FreshId(k) == CHOOSE i \in Ids : i # tasks[k] /\ \A x \in alive : x.key = k => x.id # i

(* _start_task() for each key of S; a name without a class is skipped. *)
StartTasks(S) ==
    LET started == {k \in S : k[2] \in KnownNames} IN
    /\ tasks' = [k \in Keys |-> IF k \in started THEN FreshId(k) ELSE tasks[k]]
    /\ alive' = alive \cup
                {[key |-> k, id |-> FreshId(k), cfg |-> rows[k], st |-> "running"] :
                     k \in started}
    /\ crashed' = crashed \ started

-----------------------------------------------------------------------------
(* The manager. *)

Start ==
    /\ pc = "new"
    /\ pc' = "read"
    /\ UNCHANGED <<world, channel, procs, job, rows, toStart, faults>>

(* Where an operation goes on when it is done, or has raised. *)
Idle ==
    CASE backend = "postgres" -> "wait"
      [] backend = "redis" /\ job = "boot" -> "connect"
      [] OTHER -> "listen"

Raised ==
    /\ pc' = CASE job = "boot" -> "failed"
               [] backend = "postgres" -> "wait"
               [] OTHER -> "connect"
    /\ Unsubscribe

(* _poll_loop wakes up. *)
Tick ==
    /\ pc = "wait"
    /\ job' = "reconcile"
    /\ pc' = "read"
    /\ UNCHANGED <<world, channel, procs, rows, toStart, faults>>

ConnectWithoutReconcile ==
    /\ pc = "connect"
    /\ subscribed' = TRUE
    /\ job' = "reconcile"
    /\ pc' = "listen"
    /\ UNCHANGED <<world, queue, missed, procs, rows, toStart, faults>>

(* _subscribe_valkey subscribes first and reconciles then. *)
Connect ==
    /\ pc = "connect"
    /\ subscribed' = TRUE
    /\ job' = "reconcile"
    /\ pc' = "read"
    /\ UNCHANGED <<world, queue, missed, procs, rows, toStart, faults>>

Disconnected ==
    /\ pc = "listen"
    /\ ~subscribed
    /\ pc' = "connect"
    /\ UNCHANGED <<world, channel, procs, job, rows, toStart, faults>>

ReloadKeys(t) == {k \in Keys : k[1] = t /\ tasks[k] # None}

(* _reload_tenant(), up to its read. *)
Receive ==
    /\ pc = "listen"
    /\ queue # <<>>
    /\ queue' = Tail(queue)
    /\ missed' = missed \ {Head(queue)}
    /\ CancelTasks(ReloadKeys(Head(queue)))
    /\ job' = Head(queue)
    /\ pc' = "read"
    /\ UNCHANGED <<world, subscribed, rows, toStart, faults>>

FetchedBefore ==
    [k \in Keys |-> CASE job \notin Tenants -> table[k]
                      [] k[1] = job -> rows[k]
                      [] OTHER -> None]

(* _fetch_providers(), of one tenant in a reload. *)
Fetched == [k \in Keys |-> IF job \in Tenants /\ k[1] # job THEN None ELSE table[k]]

Read ==
    /\ pc = "read"
    /\ Gathered
    /\ rows' = Fetched
    /\ toStart' = {k \in Keys : Fetched[k] # None}
    /\ pc' = IF job = "reconcile" THEN "cancel" ELSE "start"
    /\ UNCHANGED <<world, channel, procs, job, faults>>

(* start() goes on without rows; a reconcile or a reload is given up. *)
ReadFails ==
    /\ pc = "read"
    /\ Gathered
    /\ Fault
    /\ rows' = NoRows
    /\ toStart' = {}
    /\ IF job = "boot" THEN pc' = "start" /\ UNCHANGED channel ELSE Raised
    /\ UNCHANGED <<world, procs, job>>

(* _reconcile_all(): cancel what has no row, keep what is running. *)
CancelStale ==
    /\ pc = "cancel"
    /\ CancelTasks({k \in Keys : tasks[k] # None /\ rows[k] = None})
    /\ toStart' = {k \in toStart : tasks[k] = None}
    /\ pc' = "start"
    /\ UNCHANGED <<world, channel, job, rows, faults>>

AllBuildable(k) == TRUE

Buildable(k) == k[2] \in KnownNames => rows[k] \in Good

StartRows ==
    /\ pc = "start"
    /\ Gathered
    /\ \A k \in toStart : Buildable(k)
    /\ StartTasks(toStart)
    /\ pc' = Idle
    /\ toStart' = {}
    /\ UNCHANGED <<world, channel, job, rows, faults>>

(* A constructor raises: the rows behind it in the loop are not started. *)
StartRaises(S) ==
    /\ pc = "start"
    /\ Gathered
    /\ \E k \in toStart : ~Buildable(k)
    /\ S \subseteq {k \in toStart : rows[k] \in Good}
    /\ StartTasks(S)
    /\ Raised
    /\ toStart' = {}
    /\ UNCHANGED <<world, job, rows, faults>>

-----------------------------------------------------------------------------
(* stop(), called once start() is over: cancel the manager and wait for    *)
(* it, then cancel every tracked task and wait for them.                   *)

Stop ==
    /\ pc \in {"wait", "connect", "listen", "read", "cancel", "start", "failed"}
    /\ pc \in {"read", "start"} => job # "boot"
    /\ pc' = "stopping"
    /\ UNCHANGED <<world, channel, procs, job, rows, toStart, faults>>

NothingTracked == {}

Tracked == {k \in Keys : tasks[k] # None}

StopCancels ==
    /\ pc = "stopping"
    /\ Gathered
    /\ CancelTasks(Tracked)
    /\ pc' = "draining"
    /\ UNCHANGED <<world, channel, job, rows, toStart, faults>>

Stopped ==
    /\ pc = "draining"
    /\ Gathered
    /\ pc' = "stopped"
    /\ UNCHANGED <<world, channel, procs, job, rows, toStart, faults>>

Manager ==
    \/ Start \/ Tick \/ Connect \/ Disconnected \/ Receive
    \/ Read \/ CancelStale \/ StartRows
    \/ \E S \in SUBSET toStart : StartRaises(S)
    \/ StopCancels \/ Stopped

Next ==
    \/ Manager
    \/ ReadFails \/ ConnectionLost \/ Stop
    \/ \E k \in Keys, c \in Configs \cup {None} : Edit(k, c)
    \/ \E t \in Tenants : Notify(t)
    \/ \E x \in alive : \/ TaskCrashes(x) \/ TaskReturns(x)
                        \/ \E raises \in BOOLEAN : TaskEnds(x, raises)

Spec == Init /\ [][Next]_vars

(* The event loop runs the manager; writers publish what they commit; a    *)
(* cancelled task ends.                                                    *)
FairSpec ==
    /\ Spec
    /\ WF_vars(Manager)
    /\ \A t \in Tenants : WF_vars(Notify(t))
    /\ WF_vars(\E x \in alive, raises \in BOOLEAN : TaskEnds(x, raises))

-----------------------------------------------------------------------------
TypeOK ==
    /\ backend \in {"postgres", "redis"}
    /\ table \in [Keys -> Configs \cup {None}]
    /\ unsent \subseteq Tenants
    /\ subscribed \in BOOLEAN
    /\ queue \in Seq(Tenants)
    /\ tasks \in [Keys -> Ids \cup {None}]
    /\ alive \subseteq Task
    /\ pc \in {"new", "wait", "connect", "listen", "read", "cancel", "start", "failed",
               "stopping", "draining", "stopped"}
    /\ job \in {"boot", "reconcile"} \cup Tenants
    /\ rows \in [Keys -> Configs \cup {None}]
    /\ toStart \subseteq {k \in Keys : rows[k] # None}
    /\ edits \in 0 .. MaxEdits
    /\ faults \in 0 .. MaxFaults
    /\ missed \subseteq Tenants
    /\ crashed \subseteq Keys

(* "one asyncio Task per active (tenant_id, provider_name) pair": a task   *)
(* is not started before its predecessor has ended, clean-up included.     *)
OneTaskPerKey == \A x, y \in alive : x.key = y.key => x = y

(* Every task that has not been told to end is in _tasks: no reload,       *)
(* crash or late callback makes the registry forget a running task.        *)
RunningIsTracked == \A x \in alive : x.st = "running" => tasks[x.key] = x.id

(* Once stop() has returned no provider task is left. *)
StoppedIsSilent == pc = "stopped" => alive = {}

Ended == pc \in {"failed", "stopping", "draining", "stopped"}

(* Some row cannot be started: it may keep those behind it from starting.  *)
Blocked == \E k \in Keys : k[2] \in KnownNames /\ table[k] \in Broken

(* k is served by a task that runs, or has returned; a crash is repaired   *)
(* by the next reconcile, which Valkey only brings with a reconnection.    *)
Served(k) == tasks[k] # None \/ (backend = "redis" /\ k \in crashed)

(* Once the table and the network calm down, the tracked tasks are those   *)
(* of the enabled rows.                                                    *)
Converges ==
    <>[](Ended \/ Blocked \/ \A k \in Keys :
            IF table[k] \in Good /\ k[2] \in KnownNames THEN Served(k) ELSE tasks[k] = None)

HasConfigOfRow(k) == \A x \in alive : x.key = k => x.cfg = table[k]

(* With Valkey, the tasks of a tenant whose messages arrive end up with    *)
(* the configuration that the table holds.                                 *)
ReloadsConfig ==
    <>[](Ended \/ Blocked \/ backend = "postgres" \/
            \A k \in Keys : k[1] \in missed \/ HasConfigOfRow(k))
=============================================================================
