----------------------- MODULE ProviderRegistryProofs -----------------------
(***************************************************************************)
(* One task per row, none forgotten and none left after stop(), for any    *)
(* number of rows, edits and failures.                                     *)
(*                                                                         *)
(* The two properties of the tasks need each other: a key may be started   *)
(* because it is not tracked and nothing is being cancelled, so that       *)
(* RunningIsTracked says that no task of it is alive; and the late         *)
(* callback that pops a key forgets no other task because there is one     *)
(* task per key.  What the manager knows when it starts keys is in         *)
(* NotTracked.                                                             *)
(***************************************************************************)
EXTENDS ProviderRegistry, TLAPS

TaskTypes ==
    /\ tasks \in [Keys -> Ids \cup {None}]
    /\ alive \subseteq Task
    /\ crashed \subseteq Keys

Procs == TaskTypes /\ OneTaskPerKey /\ RunningIsTracked

(* Whether the manager is in start(). *)
Booting == job = "boot" /\ pc \in {"new", "read"}

(* The keys about to be started have no task: nothing has one in start(),  *)
(* a reload has cancelled the tasks of its tenant, and a reconcile leaves  *)
(* out what is tracked.                                                    *)
NotTracked ==
    /\ pc = "new" => job = "boot"
    /\ Booting => \A k \in Keys : tasks[k] = None
    /\ pc = "read" /\ job \in Tenants => \A k \in Keys : k[1] = job => tasks[k] = None
    /\ pc = "start" => \A k \in toStart : tasks[k] = None

(* The last gather() of stop() waits for every task there is. *)
Draining ==
    /\ pc = "draining" => \A x \in alive : x.st = "cancelling"
    /\ StoppedIsSilent

IInv == TypeOK /\ Procs /\ NotTracked /\ Draining

-----------------------------------------------------------------------------
(* The steps on tasks. *)

(* A task ends and perhaps pops its key: no other task had that key. *)
LEMMA EndKeepsProcs ==
    ASSUME Procs, NEW x \in alive,
           alive' = alive \ {x},
           tasks' = tasks \/ tasks' = [tasks EXCEPT ![x.key] = None],
           crashed' = crashed \/ crashed' = crashed \cup {x.key}
    PROVE  /\ Procs'
           /\ \A k \in Keys : tasks'[k] \in {tasks[k], None}
<1>1. x \in Task /\ x.key \in Keys
  BY DEF Procs, TaskTypes, Task
<1>2. /\ tasks' \in [Keys -> Ids \cup {None}]
      /\ \A k \in Keys : tasks'[k] \in {tasks[k], None}
      /\ \A k \in Keys : k # x.key => tasks'[k] = tasks[k]
  BY <1>1 DEF Procs, TaskTypes
<1>3. TaskTypes' /\ OneTaskPerKey'
  BY <1>1, <1>2 DEF Procs, TaskTypes, OneTaskPerKey
<1>4. ASSUME NEW y \in alive', y.st = "running" PROVE tasks'[y.key] = y.id
  <2>1. y \in alive /\ y # x /\ y.key \in Keys
    BY <1>4 DEF Procs, TaskTypes, Task
  <2>2. y.key # x.key
    BY <2>1 DEF Procs, OneTaskPerKey
  <2> QED BY <1>2, <1>4, <2>1, <2>2 DEF Procs, RunningIsTracked
<1>5. RunningIsTracked'
  BY <1>4 DEF RunningIsTracked
<1> QED BY <1>2, <1>3, <1>5 DEF Procs

(* _cancel_tasks() forgets no task that goes on running. *)
LEMMA CancelKeepsProcs ==
    ASSUME Procs, NEW S, CancelTasks(S)
    PROVE  /\ Procs'
           /\ \A k \in Keys : tasks'[k] \in {tasks[k], None} /\ (k \in S => tasks'[k] = None)
           /\ \A y \in alive' : y.st = "running" => y \in alive /\ y.key \notin S
<1> DEFINE Hit(x) == x.key \in S /\ tasks[x.key] = x.id
           After(x) == IF Hit(x) THEN [x EXCEPT !.st = "cancelling"] ELSE x
<1>1. /\ tasks' \in [Keys -> Ids \cup {None}]
      /\ \A k \in Keys : tasks'[k] \in {tasks[k], None} /\ (k \in S => tasks'[k] = None)
      /\ \A k \in Keys : k \notin S => tasks'[k] = tasks[k]
  BY DEF CancelTasks, Procs, TaskTypes
<1>2. crashed' = crashed /\ alive' = {After(x) : x \in alive}
  BY DEF CancelTasks
<1>3. ASSUME NEW x \in alive
      PROVE  /\ x \in Task /\ x.key \in Keys /\ x.id \in Ids /\ After(x) \in Task
             /\ After(x).key = x.key /\ After(x).id = x.id
             /\ Hit(x) => After(x).st = "cancelling"
             /\ ~ Hit(x) => After(x) = x
  BY DEF Procs, TaskTypes, Task
<1> HIDE DEF After
<1>4. TaskTypes'
  BY <1>1, <1>2, <1>3 DEF Procs, TaskTypes
<1>5. ASSUME NEW y \in alive', NEW z \in alive', y.key = z.key PROVE y = z
  <2>1. PICK x \in alive : y = After(x)
    BY <1>2
  <2>2. PICK w \in alive : z = After(w)
    BY <1>2
  <2>3. x = w
    BY <1>3, <1>5, <2>1, <2>2 DEF Procs, OneTaskPerKey
  <2> QED BY <2>1, <2>2, <2>3
<1>6. ASSUME NEW y \in alive', y.st = "running"
      PROVE  y \in alive /\ y.key \notin S /\ tasks'[y.key] = y.id
  <2>1. PICK x \in alive : y = After(x)
    BY <1>2
  <2>2. ~ Hit(x) /\ y = x
    BY <1>3, <1>6, <2>1
  <2>3. tasks[x.key] = x.id
    BY <1>6, <2>2 DEF Procs, RunningIsTracked
  <2> QED BY <1>1, <1>3, <2>2, <2>3
<1>7. OneTaskPerKey' /\ RunningIsTracked'
  BY <1>5, <1>6 DEF OneTaskPerKey, RunningIsTracked
<1> QED BY <1>1, <1>4, <1>6, <1>7 DEF Procs

(* Once the cancelled tasks have ended, a key that is not tracked has no   *)
(* task: starting one makes no second.                                     *)
LEMMA StartKeepsProcs ==
    ASSUME Procs, Gathered, NEW S \in SUBSET Keys, StartTasks(S),
           \A k \in S : tasks[k] = None /\ (k[2] \in KnownNames => rows[k] \in Good)
    PROVE  Procs'
<1> DEFINE started == {k \in S : k[2] \in KnownNames}
           New(k) == [key |-> k, id |-> FreshId(k), cfg |-> rows[k], st |-> "running"]
<1>1. ASSUME NEW k \in started
      PROVE  /\ k \in Keys /\ FreshId(k) \in Ids /\ \A x \in alive : x.key # k
             /\ New(k) \in Task /\ New(k).key = k /\ New(k).id = FreshId(k)
  <2>1. k \in Keys /\ tasks[k] = None /\ rows[k] \in Good
    OBVIOUS
  <2>2. ASSUME NEW x \in alive PROVE x.key # k
    <3>1. x.id \in Ids /\ tasks[x.key] = x.id
      BY DEF Gathered, Procs, TaskTypes, Task, RunningIsTracked
    <3> QED BY <2>1, <3>1, RegistryAssumption
  <2>3. PICK i \in Ids : TRUE
    BY RegistryAssumption
  <2>4. i # tasks[k] /\ \A x \in alive : x.key = k => x.id # i
    BY <2>1, <2>2, RegistryAssumption
  <2>5. FreshId(k) \in Ids
    BY <2>4 DEF FreshId
  <2> QED BY <2>1, <2>2, <2>5 DEF Task
<1>2. /\ tasks' = [k \in Keys |-> IF k \in started THEN FreshId(k) ELSE tasks[k]]
      /\ alive' = alive \cup {New(k) : k \in started}
      /\ crashed' = crashed \ started
  BY DEF StartTasks
<1> HIDE DEF started, New
<1>3. TaskTypes'
  BY <1>1, <1>2 DEF Procs, TaskTypes
<1>4. ASSUME NEW x \in alive', NEW y \in alive', x.key = y.key PROVE x = y
  <2>1. x \in alive \/ \E k \in started : x = New(k)
    BY <1>2
  <2>2. y \in alive \/ \E k \in started : y = New(k)
    BY <1>2
  <2> QED BY <1>1, <1>4, <2>1, <2>2 DEF Procs, OneTaskPerKey
<1>5. ASSUME NEW x \in alive', x.st = "running" PROVE tasks'[x.key] = x.id
  <2>1. CASE x \in alive
    <3>1. x.key \in Keys /\ x.key \notin started /\ tasks[x.key] = x.id
      BY <1>1, <1>5, <2>1 DEF Procs, TaskTypes, Task, RunningIsTracked
    <3> QED BY <1>2, <3>1
  <2>2. CASE \E k \in started : x = New(k)
    BY <1>1, <1>2, <2>2
  <2> QED BY <1>2, <2>1, <2>2
<1> QED BY <1>3, <1>4, <1>5 DEF Procs, OneTaskPerKey, RunningIsTracked

(* Steps that touch no task. *)
LEMMA QuietKeepsProcs == ASSUME Procs, UNCHANGED procs PROVE Procs'
  BY DEF procs, Procs, TaskTypes, OneTaskPerKey, RunningIsTracked

-----------------------------------------------------------------------------
(* The steps of the specification. *)

ChannelTypes == subscribed \in BOOLEAN /\ queue \in Seq(Tenants) /\ missed \subseteq Tenants

WorldTypes ==
    /\ table \in [Keys -> Configs \cup {None}] /\ unsent \subseteq Tenants
    /\ edits \in 0 .. MaxEdits /\ faults \in 0 .. MaxFaults

(* The end of a subscription leaves an empty queue. *)
LEMMA UnsubscribeTypes ==
    ASSUME ChannelTypes, Unsubscribe
    PROVE  ChannelTypes'
<1>1. \A i \in DOMAIN queue : queue[i] \in Tenants
  BY DEF ChannelTypes
<1>2. queue' \in Seq(Tenants) /\ missed' \subseteq Tenants
  BY <1>1 DEF ChannelTypes, Unsubscribe
<1>3. subscribed' \in BOOLEAN
  BY DEF Unsubscribe
<1> QED BY <1>2, <1>3 DEF ChannelTypes

(* Nothing runs before start(). *)
LEMMA InitInv == Init => IInv
<1> SUFFICES ASSUME Init PROVE IInv
  OBVIOUS
<1>1. TypeOK
  <2>1. edits \in 0 .. MaxEdits /\ faults \in 0 .. MaxFaults
    BY RegistryAssumption DEF Init
  <2>2. subscribed \in BOOLEAN
    BY DEF Init
  <2>3. queue \in Seq(Tenants)
    BY DEF Init
  <2>4. NoRows \in [Keys -> Configs \cup {None}] /\ NoRows \in [Keys -> Ids \cup {None}]
    BY DEF NoRows
  <2> QED BY <2>1, <2>2, <2>3, <2>4 DEF Init, TypeOK
<1>2. Procs
  BY <1>1 DEF Init, TypeOK, Procs, TaskTypes, OneTaskPerKey, RunningIsTracked
<1>3. NotTracked /\ Draining
  BY DEF Init, NotTracked, Booting, NoRows, Draining, StoppedIsSilent
<1> QED BY <1>1, <1>2, <1>3 DEF IInv

(* The table and the network. *)
LEMMA EnvironmentStep ==
    ASSUME IInv,
           \/ \E k \in Keys, c \in Configs \cup {None} : Edit(k, c)
           \/ \E t \in Tenants : Notify(t)
           \/ ConnectionLost
           \/ UNCHANGED vars
    PROVE  IInv'
<1> USE RegistryAssumption DEF IInv
<1>1. UNCHANGED <<procs, manager, backend>>
  BY DEF Edit, Notify, ConnectionLost, vars, world
<1>2. Procs' /\ NotTracked' /\ Draining'
  BY <1>1, QuietKeepsProcs
  DEF procs, manager, NotTracked, Booting, Draining, StoppedIsSilent
<1>3. ChannelTypes'
  <2>1. ChannelTypes
    BY DEF TypeOK, ChannelTypes
  <2>2. CASE UNCHANGED channel
    BY <2>1, <2>2 DEF ChannelTypes, channel
  <2>3. ASSUME NEW t \in Tenants, Notify(t) PROVE ChannelTypes'
    BY <2>1, <2>3 DEF ChannelTypes, Notify
  <2>4. CASE ConnectionLost
    BY <2>1, <2>4, UnsubscribeTypes DEF ConnectionLost
  <2> QED BY <2>2, <2>3, <2>4 DEF Edit, vars
<1>4. WorldTypes'
  <2>1. ASSUME NEW k \in Keys, NEW c \in Configs \cup {None}, Edit(k, c) PROVE WorldTypes'
    <3>1. k[1] \in Tenants
      BY DEF Keys
    <3> QED BY <2>1, <3>1 DEF WorldTypes, TypeOK, Edit
  <2>2. ASSUME NEW t \in Tenants, Notify(t) PROVE WorldTypes'
    BY <2>2 DEF WorldTypes, TypeOK, Notify
  <2>3. CASE ConnectionLost
    BY <2>3 DEF WorldTypes, TypeOK, ConnectionLost, Fault, world
  <2>4. CASE UNCHANGED vars
    BY <2>4 DEF WorldTypes, TypeOK, vars, world
  <2> QED BY <2>1, <2>2, <2>3, <2>4
<1>5. TypeOK'
  BY <1>1, <1>3, <1>4 DEF TypeOK, ChannelTypes, WorldTypes, procs, manager
<1> QED BY <1>2, <1>5

(* A provider task crashes, returns, or ends after its cancellation. *)
LEMMA TaskStep ==
    ASSUME IInv, NEW x \in alive,
           \/ TaskCrashes(x) \/ TaskReturns(x)
           \/ \E raises \in BOOLEAN : TaskEnds(x, raises)
    PROVE  IInv'
<1> USE RegistryAssumption DEF IInv
<1>1. /\ alive' = alive \ {x}
      /\ tasks' = tasks \/ tasks' = [tasks EXCEPT ![x.key] = None]
      /\ crashed' = crashed \/ crashed' = crashed \cup {x.key}
      /\ UNCHANGED <<world, channel, manager>>
  BY DEF TaskCrashes, TaskReturns, TaskEnds
<1>2. Procs' /\ \A k \in Keys : tasks'[k] \in {tasks[k], None}
  BY <1>1, EndKeepsProcs
<1>3. NotTracked' /\ Draining'
  BY <1>1, <1>2 DEF manager, NotTracked, Booting, TypeOK, Draining, StoppedIsSilent
<1>4. faults' \in 0 .. MaxFaults
  BY DEF TypeOK, TaskCrashes, TaskReturns, TaskEnds, Fault
<1>5. TypeOK'
  BY <1>1, <1>2, <1>4 DEF TypeOK, Procs, TaskTypes, world, channel, manager
<1> QED BY <1>2, <1>3, <1>5

(* The manager moves on without touching a task. *)
LEMMA QuietStep ==
    ASSUME IInv, Start \/ Tick \/ Connect \/ Disconnected \/ Stop \/ Stopped
    PROVE  IInv'
<1> USE RegistryAssumption DEF IInv
<1>1. UNCHANGED <<world, queue, missed, procs, rows, toStart, faults>>
  BY DEF Start, Tick, Connect, Disconnected, Stop, Stopped, channel
<1>2. Procs'
  BY <1>1, QuietKeepsProcs
<1>3. TypeOK'
  <2>1. subscribed' \in BOOLEAN
    BY DEF TypeOK, Start, Tick, Connect, Disconnected, Stop, Stopped, channel
  <2>2. /\ pc' \in {"read", "connect", "stopping", "stopped"}
        /\ job' \in {job, "reconcile"}
    BY DEF Start, Tick, Connect, Disconnected, Stop, Stopped
  <2> QED BY <1>1, <2>1, <2>2 DEF TypeOK, world, procs
<1>4. NotTracked'
  BY <1>1 DEF Start, Tick, Connect, Disconnected, Stop, Stopped, NotTracked, Booting, procs
<1>5. Draining'
  BY <1>1
  DEF Start, Tick, Connect, Disconnected, Stop, Stopped, Draining, StoppedIsSilent, Gathered,
      procs
<1> QED BY <1>2, <1>3, <1>4, <1>5

(* The table is read, or the read fails. *)
LEMMA ReadStep ==
    ASSUME IInv, Read \/ ReadFails
    PROVE  IInv'
<1> USE RegistryAssumption DEF IInv
<1>1. pc = "read" /\ UNCHANGED <<world, procs, job>>
  BY DEF Read, ReadFails
<1>2. Procs'
  BY <1>1, QuietKeepsProcs
<1>3. /\ pc' \in {"wait", "connect", "cancel", "start", "failed"}
      /\ rows' \in [Keys -> Configs \cup {None}]
      /\ toStart' \subseteq {k \in Keys : rows'[k] # None}
  BY DEF TypeOK, Read, ReadFails, Raised, Fetched, NoRows
<1>4. ASSUME pc' = "start", NEW k \in toStart' PROVE tasks[k] = None
  <2>1. Read /\ Fetched[k] # None /\ job # "reconcile" /\ k \in Keys
    BY <1>4 DEF Read, ReadFails
  <2>2. CASE job = "boot"
    BY <1>1, <2>1, <2>2 DEF NotTracked, Booting
  <2>3. CASE job \in Tenants
    <3>1. k[1] = job
      BY <2>1, <2>3 DEF Fetched
    <3> QED BY <1>1, <2>1, <2>3, <3>1 DEF NotTracked
  <2> QED BY <2>1, <2>2, <2>3 DEF TypeOK
<1>5. NotTracked' /\ Draining'
  BY <1>1, <1>3, <1>4 DEF NotTracked, Booting, procs, Draining, StoppedIsSilent
<1>6. ChannelTypes' /\ faults' \in 0 .. MaxFaults
  <2>1. ChannelTypes
    BY DEF TypeOK, ChannelTypes
  <2>2. UNCHANGED channel \/ Unsubscribe
    BY DEF Read, ReadFails, Raised
  <2>3. ChannelTypes'
    BY <2>1, <2>2, UnsubscribeTypes DEF ChannelTypes, channel
  <2>4. faults' \in 0 .. MaxFaults
    BY DEF TypeOK, Read, ReadFails, Fault
  <2> QED BY <2>3, <2>4
<1>7. TypeOK'
  BY <1>1, <1>3, <1>6 DEF TypeOK, ChannelTypes, world, procs
<1> QED BY <1>2, <1>5, <1>7

(* _reload_tenant() cancels the tasks of its tenant. *)
LEMMA ReceiveStep == ASSUME IInv, Receive PROVE IInv'
<1> USE RegistryAssumption DEF IInv
<1>1. /\ pc' = "read" /\ job' = Head(queue) /\ CancelTasks(ReloadKeys(Head(queue)))
      /\ UNCHANGED <<world, subscribed, rows, toStart, faults>>
  BY DEF Receive
<1>2. Head(queue) \in Tenants /\ queue' \in Seq(Tenants) /\ missed' \subseteq Tenants
  BY DEF Receive, TypeOK
<1>3. /\ Procs'
      /\ \A k \in Keys : /\ tasks'[k] \in {tasks[k], None}
                         /\ k \in ReloadKeys(Head(queue)) => tasks'[k] = None
  BY <1>1, CancelKeepsProcs
<1>4. \A k \in Keys : k[1] = Head(queue) => tasks'[k] = None
  BY <1>3 DEF ReloadKeys
<1>5. NotTracked' /\ Draining'
  BY <1>1, <1>2, <1>4 DEF NotTracked, Booting, Draining, StoppedIsSilent
<1>6. TypeOK'
  BY <1>1, <1>2, <1>3 DEF TypeOK, Procs, TaskTypes, world
<1> QED BY <1>3, <1>5, <1>6

(* _reconcile_all() cancels what has no row. *)
LEMMA CancelStaleStep == ASSUME IInv, CancelStale PROVE IInv'
<1> USE RegistryAssumption DEF IInv
<1>1. /\ pc' = "start" /\ toStart' = {k \in toStart : tasks[k] = None}
      /\ UNCHANGED <<world, channel, job, rows, faults>>
  BY DEF CancelStale
<1>2. Procs' /\ \A k \in Keys : tasks'[k] \in {tasks[k], None}
  BY CancelKeepsProcs DEF CancelStale
<1>3. NotTracked' /\ Draining'
  BY <1>1, <1>2 DEF NotTracked, Booting, Draining, StoppedIsSilent, TypeOK
<1>4. TypeOK'
  BY <1>1, <1>2 DEF TypeOK, Procs, TaskTypes, world, channel
<1> QED BY <1>2, <1>3, <1>4

(* stop() cancels everything tracked, and everything alive is tracked. *)
LEMMA StopCancelsStep == ASSUME IInv, StopCancels PROVE IInv'
<1> USE RegistryAssumption DEF IInv
<1>1. /\ pc' = "draining"
      /\ UNCHANGED <<world, channel, job, rows, toStart, faults>>
  BY DEF StopCancels
<1>2. Procs' /\ \A y \in alive' : y.st = "running" => y \in alive /\ y.key \notin Tracked
  BY CancelKeepsProcs DEF StopCancels
<1>3. ASSUME NEW y \in alive' PROVE y.st = "cancelling"
  <2>1. SUFFICES ASSUME y.st = "running" PROVE FALSE
    BY <1>2 DEF Procs, TaskTypes, Task
  <2>2. y \in alive /\ y.key \in Keys /\ y.id \in Ids /\ tasks[y.key] = y.id
    BY <1>2, <2>1 DEF Procs, TaskTypes, Task, RunningIsTracked
  <2> QED BY <1>2, <2>1, <2>2 DEF Tracked
<1>4. NotTracked' /\ Draining'
  BY <1>1, <1>3 DEF NotTracked, Booting, Draining, StoppedIsSilent
<1>5. TypeOK'
  BY <1>1, <1>2 DEF TypeOK, Procs, TaskTypes, world, channel
<1> QED BY <1>2, <1>4, <1>5

(* The rows read are started, all of them or those before one that raises. *)
LEMMA StartStep ==
    ASSUME IInv, StartRows \/ \E S \in SUBSET toStart : StartRaises(S)
    PROVE  IInv'
<1> USE RegistryAssumption DEF IInv
<1>1. /\ pc = "start" /\ toStart' = {} /\ UNCHANGED <<world, job, rows, faults>>
      /\ pc' \in {"wait", "connect", "listen", "failed"}
  BY DEF StartRows, StartRaises, Idle, Raised
<1>2. Procs'
  <2>1. CASE StartRows
    <3>1. \A k \in toStart : tasks[k] = None /\ (k[2] \in KnownNames => rows[k] \in Good)
      BY <2>1 DEF StartRows, NotTracked, Buildable
    <3> QED BY <2>1, <3>1, StartKeepsProcs DEF StartRows, TypeOK
  <2>2. ASSUME NEW S \in SUBSET toStart, StartRaises(S) PROVE Procs'
    <3>1. \A k \in S : tasks[k] = None /\ (k[2] \in KnownNames => rows[k] \in Good)
      BY <2>2 DEF StartRaises, NotTracked
    <3> QED BY <2>2, <3>1, StartKeepsProcs DEF StartRaises, TypeOK
  <2> QED BY <2>1, <2>2
<1>3. NotTracked' /\ Draining'
  BY <1>1 DEF NotTracked, Booting, Draining, StoppedIsSilent
<1>4. ChannelTypes'
  <2>1. ChannelTypes
    BY DEF TypeOK, ChannelTypes
  <2>2. UNCHANGED channel \/ Unsubscribe
    BY DEF StartRows, StartRaises, Raised
  <2> QED BY <2>1, <2>2, UnsubscribeTypes DEF ChannelTypes, channel
<1>5. TypeOK'
  BY <1>1, <1>2, <1>4 DEF TypeOK, Procs, TaskTypes, ChannelTypes, world
<1> QED BY <1>2, <1>3, <1>5

(* Every step keeps the invariant. *)
LEMMA StepInv == IInv /\ [Next]_vars => IInv'
  BY EnvironmentStep, TaskStep, QuietStep, ReadStep, ReceiveStep, CancelStaleStep,
     StopCancelsStep, StartStep
  DEF Next, Manager

(* The inductive invariant holds throughout every behaviour. *)
LEMMA Invariance == Spec => []IInv
  BY InitInv, StepInv, PTL DEF Spec

-----------------------------------------------------------------------------
(* The registry's state stays well typed; in particular every task runs    *)
(* with a configuration its provider could be built from.                  *)
THEOREM TypeCorrect == Spec => []TypeOK
  BY Invariance, PTL DEF IInv

(* A key never has two tasks, the one that is still cleaning up included.  *)
THEOREM OneTaskPerKeyAlways == Spec => []OneTaskPerKey
  BY Invariance, PTL DEF IInv, Procs

(* No task that goes on running is missing from _tasks. *)
THEOREM RunningStaysTracked == Spec => []RunningIsTracked
  BY Invariance, PTL DEF IInv, Procs

(* When stop() has returned, no task is left. *)
THEOREM StopLeavesNothing == Spec => []StoppedIsSilent
  BY Invariance, PTL DEF IInv, Draining

(* _start_task() never replaces a task: the keys it is called for have     *)
(* none, neither tracked nor still ending.                                 *)
THEOREM StartsOnlyMissing ==
    Spec => [](pc = "start" /\ Gathered =>
                 \A k \in toStart : tasks[k] = None /\ \A x \in alive : x.key # k)
<1>1. ASSUME IInv, pc = "start", Gathered, NEW k \in toStart
      PROVE  tasks[k] = None /\ \A x \in alive : x.key # k
  <2>1. tasks[k] = None
    BY <1>1 DEF IInv, NotTracked
  <2>2. ASSUME NEW x \in alive PROVE x.key # k
    <3>1. x.id \in Ids /\ tasks[x.key] = x.id
      BY <1>1 DEF IInv, Gathered, Procs, TaskTypes, Task, RunningIsTracked
    <3> QED BY <2>1, <3>1, RegistryAssumption
  <2> QED BY <2>1, <2>2
<1>2. IInv => (pc = "start" /\ Gathered =>
                 \A k \in toStart : tasks[k] = None /\ \A x \in alive : x.key # k)
  BY <1>1
<1> QED BY <1>2, Invariance, PTL

=============================================================================
