--------------------------- MODULE ModelLifecycle ---------------------------
(***************************************************************************)
(* On-demand models of omkit/model_lifecycle.py: requests that call        *)
(* ensure_loaded(), the reaper of ModelRegistry, unload_all(), and the     *)
(* executor threads in which models are loaded and unloaded.               *)
(*                                                                         *)
(* Cancelling a task that awaits the executor gives up the lock and leaves *)
(* the thread running.                                                     *)
(***************************************************************************)
EXTENDS Integers

CONSTANTS
    Models,         \* registered lifecycles
    Users,          \* requests that use a model
    MaxTtl,         \* the longest ttl given to set_ttl() and start_reaper()
    None,
    MaxCalls,       \* bound: calls of start_reaper(), stop_reaper(), unload_all()
    MaxFaults       \* bound: loads and unloads that raise, requests cancelled

ASSUME NamesAssumption ==
    /\ None \notin Models \cup Users \cup {"reaper", "closer"}
    /\ Users \cap {"reaper", "closer"} = {}
ASSUME BoundsAssumption == MaxTtl \in Nat /\ MaxCalls \in Nat /\ MaxFaults \in Nat

Ttls == 0 .. MaxTtl                 \* 0 disables the reaper

Sweepers == {"reaper", "closer"}    \* _reap_loop() and unload_all()
Tasks    == Users \cup Sweepers

VARIABLES
    loaded,     \* loaded[m]: _model is not None
    idle,       \* idle[m]: time since _last_used, up to the longest ttl
    lock,       \* lock[m]: who holds _lock
    ttl,        \* _ttl
    pc, on,     \* where each task is, and with which model
    todo,       \* todo[s]: models of the sweep that s has not visited
    seen,       \* seen[m]: now - last_used for the `now` of the sweep; -1 is negative
    threads,    \* models whose _do_unload runs on without a task
    calls, faults,
    released,   \* history: models whose _do_unload has begun since they were loaded
    cut,        \* history: models of which an unload was cancelled or raised
    fresh       \* history: models whose load ended since unload_all() was called

models == <<loaded, idle, lock>>
sweep  == <<todo, seen>>
hist   == <<released, cut, fresh>>
vars   == <<models, ttl, pc, on, sweep, threads, calls, faults, hist>>

NoSweep == [m \in Models |-> -1]

Init ==
    /\ loaded = [m \in Models |-> FALSE]
    /\ idle = [m \in Models |-> MaxTtl]
    /\ lock = [m \in Models |-> None]
    /\ ttl \in Ttls
    /\ pc = [t \in Tasks |-> IF t \in Users THEN "idle" ELSE "off"]
    /\ on = [t \in Tasks |-> None]
    /\ todo = [s \in Sweepers |-> {}]
    /\ seen = NoSweep
    /\ threads = {}
    /\ calls = 0
    /\ faults = 0
    /\ released = {}
    /\ cut = {}
    /\ fresh = {}

Call  == calls < MaxCalls /\ calls' = calls + 1
Fault == faults < MaxFaults /\ faults' = faults + 1

At(t, l, m) == pc' = [pc EXCEPT ![t] = l] /\ on' = [on EXCEPT ![t] = m]

KeepLock(m) == UNCHANGED lock

Release(m) == lock' = [lock EXCEPT ![m] = None]

(* _last_used = time.monotonic() *)
Used(m) ==
    /\ idle' = [idle EXCEPT ![m] = 0]
    /\ seen' = [seen EXCEPT ![m] = -1]

WaitUnlessLoaded(m) == ~loaded[m] /\ lock[m] # None

(* Whether asyncio.Lock makes the caller wait. *)
MustWait(m) == lock[m] # None \/ \E t \in Tasks : pc[t] = "lock" /\ on[t] = m

-----------------------------------------------------------------------------
(* ensure_loaded(), once it has the lock *)
EnsureLocked(u, m) ==
    /\ \/ /\ loaded[m]
          /\ Used(m)
          /\ At(u, "using", m)
          /\ UNCHANGED lock
       \/ /\ ~loaded[m]
          /\ lock' = [lock EXCEPT ![m] = u]
          /\ At(u, "load", m)
          /\ UNCHANGED <<idle, seen>>
    /\ UNCHANGED <<loaded, ttl, todo, threads, calls, faults, hist>>

(* unload(), once it has the lock *)
BeginUnload(s, m) ==
    /\ lock' = [lock EXCEPT ![m] = s]
    /\ At(s, "unload", m)
    /\ released' = released \cup {m}

UnloadLocked(s, m) ==
    /\ \/ loaded[m] /\ BeginUnload(s, m)
       \/ ~loaded[m] /\ At(s, "sweep", None) /\ UNCHANGED <<lock, released>>
    /\ UNCHANGED <<loaded, idle, ttl, sweep, threads, calls, faults, cut, fresh>>

GetLock(t) ==
    \E m \in Models :
        /\ pc[t] = "lock"
        /\ on[t] = m
        /\ lock[m] = None
        /\ IF t \in Users THEN EnsureLocked(t, m) ELSE UnloadLocked(t, m)

-----------------------------------------------------------------------------
(* A request *)

EnsureLoaded(u, m) ==
    /\ u \in Users
    /\ pc[u] = "idle"
    /\ \/ ~MustWait(m) /\ EnsureLocked(u, m)
       \/ /\ MustWait(m)
          /\ At(u, "lock", m)
          /\ UNCHANGED <<models, ttl, sweep, threads, calls, faults, hist>>

Load(u) ==
    \E m \in Models :
        /\ pc[u] = "load"
        /\ on[u] = m
        /\ loaded' = [loaded EXCEPT ![m] = TRUE]
        /\ Used(m)
        /\ Release(m)
        /\ At(u, "using", m)
        /\ released' = IF m \in threads THEN released ELSE released \ {m}
        /\ fresh' = fresh \cup {m}
        /\ UNCHANGED <<ttl, todo, threads, calls, faults, cut>>

LoadRaises(u) ==
    \E m \in Models :
        /\ pc[u] = "load"
        /\ on[u] = m
        /\ Fault
        /\ Release(m)
        /\ At(u, "idle", None)
        /\ UNCHANGED <<loaded, idle, ttl, sweep, threads, calls, hist>>

Touch(u) ==
    /\ pc[u] = "using"
    /\ Used(on[u])
    /\ UNCHANGED <<loaded, lock, ttl, pc, on, todo, threads, calls, faults, hist>>

Finish(u) ==
    /\ pc[u] = "using"
    /\ At(u, "idle", None)
    /\ UNCHANGED <<models, ttl, sweep, threads, calls, faults, hist>>

CancelUser(u) ==
    \E m \in Models :
        /\ u \in Users
        /\ on[u] = m
        /\ Fault
        /\ \/ pc[u] = "load" /\ Release(m)
           \/ pc[u] = "lock" /\ UNCHANGED lock
        /\ At(u, "idle", None)
        /\ UNCHANGED <<loaded, idle, ttl, sweep, threads, calls, hist>>

-----------------------------------------------------------------------------
(* The reaper and unload_all() *)

(* A sweep begins: sleep(interval) is over, and now = time.monotonic(). *)
Sweep ==
    /\ pc["reaper"] = "sleep"
    /\ ttl > 0
    /\ At("reaper", "sweep", None)
    /\ todo' = [todo EXCEPT !["reaper"] = Models]
    /\ seen' = idle
    /\ UNCHANGED <<models, ttl, threads, calls, faults, hist>>

DueIfIdle(s, m) == loaded[m] /\ idle[m] >= ttl

Due(s, m) == loaded[m] /\ (s = "reaper" => seen[m] >= ttl)

Visit(s, m) ==
    /\ pc[s] = "sweep"
    /\ m \in todo[s]
    /\ todo' = [todo EXCEPT ![s] = @ \ {m}]
    /\ \/ ~Due(s, m) /\ UNCHANGED <<lock, pc, on, released>>
       \/ Due(s, m) /\ MustWait(m) /\ At(s, "lock", m) /\ UNCHANGED <<lock, released>>
       \/ Due(s, m) /\ ~MustWait(m) /\ BeginUnload(s, m)
    /\ UNCHANGED <<loaded, idle, ttl, seen, threads, calls, faults, cut, fresh>>

SweepDone(s) ==
    /\ pc[s] = "sweep"
    /\ todo[s] = {}
    /\ At(s, IF s = "reaper" THEN "sleep" ELSE "done", None)
    /\ seen' = IF s = "reaper" THEN NoSweep ELSE seen
    /\ UNCHANGED <<models, ttl, todo, threads, calls, faults, hist>>

Unload(s) ==
    \E m \in Models :
        /\ pc[s] = "unload"
        /\ on[s] = m
        /\ loaded' = [loaded EXCEPT ![m] = FALSE]
        /\ idle' = [idle EXCEPT ![m] = MaxTtl]
        /\ Release(m)
        /\ At(s, "sweep", None)
        /\ UNCHANGED <<ttl, sweep, threads, calls, faults, hist>>

RaisesOut(s) == "raised"

(* The reaper goes on with the next model, unload_all() does not. *)
AfterRaise(s) == IF s = "reaper" THEN "sweep" ELSE "raised"

UnloadRaises(s) ==
    \E m \in Models :
        /\ pc[s] = "unload"
        /\ on[s] = m
        /\ Fault
        /\ Release(m)
        /\ cut' = cut \cup {m}
        /\ At(s, AfterRaise(s), None)
        /\ UNCHANGED <<loaded, idle, ttl, sweep, threads, calls, released, fresh>>

Unloading == pc["reaper"] = "unload"

(* _reaper_task.cancel(): a cancelled unload leaves _model set. *)
CancelReaper ==
    /\ seen' = NoSweep
    /\ IF Unloading
       THEN /\ Release(on["reaper"])
            /\ threads' = threads \cup {on["reaper"]}
            /\ cut' = cut \cup {on["reaper"]}
       ELSE UNCHANGED <<lock, threads, cut>>

StartReaper ==
    /\ Call
    /\ CancelReaper
    /\ ttl' \in Ttls
    /\ todo' = [todo EXCEPT !["reaper"] = {}]
    /\ At("reaper", "sleep", None)
    /\ UNCHANGED <<loaded, idle, faults, released, fresh>>

StopReaper ==
    /\ Call
    /\ pc["reaper"] # "off"
    /\ CancelReaper
    /\ todo' = [todo EXCEPT !["reaper"] = {}]
    /\ At("reaper", "off", None)
    /\ UNCHANGED <<loaded, idle, ttl, faults, released, fresh>>

SetTtl ==
    /\ ttl' \in Ttls
    /\ UNCHANGED <<models, pc, on, sweep, threads, calls, faults, hist>>

UnloadAll ==
    /\ Call
    /\ pc["closer"] \in {"off", "done", "raised"}
    /\ CancelReaper
    /\ pc' = [pc EXCEPT !["reaper"] = "off", !["closer"] = "sweep"]
    /\ on' = [on EXCEPT !["reaper"] = None]
    /\ todo' = [s \in Sweepers |-> IF s = "closer" THEN Models ELSE {}]
    /\ fresh' = {}
    /\ UNCHANGED <<loaded, idle, ttl, faults, released>>

-----------------------------------------------------------------------------
ThreadEnds(m) ==
    /\ threads' = threads \ {m}
    /\ UNCHANGED <<models, ttl, pc, on, sweep, calls, faults, hist>>

Tick ==
    /\ idle' = [m \in Models |-> IF idle[m] < MaxTtl THEN idle[m] + 1 ELSE MaxTtl]
    /\ idle' # idle
    /\ UNCHANGED <<loaded, lock, ttl, pc, on, sweep, threads, calls, faults, hist>>

Reaping(s) ==
    \/ SweepDone(s) \/ Unload(s) \/ UnloadRaises(s)
    \/ \E m \in Models : Visit(s, m)

Request(u) ==
    \/ \E m \in Models : EnsureLoaded(u, m)
    \/ Load(u) \/ LoadRaises(u) \/ Touch(u) \/ Finish(u) \/ CancelUser(u)

Next ==
    \/ \E u \in Users : Request(u)
    \/ \E t \in Tasks : GetLock(t)
    \/ \E s \in Sweepers : Reaping(s)
    \/ Sweep \/ StartReaper \/ StopReaper \/ SetTtl \/ UnloadAll \/ Tick
    \/ \E m \in threads : ThreadEnds(m)

Spec == Init /\ [][Next]_vars

(* Executor jobs end, the lock is handed out in turn, time passes. *)
FairSpec ==
    /\ Spec
    /\ \A u \in Users : WF_vars(Load(u))
    /\ \A t \in Tasks : SF_vars(GetLock(t))
    /\ \A s \in Sweepers : WF_vars(Reaping(s))
    /\ WF_vars(Sweep) /\ WF_vars(Tick)

-----------------------------------------------------------------------------
TypeOK ==
    /\ loaded \in [Models -> BOOLEAN]
    /\ idle \in [Models -> 0 .. MaxTtl]
    /\ lock \in [Models -> Tasks \cup {None}]
    /\ ttl \in Ttls
    /\ pc \in [Tasks -> {"idle", "lock", "load", "using", "off", "sleep", "sweep", "unload",
                         "done", "raised"}]
    /\ on \in [Tasks -> Models \cup {None}]
    /\ todo \in [Sweepers -> SUBSET Models]
    /\ seen \in [Models -> -1 .. MaxTtl]
    /\ threads \subseteq Models
    /\ calls \in 0 .. MaxCalls
    /\ faults \in 0 .. MaxFaults
    /\ released \subseteq Models
    /\ cut \subseteq Models
    /\ fresh \subseteq Models

(* When ensure_loaded() returns, the model is in memory and _do_unload has *)
(* not touched it, unless an unload of this model was once cancelled or    *)
(* raised.                                                                 *)
Returns(u) == pc[u] # "using" /\ pc'[u] = "using"

UsableWhenEnsured ==
    [][\A u \in Users : Returns(u) =>
         loaded'[on'[u]] /\ (on'[u] \in released' => on'[u] \in cut')]_vars

(* When unload_all() returns, the only models in memory are those whose    *)
(* load ended after it was called.                                         *)
ShutdownUnloads ==
    pc["closer"] = "done" => \A m \in Models : loaded[m] => m \in fresh

(* ensure_loaded() returns or raises: nobody keeps the lock. *)
CallersReturn ==
    \A u \in Users : pc[u] \in {"lock", "load"} ~> pc[u] \in {"idle", "using"}

(* Under a running reaper a model that is no longer asked for is unloaded. *)
Reaped == pc["reaper"] # "off" /\ ttl > 0
Unused(m) == \A u \in Users : on[u] # m

IdleIsUnloaded ==
    \A m \in Models : <>[](Reaped /\ Unused(m)) => []<>(~loaded[m])
=============================================================================
