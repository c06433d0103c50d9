----------------------------- MODULE Scheduler -----------------------------
(***************************************************************************)
(* omkit/scheduler/scheduler.py: the loop that reads the providers table   *)
(* and registers one cron entry per row with a backend, until stop().      *)
(*                                                                         *)
(* Each await on the database or the backend is a step of its own, so that *)
(* the table can change, a call can fail, and stop() can cancel the loop   *)
(* between any two of them.  A call that fails, or is cancelled, may have  *)
(* taken effect before its reply was lost.  The backend is external: it    *)
(* hands out fresh entry ids, and ignores an id it does not know, like the *)
(* test double of tests/test_scheduler.py.                                 *)
(***************************************************************************)
EXTENDS Naturals, FiniteSets

CONSTANTS
    Keys,       \* "<tenant>:<name>" keys of providers rows
    Good,       \* configs for which derive_cron returns (cronspec, True)
    Skipped,    \* configs for which derive_cron returns ok = False
    Broken,     \* configs for which derive_cron raises
    Ids,        \* bound: entry ids of the backend in use at a time
    None,       \* no row, no entry
    MaxEdits,   \* bound: changes of the table
    MaxFaults   \* bound: calls that raise

Configs == Good \cup Skipped \cup Broken

Registration == [id : Ids, key : Keys, cfg : Good]
Entry        == [id : Ids, cfg : Good]

ASSUME SchedulerAssumption ==
    /\ None \notin Configs \cup Keys \cup Entry
    /\ MaxEdits \in Nat
    /\ MaxFaults \in Nat

VARIABLES
    table,      \* table[k]: config of the enabled row of k, or None
    desired,    \* the rows the running reconcile has fetched
    entries,    \* _entries: [id, cfg] of the registration of k, or None
    live,       \* backend: the registrations that fire
    pc,         \* where the scheduler is
    looping,    \* start() has returned: the loop is a task of its own
    todo,       \* keys the current for loop has still to visit
    cur,        \* key whose unregister/register call is in progress
    edits, faults,
    orphans,    \* history: ids whose register reply was lost
    ghosts      \* history: ids whose unregister reply was lost

env  == <<table, edits>>
hist == <<orphans, ghosts>>
vars == <<env, desired, entries, live, pc, looping, todo, cur, faults, hist>>

TrackedIds == {entries[k].id : k \in {j \in Keys : entries[j] # None}}
LiveIds    == {r.id : r \in live}
FreeIds    == Ids \ (TrackedIds \cup LiveIds \cup ghosts)
FreshId    == CHOOSE i \in FreeIds : TRUE

Init ==
    /\ table \in [Keys -> Configs \cup {None}]
    /\ desired = [k \in Keys |-> None]
    /\ entries = [k \in Keys |-> None]
    /\ live = {}
    /\ pc = "new"
    /\ looping = FALSE
    /\ todo = {}
    /\ cur = None
    /\ edits = 0
    /\ faults = 0
    /\ orphans = {}
    /\ ghosts = {}

(* A row is inserted, changed, disabled or deleted. *)
Edit(k, c) ==
    /\ edits < MaxEdits
    /\ table[k] # c
    /\ table' = [table EXCEPT ![k] = c]
    /\ edits' = edits + 1
    /\ UNCHANGED <<desired, looping, entries, live, pc, todo, cur, faults, hist>>

-----------------------------------------------------------------------------
(* Steps of the backend, seen from the scheduler. *)

Removed(i) == {r \in live : r.id # i}

(* The call raises without effect, or its effect is done and the reply lost. *)
UnregisterLost(i) ==
    \/ UNCHANGED <<live, hist>>
    \/ /\ live' = Removed(i)
       /\ ghosts' = ghosts \cup {i}
       /\ UNCHANGED orphans

RegisterLost(k) ==
    \/ UNCHANGED <<live, hist>>
    \/ /\ FreeIds # {}
       /\ live' = live \cup {[id |-> FreshId, key |-> k, cfg |-> desired[k]]}
       /\ orphans' = orphans \cup {FreshId}
       /\ UNCHANGED ghosts

Fault ==
    /\ faults < MaxFaults
    /\ faults' = faults + 1

-----------------------------------------------------------------------------
(* start() and _run_loop() *)

Start ==
    /\ pc = "new"
    /\ pc' = "fetch"
    /\ UNCHANGED <<env, looping, desired, entries, live, todo, cur, faults, hist>>

Tick ==
    /\ pc = "wait"
    /\ pc' = "fetch"
    /\ UNCHANGED <<env, looping, desired, entries, live, todo, cur, faults, hist>>

(* _reconcile(): fetch, then unregister what has no row. *)

NoStaleKeys(rows) == {}

StaleKeys(rows) == {k \in Keys : entries[k] # None /\ rows[k] = None}

Fetch ==
    /\ pc = "fetch"
    /\ desired' = table
    /\ todo' = StaleKeys(table)
    /\ pc' = "stale"
    /\ UNCHANGED <<env, looping, entries, live, cur, faults, hist>>

FetchFails ==
    /\ pc = "fetch"
    /\ Fault
    /\ pc' = "wait"
    /\ looping' = TRUE
    /\ UNCHANGED <<env, desired, entries, live, todo, cur, hist>>

UnregisterStale(k) ==
    /\ pc = "stale"
    /\ k \in todo
    /\ live' = Removed(entries[k].id)
    /\ entries' = [entries EXCEPT ![k] = None]
    /\ todo' = todo \ {k}
    /\ UNCHANGED <<env, looping, desired, pc, cur, faults, hist>>

UnregisterStaleFails(k) ==
    /\ pc = "stale"
    /\ k \in todo
    /\ Fault
    /\ UnregisterLost(entries[k].id)
    /\ todo' = todo \ {k}
    /\ UNCHANGED <<env, looping, desired, entries, pc, cur>>

StaleDone ==
    /\ pc = "stale"
    /\ todo = {}
    /\ todo' = {k \in Keys : desired[k] # None}
    /\ pc' = "desired"
    /\ UNCHANGED <<env, looping, desired, entries, live, cur, faults, hist>>

-----------------------------------------------------------------------------
(* _reconcile(): register what is new or has changed. *)

IgnoresOk(c) == c \in Good \cup Skipped

(* The ok that derive_cron returns. *)
Derivable(c) == c \in Good

NeverSameHash(k) == FALSE

(* The hash covers the cronspec, which derives from the config, and the    *)
(* config: it tells configs apart.                                         *)
SameHash(k) == entries[k] # None /\ entries[k].cfg = desired[k]

Skip(k) ==
    /\ pc = "desired"
    /\ k \in todo
    /\ desired[k] \notin Broken
    /\ ~Derivable(desired[k]) \/ SameHash(k)
    /\ todo' = todo \ {k}
    /\ UNCHANGED <<env, looping, desired, entries, live, pc, cur, faults, hist>>

(* derive_cron is called outside any try block: what it raises ends the    *)
(* loop (or start()).                                                      *)
DeriveRaises(k) ==
    /\ pc = "desired"
    /\ k \in todo
    /\ desired[k] \in Broken
    /\ pc' = "dead"
    /\ UNCHANGED <<env, looping, desired, entries, live, todo, cur, faults, hist>>

RegisterFirst(k) == "register"

FirstCall(k) == IF entries[k] # None THEN "unregister" ELSE "register"

Change(k) ==
    /\ pc = "desired"
    /\ k \in todo
    /\ Derivable(desired[k])
    /\ ~SameHash(k)
    /\ cur' = k
    /\ pc' = FirstCall(k)
    /\ todo' = todo \ {k}
    /\ UNCHANGED <<env, looping, desired, entries, live, faults, hist>>

UnregisterOld ==
    /\ pc = "unregister"
    /\ live' = Removed(entries[cur].id)
    /\ entries' = [entries EXCEPT ![cur] = None]
    /\ pc' = "register"
    /\ UNCHANGED <<env, looping, desired, todo, cur, faults, hist>>

UnregisterOldFails ==
    /\ pc = "unregister"
    /\ Fault
    /\ UnregisterLost(entries[cur].id)
    /\ pc' = "desired"
    /\ cur' = None
    /\ UNCHANGED <<env, looping, desired, entries, todo>>

(* Then one task is enqueued at once; its failure is only logged. *)
Register ==
    /\ pc = "register"
    /\ FreeIds # {}
    /\ live' = live \cup {[id |-> FreshId, key |-> cur, cfg |-> desired[cur]]}
    /\ entries' = [entries EXCEPT ![cur] = [id |-> FreshId, cfg |-> desired[cur]]]
    /\ pc' = "desired"
    /\ cur' = None
    /\ UNCHANGED <<env, looping, desired, todo, faults, hist>>

RegisterFailsRecords ==
    /\ pc = "register"
    /\ Fault
    /\ RegisterLost(cur)
    /\ entries' = [entries EXCEPT ![cur] = [id |-> FreshId, cfg |-> desired[cur]]]
    /\ pc' = "desired"
    /\ cur' = None
    /\ UNCHANGED <<env, looping, desired, todo>>

RegisterFails ==
    /\ pc = "register"
    /\ Fault
    /\ RegisterLost(cur)
    /\ pc' = "desired"
    /\ cur' = None
    /\ UNCHANGED <<env, looping, desired, entries, todo>>

Done ==
    /\ pc = "desired"
    /\ todo = {}
    /\ pc' = "wait"
    /\ looping' = TRUE
    /\ UNCHANGED <<env, desired, entries, live, todo, cur, faults, hist>>

(* stop(), called once start() is over, cancels the loop at whatever await *)
(* it is in; the call it was waiting for may have taken effect.  A dead    *)
(* loop is stopped like a running one.                                     *)
Stop ==
    /\ looping \/ pc = "dead"
    /\ pc # "stopped"
    /\ pc' = "stopped"
    /\ \/ UNCHANGED <<live, hist>>
       \/ \E k \in todo : pc = "stale" /\ UnregisterLost(entries[k].id)
       \/ pc = "unregister" /\ UnregisterLost(entries[cur].id)
       \/ pc = "register" /\ RegisterLost(cur)
    /\ cur' = None
    /\ UNCHANGED <<env, looping, desired, entries, todo, faults>>

-----------------------------------------------------------------------------
Loop ==
    \/ Tick
    \/ Fetch \/ FetchFails
    \/ \E k \in Keys : UnregisterStale(k) \/ UnregisterStaleFails(k)
    \/ StaleDone
    \/ \E k \in Keys : Skip(k) \/ DeriveRaises(k) \/ Change(k)
    \/ UnregisterOld \/ UnregisterOldFails
    \/ Register \/ RegisterFails
    \/ Done

Next == Start \/ Loop \/ Stop \/ \E k \in Keys, c \in Configs \cup {None} : Edit(k, c)

Spec == Init /\ [][Next]_vars

(* The event loop runs the scheduler's task; what fails does so at most    *)
(* MaxFaults times.                                                        *)
FairSpec == Spec /\ WF_vars(Loop)

-----------------------------------------------------------------------------
TypeOK ==
    /\ table \in [Keys -> Configs \cup {None}]
    /\ desired \in [Keys -> Configs \cup {None}]
    /\ entries \in [Keys -> Entry \cup {None}]
    /\ live \subseteq Registration
    /\ pc \in {"new", "fetch", "stale", "desired", "unregister", "register", "wait",
               "dead", "stopped"}
    /\ looping \in BOOLEAN
    /\ todo \subseteq Keys
    /\ cur \in Keys \cup {None}
    /\ (pc \in {"unregister", "register"}) => cur # None
    /\ edits \in 0 .. MaxEdits
    /\ faults \in 0 .. MaxFaults
    /\ orphans \subseteq Ids
    /\ ghosts \subseteq Ids

(* What the scheduler believes registered is registered, for that row and  *)
(* that config, unless the reply to an unregister call was lost.           *)
EntriesAreLive ==
    \A k \in Keys :
        entries[k] # None =>
            \/ [id |-> entries[k].id, key |-> k, cfg |-> entries[k].cfg] \in live
            \/ entries[k].id \in ghosts

(* No registration escapes the scheduler, so that no row fires twice,      *)
(* unless the reply to its register call was lost.                         *)
LiveIsTracked ==
    \A r \in live :
        \/ entries[r.key] # None /\ entries[r.key].id = r.id
        \/ r.id \in orphans

(* A registration is removed only when its row is gone or has changed in   *)
(* what the reconcile fetched: a reconcile leaves unchanged rows alone.    *)
NoChurn ==
    [][\A r \in live \ live' : desired[r.key] # r.cfg]_vars

Registrations(k) == {r \in live : r.key = k /\ r.id \notin orphans}

(* What the loop makes of the row of k.  A good row has its registration,  *)
(* a row that is gone has none.  A row that derive_cron does not accept is *)
(* passed over before anything is compared or unregistered: it keeps the   *)
(* registration of its last good version, if it had one, which goes on     *)
(* firing.                                                                 *)
Agrees(k) ==
    /\ table[k] \in Good =>
         /\ entries[k] # None
         /\ entries[k].cfg = table[k]
         /\ Registrations(k) = {[id |-> entries[k].id, key |-> k, cfg |-> table[k]]}
    /\ table[k] \in Skipped =>
         Registrations(k) =
             IF entries[k] = None
             THEN {}
             ELSE {[id |-> entries[k].id, key |-> k, cfg |-> entries[k].cfg]}
    /\ table[k] = None => Registrations(k) = {}

BrokenFetched == \E k \in Keys : desired[k] \in Broken

(* Once the table and the backend calm down, the backend fires one entry   *)
(* for each good row, with its config, none for a row that is gone, and    *)
(* for a row that is not accepted what it fired before, unless the         *)
(* scheduler still holds an entry that the backend dropped without its     *)
(* reply arriving.  The loop must not end of itself for that, whatever     *)
(* else raises, unless derive_cron raises for a row it has fetched.        *)
ConvergesUnlessReplyLost ==
    [](~BrokenFetched) =>
        <>[](\/ pc \in {"new", "stopped"}
             \/ \A k \in Keys :
                    Agrees(k) \/ (entries[k] # None /\ entries[k].id \in ghosts))
=============================================================================
