--------------------------- MODULE SchedulerProofs ---------------------------
(***************************************************************************)
(* What the scheduler believes and what the backend runs agree up to lost  *)
(* replies, and a reconcile leaves unchanged rows alone, for any number of *)
(* rows, edits and failed calls.                                           *)
(*                                                                         *)
(* The steps on the backend are either the removal of the registration of  *)
(* a tracked entry or the addition of a fresh one, so the invariant is in  *)
(* two parts: Books, on the entries and the registrations, kept by both;   *)
(* and CallInProgress, on what the loop knows of the key whose call it     *)
(* awaits.                                                                 *)
(***************************************************************************)
EXTENDS Scheduler, TLAPS

(* No two registrations, and no two entries, have the same id. *)
IdsAreUnique ==
    /\ \A r, q \in live : r.id = q.id => r = q
    /\ \A j, k \in Keys :
         entries[j] # None /\ entries[k] # None /\ entries[j].id = entries[k].id => j = k

(* An id of which the register reply was lost is live, and in no entry. *)
OrphansAreLost ==
    /\ \A i \in orphans : \E r \in live : r.id = i
    /\ \A k \in Keys : entries[k] # None => entries[k].id \notin orphans

(* An id of which the unregister reply was lost is not live. *)
GhostsAreGone == \A r \in live : r.id \notin ghosts

BookTypes ==
    /\ entries \in [Keys -> Entry \cup {None}]
    /\ live \subseteq Registration
    /\ orphans \subseteq Ids
    /\ ghosts \subseteq Ids

Books ==
    /\ BookTypes
    /\ IdsAreUnique
    /\ OrphansAreLost
    /\ GhostsAreGone
    /\ EntriesAreLive
    /\ LiveIsTracked

(* The row of a key whose entry is to go is gone, or has changed; a key is *)
(* registered only when it has no entry.                                   *)
CallInProgress ==
    /\ pc = "stale" => \A k \in todo : entries[k] # None /\ desired[k] = None
    /\ pc \in {"unregister", "register"} => cur \in Keys /\ desired[cur] \in Good
    /\ pc = "unregister" => entries[cur] # None /\ entries[cur].cfg # desired[cur]
    /\ pc = "register" => entries[cur] = None

IInv == TypeOK /\ Books /\ CallInProgress

(* What a removal takes away: the body of NoChurn. *)
RemovesOnlyChanged == \A r \in live \ live' : desired[r.key] # r.cfg

-----------------------------------------------------------------------------
(* The backend's steps. *)

(* A registration with the id of an entry is the one of this entry. *)
LEMMA TrackedMatch ==
    ASSUME Books, NEW k \in Keys, entries[k] # None,
           NEW r \in live, r.id = entries[k].id
    PROVE  r.key = k /\ r.cfg = entries[k].cfg
<1>1. r \in Registration /\ entries[k] \in Entry
  BY DEF Books, BookTypes
<1>2. r.key \in Keys
  BY <1>1 DEF Registration
<1>3. r.key = k
  <2>1. entries[r.key] # None /\ entries[r.key].id = r.id
    BY DEF Books, LiveIsTracked, OrphansAreLost
  <2> QED BY <2>1, <1>2 DEF Books, IdsAreUnique
<1>4. [id |-> entries[k].id, key |-> k, cfg |-> entries[k].cfg] \in live
  BY DEF Books, EntriesAreLive, GhostsAreGone
<1>5. r = [id |-> entries[k].id, key |-> k, cfg |-> entries[k].cfg]
  BY <1>4 DEF Books, IdsAreUnique
<1> QED BY <1>3, <1>5

(* unregister() of an entry takes away nothing but its own registration.   *)
LEMMA RemovedIsOwn ==
    ASSUME Books, NEW k \in Keys, entries[k] # None,
           live' = Removed(entries[k].id), entries[k].cfg # desired[k]
    PROVE  RemovesOnlyChanged
<1> SUFFICES ASSUME NEW r \in live, r \notin live'
             PROVE  desired[r.key] # r.cfg
  BY DEF RemovesOnlyChanged
<1>1. r.id = entries[k].id
  BY DEF Removed
<1> QED BY <1>1, TrackedMatch

(* The entry is dropped with its registration. *)
LEMMA UnregisterKeepsBooks ==
    ASSUME Books, NEW k \in Keys, entries[k] # None,
           live' = Removed(entries[k].id),
           entries' = [entries EXCEPT ![k] = None],
           UNCHANGED hist
    PROVE  Books'
<1>1. live' \subseteq live /\ \A r \in live : r \in live' <=> r.id # entries[k].id
  BY DEF Removed
<1>2. /\ entries'[k] = None
      /\ \A j \in Keys : j # k => entries'[j] = entries[j]
      /\ entries' \in [Keys -> Entry \cup {None}]
  BY DEF Books, BookTypes
<1>3. orphans' = orphans /\ ghosts' = ghosts
  BY DEF hist
<1>4. BookTypes' /\ GhostsAreGone'
  BY <1>1, <1>2, <1>3 DEF Books, BookTypes, GhostsAreGone
<1>5. IdsAreUnique'
  BY <1>1, <1>2 DEF Books, IdsAreUnique
<1>6. OrphansAreLost'
  BY <1>1, <1>2, <1>3 DEF Books, OrphansAreLost
<1>7. EntriesAreLive'
  <2> SUFFICES ASSUME NEW j \in Keys, entries'[j] # None
               PROVE  \/ [id |-> entries'[j].id, key |-> j, cfg |-> entries'[j].cfg] \in live'
                      \/ entries'[j].id \in ghosts'
    BY DEF EntriesAreLive
  <2>1. j # k /\ entries'[j] = entries[j]
    BY <1>2
  <2>2. entries[j].id # entries[k].id
    BY <2>1 DEF Books, IdsAreUnique
  <2> QED BY <1>1, <1>3, <2>1, <2>2 DEF Books, EntriesAreLive
<1>8. LiveIsTracked'
  <2> SUFFICES ASSUME NEW r \in live'
               PROVE  \/ entries'[r.key] # None /\ entries'[r.key].id = r.id
                      \/ r.id \in orphans'
    BY DEF LiveIsTracked
  <2>1. r \in live /\ r.id # entries[k].id /\ r.key \in Keys
    BY <1>1 DEF Books, BookTypes, Registration
  <2> QED BY <1>2, <1>3, <2>1 DEF Books, LiveIsTracked
<1> QED BY <1>4, <1>5, <1>6, <1>7, <1>8 DEF Books

(* An unregister() that fails keeps the entry: its id becomes a ghost if   *)
(* the registration is gone.                                               *)
LEMMA UnregisterLostKeepsBooks ==
    ASSUME Books, NEW k \in Keys, entries[k] # None,
           UnregisterLost(entries[k].id), UNCHANGED entries,
           entries[k].cfg # desired[k]
    PROVE  Books' /\ RemovesOnlyChanged
<1>1. CASE UNCHANGED <<live, hist>>
  BY <1>1
  DEF hist, Books, BookTypes, IdsAreUnique, OrphansAreLost, GhostsAreGone, EntriesAreLive,
      LiveIsTracked, RemovesOnlyChanged
<1>2. CASE /\ live' = Removed(entries[k].id)
           /\ ghosts' = ghosts \cup {entries[k].id}
           /\ UNCHANGED orphans
  <2>1. live' \subseteq live /\ \A r \in live : r \in live' <=> r.id # entries[k].id
    BY <1>2 DEF Removed
  <2>2. entries[k].id \in Ids
    BY DEF Books, BookTypes, Entry
  <2>3. BookTypes' /\ GhostsAreGone'
    BY <1>2, <2>1, <2>2 DEF Books, BookTypes, GhostsAreGone
  <2>4. IdsAreUnique'
    BY <2>1 DEF Books, IdsAreUnique
  <2>5. OrphansAreLost'
    BY <1>2, <2>1 DEF Books, OrphansAreLost
  <2>6. EntriesAreLive'
    BY <1>2, <2>1 DEF Books, EntriesAreLive
  <2>7. LiveIsTracked'
    BY <1>2, <2>1 DEF Books, LiveIsTracked
  <2>8. RemovesOnlyChanged
    BY <1>2, RemovedIsOwn
  <2> QED BY <2>3, <2>4, <2>5, <2>6, <2>7, <2>8 DEF Books
<1> QED BY <1>1, <1>2 DEF UnregisterLost

(* A fresh id is in no entry, registers nothing and is no ghost. *)
LEMMA FreshIsFresh ==
    ASSUME FreeIds # {}
    PROVE  /\ FreshId \in Ids
           /\ \A k \in Keys : entries[k] # None => entries[k].id # FreshId
           /\ \A r \in live : r.id # FreshId
           /\ FreshId \notin ghosts
<1>1. FreshId \in FreeIds
  BY DEF FreshId
<1> QED BY <1>1 DEF FreeIds, TrackedIds, LiveIds

(* register() of a key without an entry, its reply received or lost. *)
LEMMA RegisterKeepsBooks ==
    ASSUME Books, NEW k \in Keys, entries[k] = None, desired[k] \in Good, FreeIds # {},
           live' = live \cup {[id |-> FreshId, key |-> k, cfg |-> desired[k]]},
           UNCHANGED ghosts,
           \/ /\ entries' = [entries EXCEPT ![k] = [id |-> FreshId, cfg |-> desired[k]]]
              /\ UNCHANGED orphans
           \/ UNCHANGED entries /\ orphans' = orphans \cup {FreshId}
    PROVE  Books' /\ RemovesOnlyChanged
<1> DEFINE i == FreshId
           new == [id |-> i, key |-> k, cfg |-> desired[k]]
<1>1. /\ i \in Ids
      /\ \A j \in Keys : entries[j] # None => entries[j].id # i
      /\ \A r \in live : r.id # i
      /\ i \notin ghosts
  BY FreshIsFresh
<1>2. i \notin orphans
  BY <1>1 DEF Books, OrphansAreLost
<1>3. /\ live' = live \cup {new} /\ new \in Registration
      /\ new.id = i /\ new.key = k /\ new.cfg = desired[k]
  BY <1>1 DEF Registration
<1>4. [id |-> i, cfg |-> desired[k]] \in Entry /\ [id |-> i, cfg |-> desired[k]] # None
  BY <1>1, SchedulerAssumption DEF Entry
<1>5. /\ entries' \in [Keys -> Entry \cup {None}]
      /\ \A j \in Keys : j # k => entries'[j] = entries[j]
      /\ orphans \subseteq orphans' /\ orphans' \subseteq orphans \cup {i}
  BY <1>4 DEF Books, BookTypes
<1>6. \/ entries'[k] # None /\ entries'[k].id = i /\ entries'[k].cfg = desired[k]
         /\ orphans' = orphans
      \/ entries'[k] = None /\ i \in orphans'
  BY <1>4 DEF Books, BookTypes
<1> HIDE DEF i, new
<1>7. BookTypes' /\ GhostsAreGone'
  BY <1>1, <1>3, <1>5 DEF Books, BookTypes, GhostsAreGone
<1>8. IdsAreUnique'
  <2>1. \A r, q \in live' : r.id = q.id => r = q
    BY <1>1, <1>3 DEF Books, IdsAreUnique
  <2>2. ASSUME NEW j \in Keys, NEW l \in Keys, entries'[j] # None, entries'[l] # None,
               entries'[j].id = entries'[l].id
        PROVE  j = l
    BY <2>2, <1>1, <1>5, <1>6 DEF Books, IdsAreUnique
  <2> QED BY <2>1, <2>2 DEF IdsAreUnique
<1>9. OrphansAreLost'
  <2>1. \A o \in orphans' : \E r \in live' : r.id = o
    BY <1>3, <1>5 DEF Books, OrphansAreLost
  <2>2. ASSUME NEW j \in Keys, entries'[j] # None
        PROVE  entries'[j].id \notin orphans'
    BY <2>2, <1>1, <1>2, <1>5, <1>6 DEF Books, OrphansAreLost
  <2> QED BY <2>1, <2>2 DEF OrphansAreLost
<1>10. EntriesAreLive'
  <2> SUFFICES ASSUME NEW j \in Keys, entries'[j] # None
               PROVE  \/ [id |-> entries'[j].id, key |-> j, cfg |-> entries'[j].cfg] \in live'
                      \/ entries'[j].id \in ghosts'
    BY DEF EntriesAreLive
  <2>1. CASE j = k
    <3>1. entries'[j].id = i /\ entries'[j].cfg = desired[k]
      BY <2>1, <1>6
    <3>2. new = [id |-> entries'[j].id, key |-> j, cfg |-> entries'[j].cfg]
      BY <3>1, <2>1 DEF new
    <3> QED BY <3>2, <1>3
  <2>2. CASE j # k
    <3>1. entries'[j] = entries[j]
      BY <2>2, <1>5
    <3> QED BY <3>1, <1>3 DEF Books, EntriesAreLive
  <2> QED BY <2>1, <2>2
<1>11. LiveIsTracked'
  <2> SUFFICES ASSUME NEW r \in live'
               PROVE  \/ entries'[r.key] # None /\ entries'[r.key].id = r.id
                      \/ r.id \in orphans'
    BY DEF LiveIsTracked
  <2>1. CASE r = new
    BY <2>1, <1>3, <1>6
  <2>2. CASE r # new
    <3>1. r \in live /\ r.key \in Keys
      BY <2>2, <1>3 DEF Books, BookTypes, Registration
    <3> QED BY <3>1, <1>5 DEF Books, LiveIsTracked
  <2> QED BY <2>1, <2>2
<1>12. RemovesOnlyChanged
  BY <1>3 DEF RemovesOnlyChanged
<1> QED BY <1>7, <1>8, <1>9, <1>10, <1>11, <1>12 DEF Books

(* register() fails: the registration, if there is one, is an orphan. *)
LEMMA RegisterLostKeepsBooks ==
    ASSUME Books, NEW k \in Keys, entries[k] = None, desired[k] \in Good,
           RegisterLost(k), UNCHANGED entries
    PROVE  Books' /\ RemovesOnlyChanged
<1>1. CASE UNCHANGED <<live, hist>>
  BY <1>1
  DEF hist, Books, BookTypes, IdsAreUnique, OrphansAreLost, GhostsAreGone, EntriesAreLive,
      LiveIsTracked, RemovesOnlyChanged
<1>2. CASE ~ UNCHANGED <<live, hist>>
  BY <1>2, RegisterKeepsBooks DEF RegisterLost
<1> QED BY <1>1, <1>2

(* Steps that call no operation of the backend. *)
LEMMA QuietKeepsBooks ==
    ASSUME Books, UNCHANGED <<entries, live, hist>>
    PROVE  Books' /\ RemovesOnlyChanged
  BY DEF hist, Books, BookTypes, IdsAreUnique, OrphansAreLost, GhostsAreGone, EntriesAreLive,
         LiveIsTracked, RemovesOnlyChanged

-----------------------------------------------------------------------------
(* The steps of the loop. *)

(* Nothing is registered before start(). *)
LEMMA InitInv == Init => IInv
<1> SUFFICES ASSUME Init PROVE IInv
  OBVIOUS
<1>1. TypeOK
  <2>1. edits \in 0 .. MaxEdits /\ faults \in 0 .. MaxFaults
    BY SchedulerAssumption DEF Init
  <2>2. looping \in BOOLEAN
    BY DEF Init
  <2> QED BY <2>1, <2>2 DEF Init, TypeOK
<1>2. Books
  BY DEF Init, Books, BookTypes, IdsAreUnique, OrphansAreLost, GhostsAreGone, EntriesAreLive,
         LiveIsTracked
<1>3. CallInProgress
  BY DEF Init, CallInProgress
<1> QED BY <1>1, <1>2, <1>3 DEF IInv

(* The table changes, or the loop moves on without a call of the backend.  *)
LEMMA QuietStep ==
    ASSUME IInv,
           \/ Start \/ Tick \/ Fetch \/ FetchFails \/ StaleDone \/ Done
           \/ \E k \in Keys : Skip(k) \/ DeriveRaises(k) \/ Change(k)
           \/ \E k \in Keys, c \in Configs \cup {None} : Edit(k, c)
           \/ UNCHANGED vars
    PROVE  IInv' /\ RemovesOnlyChanged
<1> USE SchedulerAssumption DEF IInv
<1>1. Books' /\ RemovesOnlyChanged
  <2>1. UNCHANGED <<entries, live, hist>>
    BY DEF Start, Tick, Fetch, FetchFails, StaleDone, Done, Skip, DeriveRaises, Change, Edit,
           vars, env
  <2> QED BY <2>1, QuietKeepsBooks
<1>2. CASE Start \/ Tick \/ StaleDone \/ Done
  <2>1. TypeOK'
    BY <1>2 DEF Start, Tick, StaleDone, Done, TypeOK, env, hist
  <2>2. CallInProgress'
    BY <1>2 DEF Start, Tick, StaleDone, Done, CallInProgress
  <2> QED BY <1>1, <2>1, <2>2
<1>3. CASE Fetch
  <2>1. TypeOK'
    BY <1>3 DEF Fetch, StaleKeys, TypeOK, env, hist
  <2>2. CallInProgress'
    BY <1>3 DEF Fetch, StaleKeys, CallInProgress
  <2> QED BY <1>1, <2>1, <2>2
<1>4. CASE FetchFails
  <2>1. TypeOK'
    BY <1>4 DEF FetchFails, Fault, TypeOK, env, hist
  <2>2. CallInProgress'
    BY <1>4 DEF FetchFails, CallInProgress
  <2> QED BY <1>1, <2>1, <2>2
<1>5. ASSUME NEW k \in Keys, Skip(k) \/ DeriveRaises(k) PROVE IInv'
  <2>1. TypeOK'
    BY <1>5 DEF Skip, DeriveRaises, TypeOK, env, hist
  <2>2. CallInProgress'
    BY <1>5 DEF Skip, DeriveRaises, CallInProgress
  <2> QED BY <1>1, <2>1, <2>2
<1>6. ASSUME NEW k \in Keys, Change(k) PROVE IInv'
  <2>1. TypeOK'
    BY <1>6 DEF Change, FirstCall, TypeOK, env, hist
  <2>2. CallInProgress'
    BY <1>6 DEF Change, FirstCall, Derivable, SameHash, CallInProgress
  <2> QED BY <1>1, <2>1, <2>2
<1>7. ASSUME NEW k \in Keys, NEW c \in Configs \cup {None}, Edit(k, c) PROVE IInv'
  <2>1. TypeOK'
    BY <1>7 DEF Edit, TypeOK, hist
  <2>2. CallInProgress'
    BY <1>7 DEF Edit, CallInProgress
  <2> QED BY <1>1, <2>1, <2>2
<1>8. CASE UNCHANGED vars
  <2>1. TypeOK'
    BY <1>8 DEF vars, TypeOK, env, hist
  <2>2. CallInProgress'
    BY <1>8 DEF vars, CallInProgress, env
  <2> QED BY <1>1, <2>1, <2>2
<1> QED BY <1>1, <1>2, <1>3, <1>4, <1>5, <1>6, <1>7, <1>8

(* The entry of a row that is gone is unregistered. *)
LEMMA UnregisterStaleStep ==
    ASSUME IInv, NEW k \in Keys, UnregisterStale(k) \/ UnregisterStaleFails(k)
    PROVE  IInv' /\ RemovesOnlyChanged
<1> USE SchedulerAssumption DEF IInv
<1>1. entries[k] # None /\ desired[k] = None /\ entries[k].cfg # desired[k]
  <2>1. entries[k] # None /\ desired[k] = None
    BY DEF UnregisterStale, UnregisterStaleFails, CallInProgress
  <2>2. entries[k].cfg \in Good
    BY <2>1 DEF TypeOK, Entry
  <2> QED BY <2>1, <2>2 DEF Configs
<1>2. Books' /\ RemovesOnlyChanged
  BY <1>1, UnregisterKeepsBooks, RemovedIsOwn, UnregisterLostKeepsBooks
  DEF UnregisterStale, UnregisterStaleFails
<1>3. TypeOK'
  <2>1. BookTypes'
    BY <1>2 DEF Books
  <2> QED BY <2>1 DEF UnregisterStale, UnregisterStaleFails, Fault, TypeOK, BookTypes, env
<1>4. CallInProgress'
  BY DEF UnregisterStale, UnregisterStaleFails, CallInProgress, TypeOK
<1> QED BY <1>2, <1>3, <1>4

(* The old entry of a row that has changed is unregistered. *)
LEMMA UnregisterOldStep ==
    ASSUME IInv, UnregisterOld \/ UnregisterOldFails
    PROVE  IInv' /\ RemovesOnlyChanged
<1> USE SchedulerAssumption DEF IInv
<1>1. /\ cur \in Keys /\ desired[cur] \in Good
      /\ entries[cur] # None /\ entries[cur].cfg # desired[cur]
  BY DEF UnregisterOld, UnregisterOldFails, CallInProgress
<1>2. Books' /\ RemovesOnlyChanged
  BY <1>1, UnregisterKeepsBooks, RemovedIsOwn, UnregisterLostKeepsBooks
  DEF UnregisterOld, UnregisterOldFails
<1>3. TypeOK'
  <2>1. BookTypes'
    BY <1>2 DEF Books
  <2> QED BY <1>1, <2>1 DEF UnregisterOld, UnregisterOldFails, Fault, TypeOK, BookTypes, env
<1>4. CallInProgress'
  BY <1>1 DEF UnregisterOld, UnregisterOldFails, CallInProgress, TypeOK
<1> QED BY <1>2, <1>3, <1>4

(* A row that is new or has changed is registered. *)
LEMMA RegisterStep ==
    ASSUME IInv, Register \/ RegisterFails
    PROVE  IInv' /\ RemovesOnlyChanged
<1> USE SchedulerAssumption DEF IInv
<1>1. cur \in Keys /\ desired[cur] \in Good /\ entries[cur] = None
  BY DEF Register, RegisterFails, CallInProgress
<1>2. Books' /\ RemovesOnlyChanged
  <2>1. CASE Register
    BY <1>1, <2>1, RegisterKeepsBooks DEF Register, hist
  <2>2. CASE RegisterFails
    BY <1>1, <2>2, RegisterLostKeepsBooks DEF RegisterFails
  <2> QED BY <2>1, <2>2
<1>3. TypeOK'
  <2>1. BookTypes'
    BY <1>2 DEF Books
  <2> QED BY <2>1 DEF Register, RegisterFails, Fault, TypeOK, BookTypes, env
<1>4. CallInProgress'
  BY DEF Register, RegisterFails, CallInProgress
<1> QED BY <1>2, <1>3, <1>4

(* stop() cancels the loop, in the middle of a call or between two. *)
LEMMA StopStep ==
    ASSUME IInv, Stop
    PROVE  IInv' /\ RemovesOnlyChanged
<1> USE SchedulerAssumption DEF IInv
<1>1. UNCHANGED entries
  BY DEF Stop
<1>2. Books' /\ RemovesOnlyChanged
  <2>1. CASE UNCHANGED <<live, hist>>
    BY <1>1, <2>1, QuietKeepsBooks
  <2>2. ASSUME NEW k \in todo, pc = "stale", UnregisterLost(entries[k].id)
        PROVE  Books' /\ RemovesOnlyChanged
    <3>1. k \in Keys /\ entries[k] # None /\ desired[k] = None
      BY <2>2 DEF TypeOK, CallInProgress
    <3>2. entries[k].cfg # desired[k]
      BY <3>1 DEF TypeOK, Entry, Configs
    <3> QED BY <1>1, <2>2, <3>1, <3>2, UnregisterLostKeepsBooks
  <2>3. CASE pc = "unregister" /\ UnregisterLost(entries[cur].id)
    BY <1>1, <2>3, UnregisterLostKeepsBooks DEF CallInProgress
  <2>4. CASE pc = "register" /\ RegisterLost(cur)
    BY <1>1, <2>4, RegisterLostKeepsBooks DEF CallInProgress
  <2> QED BY <2>1, <2>2, <2>3, <2>4 DEF Stop
<1>3. TypeOK'
  <2>1. BookTypes'
    BY <1>2 DEF Books
  <2> QED BY <2>1 DEF Stop, TypeOK, BookTypes, env
<1>4. CallInProgress'
  BY DEF Stop, CallInProgress
<1> QED BY <1>2, <1>3, <1>4

(* Every step keeps the invariant and removes only what has changed. *)
LEMMA StepInv == IInv /\ [Next]_vars => IInv' /\ RemovesOnlyChanged
  BY QuietStep, UnregisterStaleStep, UnregisterOldStep, RegisterStep, StopStep
  DEF Next, Loop

(* The inductive invariant holds throughout every behaviour. *)
LEMMA Invariance == Spec => []IInv
<1>1. IInv /\ [Next]_vars => IInv'
  BY StepInv
<1> QED BY <1>1, InitInv, PTL DEF Spec

-----------------------------------------------------------------------------
(* The scheduler's state stays well typed; in particular only rows that    *)
(* derive_cron accepts are ever registered.                                *)
THEOREM TypeCorrect == Spec => []TypeOK
  BY Invariance, PTL DEF IInv

(* What _entries holds is registered with the backend, for that row and    *)
(* that config, unless the reply to an unregister call was lost.           *)
THEOREM EntriesStayLive == Spec => []EntriesAreLive
  BY Invariance, PTL DEF IInv, Books

(* Every registration of the backend is in _entries, so that no row fires  *)
(* twice, unless the reply to its register call was lost.                  *)
THEOREM LiveStaysTracked == Spec => []LiveIsTracked
  BY Invariance, PTL DEF IInv, Books

(* At most one registration of a row fires, those aside of which the       *)
(* register reply was lost.                                                *)
THEOREM OneRegistrationPerRow ==
    Spec => [](\A r, q \in live :
                  r.key = q.key /\ r.id \notin orphans /\ q.id \notin orphans => r = q)
<1>1. IInv => \A r, q \in live :
                 r.key = q.key /\ r.id \notin orphans /\ q.id \notin orphans => r = q
  BY DEF IInv, Books, LiveIsTracked, IdsAreUnique
<1> QED BY <1>1, Invariance, PTL

(* A reconcile, whatever of it fails, and stop() take away no registration *)
(* whose row is unchanged.                                                 *)
THEOREM NeverChurns == Spec => NoChurn
<1>1. IInv /\ [Next]_vars => [RemovesOnlyChanged]_vars
  BY StepInv
<1>2. Spec => [][RemovesOnlyChanged]_vars
  BY <1>1, Invariance, PTL DEF Spec
<1> QED BY <1>2 DEF NoChurn, RemovesOnlyChanged

=============================================================================
