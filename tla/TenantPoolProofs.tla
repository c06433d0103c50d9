-------------------------- MODULE TenantPoolProofs --------------------------
(***************************************************************************)
(* Proofs about TenantPool, for any number of tenants, tasks and           *)
(* connections and any limits.                                             *)
(***************************************************************************)
EXTENDS TenantPool, FiniteSetTheorems, TLAPS

(* A connection is checked out by one task at a time. *)
Exclusive ==
    /\ \A p \in Tasks : conn[p] = NoConn <=> pc[p] \in {"idle", "bound", "sleep"}
    /\ \A p, q \in Tasks : conn[p] = conn[q] /\ conn[p] # NoConn => p = q
    /\ \A l \in Loops : pc[l] \in {"sleep", "conn", "clean"}

(* A session keeps the role it was connected with until a bus uses it. *)
RoleKept == \A c \in Conns : ~ bus[c] => role[c] = ConnectedAs

ContextIsOrigin == \A s \in Slots : ctx[s] = origin[s]

(* A tenant is set on a connection only while the transaction of a slot of *)
(* that tenant runs on it.                                                 *)
GucOwned ==
    \A c \in Conns : guc[c] # NoTenant =>
        \E s \in Slots : conn[s] = c /\ pc[s] = "rls" /\ origin[s] = guc[c]

LockHeld ==
    \A l \in Loops : pc[l] = "clean" /\ ~ lost[conn[l]] => lock = conn[l]

(* The inductive invariant. *)
IInv ==
    /\ TypeOK
    /\ Exclusive
    /\ RoleKept
    /\ ContextIsOrigin
    /\ GucOwned
    /\ LockHeld

(* The initial state satisfies the invariant. *)
LEMMA InitInv == Init => IInv
  BY PoolAssumption DEF Init, IInv, TypeOK, Exclusive, RoleKept, ContextIsOrigin, GucOwned,
     LockHeld, Tasks, Work, Envelope, ConnectedAs

(* The invariant is preserved when a request arrives. *)
LEMMA RequestInv == ASSUME IInv, NEW s \in Slots, Request(s) PROVE IInv'
  <1>1. TypeOK'
    BY PoolAssumption DEF IInv, TypeOK, Work, Tasks, Request, Bind, request, session, usage
  <1>2. Exclusive'
    BY PoolAssumption DEF IInv, Exclusive, TypeOK, Tasks, Request, Bind, request, session, usage
  <1>3. RoleKept'
    BY PoolAssumption DEF IInv, RoleKept, TypeOK, Request, Bind, request, session, usage
  <1>4. ContextIsOrigin'
    BY PoolAssumption DEF IInv, ContextIsOrigin, TypeOK, Request, Bind, request, session, usage
  <1>5. GucOwned'
    BY PoolAssumption DEF IInv, GucOwned, Exclusive, ContextIsOrigin, TypeOK, Tasks, Request, Bind,
       request, session, usage
  <1>6. LockHeld'
    BY PoolAssumption DEF IInv, LockHeld, Exclusive, TypeOK, Tasks, Request, Bind, request, session,
       usage
  <1> QED
    BY <1>1, <1>2, <1>3, <1>4, <1>5, <1>6 DEF IInv

(* The invariant is preserved when a job is taken from the queue. *)
LEMMA JobInv == ASSUME IInv, NEW s \in Slots, Job(s) PROVE IInv'
  <1>1. TypeOK'
    BY PoolAssumption DEF IInv, TypeOK, Work, Tasks, Job, Bind, Valid, Envelope, request, session,
       usage
  <1>2. Exclusive'
    BY PoolAssumption DEF IInv, Exclusive, TypeOK, Tasks, Job, Bind, Valid, Envelope, request,
       session, usage
  <1>3. RoleKept'
    BY PoolAssumption DEF IInv, RoleKept, TypeOK, Job, Bind, Valid, Envelope, request, session, usage
  <1>4. ContextIsOrigin'
    BY PoolAssumption DEF IInv, ContextIsOrigin, TypeOK, Job, Bind, Valid, Envelope, request, session,
       usage
  <1>5. GucOwned'
    BY PoolAssumption DEF IInv, GucOwned, Exclusive, ContextIsOrigin, TypeOK, Tasks, Job, Bind, Valid,
       Envelope, request, session, usage
  <1>6. LockHeld'
    BY PoolAssumption DEF IInv, LockHeld, Exclusive, TypeOK, Tasks, Job, Bind, Valid, Envelope,
       request, session, usage
  <1> QED
    BY <1>1, <1>2, <1>3, <1>4, <1>5, <1>6 DEF IInv

(* The invariant is preserved when a handler enqueues a job. *)
LEMMA EnqueueInv == ASSUME IInv, NEW s \in Slots, Enqueue(s) PROVE IInv'
  <1>1. TypeOK'
    BY PoolAssumption DEF IInv, TypeOK, Work, Tasks, Enqueue, Wrappable, Envelope, request,
       session, usage
  <1>2. Exclusive'
    BY PoolAssumption DEF IInv, Exclusive, TypeOK, Tasks, Enqueue, Envelope, request, session, usage
  <1>3. RoleKept'
    BY PoolAssumption DEF IInv, RoleKept, TypeOK, Enqueue, Envelope, request, session, usage
  <1>4. ContextIsOrigin'
    BY PoolAssumption DEF IInv, ContextIsOrigin, TypeOK, Enqueue, Envelope, request, session, usage
  <1>5. GucOwned'
    BY PoolAssumption DEF IInv, GucOwned, Exclusive, ContextIsOrigin, TypeOK, Tasks, Enqueue,
       Envelope, request, session, usage
  <1>6. LockHeld'
    BY PoolAssumption DEF IInv, LockHeld, Exclusive, TypeOK, Tasks, Enqueue, Envelope, request,
       session, usage
  <1> QED
    BY <1>1, <1>2, <1>3, <1>4, <1>5, <1>6 DEF IInv

(* The invariant is preserved when another producer enqueues. *)
LEMMA ForeignInv == ASSUME IInv, Foreign PROVE IInv'
  <1>1. TypeOK'
    BY PoolAssumption DEF IInv, TypeOK, Work, Tasks, Foreign, Envelope, request, session, usage
  <1>2. Exclusive'
    BY PoolAssumption DEF IInv, Exclusive, TypeOK, Tasks, Foreign, Envelope, request, session, usage
  <1>3. RoleKept'
    BY PoolAssumption DEF IInv, RoleKept, TypeOK, Foreign, Envelope, request, session, usage
  <1>4. ContextIsOrigin'
    BY PoolAssumption DEF IInv, ContextIsOrigin, TypeOK, Foreign, Envelope, request, session, usage
  <1>5. GucOwned'
    BY PoolAssumption DEF IInv, GucOwned, Exclusive, ContextIsOrigin, TypeOK, Tasks, Foreign,
       Envelope, request, session, usage
  <1>6. LockHeld'
    BY PoolAssumption DEF IInv, LockHeld, Exclusive, TypeOK, Tasks, Foreign, Envelope, request,
       session, usage
  <1> QED
    BY <1>1, <1>2, <1>3, <1>4, <1>5, <1>6 DEF IInv

(* The invariant is preserved when an invalid envelope is dropped. *)
LEMMA JobRefusedInv == ASSUME IInv, JobRefused PROVE IInv'
  <1>1. TypeOK'
    BY PoolAssumption DEF IInv, TypeOK, Work, Tasks, JobRefused, request, session, usage
  <1>2. Exclusive'
    BY PoolAssumption DEF IInv, Exclusive, TypeOK, Tasks, JobRefused, request, session, usage
  <1>3. RoleKept'
    BY PoolAssumption DEF IInv, RoleKept, TypeOK, JobRefused, request, session, usage
  <1>4. ContextIsOrigin'
    BY PoolAssumption DEF IInv, ContextIsOrigin, TypeOK, JobRefused, request, session, usage
  <1>5. GucOwned'
    BY PoolAssumption DEF IInv, GucOwned, Exclusive, ContextIsOrigin, TypeOK, Tasks, JobRefused,
       request, session, usage
  <1>6. LockHeld'
    BY PoolAssumption DEF IInv, LockHeld, Exclusive, TypeOK, Tasks, JobRefused, request, session,
       usage
  <1> QED
    BY <1>1, <1>2, <1>3, <1>4, <1>5, <1>6 DEF IInv

(* The invariant is preserved when a task checks a connection out. *)
LEMMA AcquireInv == ASSUME IInv, NEW p \in Tasks, Acquire(p) PROVE IInv'
  <1>1. TypeOK'
    BY PoolAssumption DEF IInv, TypeOK, Work, Tasks, Acquire, Idle, request, session, usage
  <1>2. Exclusive'
    BY PoolAssumption DEF IInv, Exclusive, TypeOK, Tasks, Acquire, Idle, request, session, usage
  <1>3. RoleKept'
    BY PoolAssumption DEF IInv, RoleKept, TypeOK, Acquire, Idle, request, session, usage
  <1>4. ContextIsOrigin'
    BY PoolAssumption DEF IInv, ContextIsOrigin, TypeOK, Acquire, Idle, request, session, usage
  <1>5. GucOwned'
    BY PoolAssumption DEF IInv, GucOwned, Exclusive, ContextIsOrigin, TypeOK, Tasks, Acquire, Idle,
       request, session, usage
  <1>6. LockHeld'
    BY PoolAssumption DEF IInv, LockHeld, Exclusive, TypeOK, Tasks, Acquire, Idle, request, session,
       usage
  <1> QED
    BY <1>1, <1>2, <1>3, <1>4, <1>5, <1>6 DEF IInv

(* The invariant is preserved when a transaction begins. *)
LEMMA BeginInv == ASSUME IInv, NEW s \in Slots, Begin(s) PROVE IInv'
  <1>1. TypeOK'
    BY PoolAssumption DEF IInv, TypeOK, Work, Tasks, Begin, request, session, usage
  <1>2. Exclusive'
    BY PoolAssumption DEF IInv, Exclusive, TypeOK, Tasks, Begin, request, session, usage
  <1>3. RoleKept'
    BY PoolAssumption DEF IInv, RoleKept, TypeOK, Begin, request, session, usage
  <1>4. ContextIsOrigin'
    BY PoolAssumption DEF IInv, ContextIsOrigin, TypeOK, Begin, request, session, usage
  <1>5. GucOwned'
    BY PoolAssumption DEF IInv, GucOwned, Exclusive, ContextIsOrigin, TypeOK, Tasks, Begin, request,
       session, usage
  <1>6. LockHeld'
    BY PoolAssumption DEF IInv, LockHeld, Exclusive, TypeOK, Tasks, Begin, request, session, usage
  <1> QED
    BY <1>1, <1>2, <1>3, <1>4, <1>5, <1>6 DEF IInv

(* The invariant is preserved when the tenant is set for a transaction. *)
LEMMA SetRlsInv == ASSUME IInv, NEW s \in Slots, SetRls(s) PROVE IInv'
  <1>1. TypeOK'
    BY PoolAssumption DEF IInv, TypeOK, Work, Tasks, SetRls, request, session, usage
  <1>2. Exclusive'
    BY PoolAssumption DEF IInv, Exclusive, TypeOK, Tasks, SetRls, request, session, usage
  <1>3. RoleKept'
    BY PoolAssumption DEF IInv, RoleKept, TypeOK, SetRls, request, session, usage
  <1>4. ContextIsOrigin'
    BY PoolAssumption DEF IInv, ContextIsOrigin, TypeOK, SetRls, request, session, usage
  <1>5. GucOwned'
    BY PoolAssumption DEF IInv, GucOwned, Exclusive, ContextIsOrigin, TypeOK, Tasks, SetRls, request,
       session, usage
  <1>6. LockHeld'
    BY PoolAssumption DEF IInv, LockHeld, Exclusive, TypeOK, Tasks, SetRls, request, session, usage
  <1> QED
    BY <1>1, <1>2, <1>3, <1>4, <1>5, <1>6 DEF IInv

(* The invariant is preserved when a quota is checked. *)
LEMMA CheckInv == ASSUME IInv, NEW s \in Slots, Check(s) PROVE IInv'
  <1>1. TypeOK'
    BY PoolAssumption DEF IInv, TypeOK, Work, Tasks, Check, Upload, request, session, usage
  <1>2. Exclusive'
    BY PoolAssumption DEF IInv, Exclusive, TypeOK, Tasks, Check, Upload, request, session, usage
  <1>3. RoleKept'
    BY PoolAssumption DEF IInv, RoleKept, TypeOK, Check, Upload, request, session, usage
  <1>4. ContextIsOrigin'
    BY PoolAssumption DEF IInv, ContextIsOrigin, TypeOK, Check, Upload, request, session, usage
  <1>5. GucOwned'
    BY PoolAssumption DEF IInv, GucOwned, Exclusive, ContextIsOrigin, TypeOK, Tasks, Check, Upload,
       request, session, usage
  <1>6. LockHeld'
    BY PoolAssumption DEF IInv, LockHeld, Exclusive, TypeOK, Tasks, Check, Upload, request, session,
       usage
  <1> QED
    BY <1>1, <1>2, <1>3, <1>4, <1>5, <1>6 DEF IInv

(* The invariant is preserved when a row is written. *)
LEMMA InsertInv == ASSUME IInv, NEW s \in Slots, Insert(s) PROVE IInv'
  <1>1. TypeOK'
    BY PoolAssumption DEF IInv, TypeOK, Work, Tasks, Insert, request, session, usage
  <1>2. Exclusive'
    BY PoolAssumption DEF IInv, Exclusive, TypeOK, Tasks, Insert, request, session, usage
  <1>3. RoleKept'
    BY PoolAssumption DEF IInv, RoleKept, TypeOK, Insert, request, session, usage
  <1>4. ContextIsOrigin'
    BY PoolAssumption DEF IInv, ContextIsOrigin, TypeOK, Insert, request, session, usage
  <1>5. GucOwned'
    BY PoolAssumption DEF IInv, GucOwned, Exclusive, ContextIsOrigin, TypeOK, Tasks, Insert, request,
       session, usage
  <1>6. LockHeld'
    BY PoolAssumption DEF IInv, LockHeld, Exclusive, TypeOK, Tasks, Insert, request, session, usage
  <1> QED
    BY <1>1, <1>2, <1>3, <1>4, <1>5, <1>6 DEF IInv

(* The invariant is preserved when a transaction commits. *)
LEMMA CommitInv == ASSUME IInv, NEW s \in Slots, Commit(s) PROVE IInv'
  <1>1. TypeOK'
    <2>1. Upload(s) => work[s] \in Int
      BY PoolAssumption DEF IInv, TypeOK, Work, Upload
    <2>2. /\ docs' \in [Tenants -> Nat] /\ bytes' \in [Tenants -> Int]
          /\ queries' \in [Tenants -> Nat]
      BY <2>1 DEF IInv, TypeOK, Commit, Add
    <2>5. excess' \in [Tenants -> Nat]
      <3>1. excess' = Add(excess, s, 1) \/ excess' = excess
        BY DEF Commit
      <3> QED BY <3>1 DEF IInv, TypeOK, Add
    <2>3. passed' \in [Slots -> BOOLEAN] /\ inserted' \in [Slots -> BOOLEAN]
      BY DEF IInv, TypeOK, Commit
    <2>4. guc' \in [Conns -> Tenants \cup {NoTenant}]
      BY DEF IInv, TypeOK, Commit, GucAfter
    <2> QED
      BY <2>2, <2>3, <2>4, <2>5 DEF IInv, TypeOK, Commit, usage
  <1>2. Exclusive'
    BY PoolAssumption DEF IInv, Exclusive, TypeOK, Tasks, Commit, GucAfter, Add, Upload, request,
       session, usage
  <1>3. RoleKept'
    BY PoolAssumption DEF IInv, RoleKept, TypeOK, Commit, GucAfter, Add, Upload, request, session,
       usage
  <1>4. ContextIsOrigin'
    BY PoolAssumption DEF IInv, ContextIsOrigin, TypeOK, Commit, GucAfter, Add, Upload, request,
       session, usage
  <1>5. GucOwned'
    BY PoolAssumption DEF IInv, GucOwned, Exclusive, ContextIsOrigin, TypeOK, Tasks, Commit, GucAfter,
       Add, Upload, request, session, usage
  <1>6. LockHeld'
    BY PoolAssumption DEF IInv, LockHeld, Exclusive, TypeOK, Tasks, Commit, GucAfter, Add, Upload,
       request, session, usage
  <1> QED
    BY <1>1, <1>2, <1>3, <1>4, <1>5, <1>6 DEF IInv

(* The invariant is preserved when a connection goes back. *)
LEMMA ReleaseInv == ASSUME IInv, NEW s \in Slots, Release(s) PROVE IInv'
  <1>1. TypeOK'
    BY PoolAssumption DEF IInv, TypeOK, Work, Tasks, Release, Reset, GucAfter, ConnectedAs, request,
       session, usage
  <1>2. Exclusive'
    BY PoolAssumption DEF IInv, Exclusive, TypeOK, Tasks, Release, Reset, GucAfter, ConnectedAs,
       request, session, usage
  <1>3. RoleKept'
    BY PoolAssumption DEF IInv, RoleKept, TypeOK, Release, Reset, GucAfter, ConnectedAs, request,
       session, usage
  <1>4. ContextIsOrigin'
    BY PoolAssumption DEF IInv, ContextIsOrigin, TypeOK, Release, Reset, GucAfter, ConnectedAs,
       request, session, usage
  <1>5. GucOwned'
    BY PoolAssumption DEF IInv, GucOwned, Exclusive, ContextIsOrigin, TypeOK, Tasks, Release, Reset,
       GucAfter, ConnectedAs, request, session, usage
  <1>6. LockHeld'
    BY PoolAssumption DEF IInv, LockHeld, Exclusive, TypeOK, Tasks, Release, Reset, GucAfter,
       ConnectedAs, request, session, usage
  <1> QED
    BY <1>1, <1>2, <1>3, <1>4, <1>5, <1>6 DEF IInv

(* The invariant is preserved when a handler ends. *)
LEMMA LeaveInv == ASSUME IInv, NEW s \in Slots, Leave(s) PROVE IInv'
  <1>1. TypeOK'
    <2>1. /\ guc' \in [Conns -> Tenants \cup {NoTenant}] /\ role' \in [Conns -> {"omur", "omur_app"}]
          /\ bus' \in [Conns -> BOOLEAN] /\ lost' \in [Conns -> BOOLEAN]
          /\ lock' \in Conns \cup {NoConn}
      <3>1. CASE conn[s] = NoConn
        BY <3>1 DEF IInv, TypeOK, Leave, session
      <3>2. CASE conn[s] # NoConn
        <4>1. Reset(conn[s]) /\ conn[s] \in Conns
          BY <3>2 DEF IInv, TypeOK, Leave, Tasks
        <4>2. guc' \in [Conns -> Tenants \cup {NoTenant}] /\ lock' \in Conns \cup {NoConn}
          BY <4>1 DEF IInv, TypeOK, Reset, GucAfter
        <4>3. role' \in [Conns -> {"omur", "omur_app"}]
          BY <4>1, PoolAssumption DEF IInv, TypeOK, Reset, ConnectedAs
        <4>4. bus' \in [Conns -> BOOLEAN] /\ lost' \in [Conns -> BOOLEAN]
          BY <4>1 DEF IInv, TypeOK, Reset
        <4> QED BY <4>2, <4>3, <4>4
      <3> QED BY <3>1, <3>2
    <2> QED
      BY <2>1, PoolAssumption DEF IInv, TypeOK, Work, Tasks, Leave, usage
  <1>2. Exclusive'
    BY PoolAssumption DEF IInv, Exclusive, TypeOK, Tasks, Leave, Reset, GucAfter, ConnectedAs,
       request, session, usage
  <1>3. RoleKept'
    BY PoolAssumption DEF IInv, RoleKept, TypeOK, Leave, Reset, GucAfter, ConnectedAs, request,
       session, usage
  <1>4. ContextIsOrigin'
    BY PoolAssumption DEF IInv, ContextIsOrigin, TypeOK, Leave, Reset, GucAfter, ConnectedAs, request,
       session, usage
  <1>5. GucOwned'
    <2>1. ASSUME NEW c \in Conns, guc'[c] # NoTenant
          PROVE  c # conn[s] /\ guc'[c] = guc[c]
      <3>1. CASE conn[s] = NoConn
        BY <2>1, <3>1, PoolAssumption DEF Leave, session
      <3>2. CASE conn[s] # NoConn
        BY <2>1, <3>2 DEF IInv, TypeOK, Tasks, Leave, Reset, GucAfter
      <3> QED BY <3>1, <3>2
    <2>2. ASSUME NEW r \in Slots, r # s
          PROVE  conn'[r] = conn[r] /\ pc'[r] = pc[r] /\ origin'[r] = origin[r]
      BY <2>2 DEF IInv, TypeOK, Tasks, Leave
    <2> QED
      BY <2>1, <2>2 DEF IInv, GucOwned
  <1>6. LockHeld'
    BY PoolAssumption, SMTT(30) DEF IInv, LockHeld, Exclusive, TypeOK, Tasks, Leave, Reset, GucAfter,
       ConnectedAs, request, session, usage
  <1> QED
    BY <1>1, <1>2, <1>3, <1>4, <1>5, <1>6 DEF IInv

(* The invariant is preserved when a loop takes the advisory lock. *)
LEMMA TryLockInv == ASSUME IInv, NEW l \in Loops, TryLock(l) PROVE IInv'
  <1>1. TypeOK'
    BY PoolAssumption DEF IInv, TypeOK, Work, Tasks, TryLock, Got, request, session, usage
  <1>2. Exclusive'
    BY PoolAssumption DEF IInv, Exclusive, TypeOK, Tasks, TryLock, Got, request, session, usage
  <1>3. RoleKept'
    BY PoolAssumption DEF IInv, RoleKept, TypeOK, TryLock, Got, request, session, usage
  <1>4. ContextIsOrigin'
    BY PoolAssumption DEF IInv, ContextIsOrigin, TypeOK, TryLock, Got, request, session, usage
  <1>5. GucOwned'
    BY PoolAssumption DEF IInv, GucOwned, Exclusive, ContextIsOrigin, TypeOK, Tasks, TryLock, Got,
       request, session, usage
  <1>6. LockHeld'
    BY PoolAssumption DEF IInv, LockHeld, Exclusive, TypeOK, Tasks, TryLock, Got, request, session,
       usage
  <1> QED
    BY <1>1, <1>2, <1>3, <1>4, <1>5, <1>6 DEF IInv

(* The invariant is preserved when a tick of a loop ends. *)
LEMMA EndTickInv == ASSUME IInv, NEW l \in Loops, EndTick(l) PROVE IInv'
  <1>1. TypeOK'
    BY PoolAssumption DEF IInv, TypeOK, Work, Tasks, EndTick, Got, Reset, GucAfter, ConnectedAs,
       request, session, usage
  <1>2. Exclusive'
    BY PoolAssumption DEF IInv, Exclusive, TypeOK, Tasks, EndTick, Got, Reset, GucAfter, ConnectedAs,
       request, session, usage
  <1>3. RoleKept'
    BY PoolAssumption DEF IInv, RoleKept, TypeOK, EndTick, Got, Reset, GucAfter, ConnectedAs, request,
       session, usage
  <1>4. ContextIsOrigin'
    BY PoolAssumption DEF IInv, ContextIsOrigin, TypeOK, EndTick, Got, Reset, GucAfter, ConnectedAs,
       request, session, usage
  <1>5. GucOwned'
    BY PoolAssumption DEF IInv, GucOwned, Exclusive, ContextIsOrigin, TypeOK, Tasks, EndTick, Got,
       Reset, GucAfter, ConnectedAs, request, session, usage
  <1>6. LockHeld'
    BY PoolAssumption DEF IInv, LockHeld, Exclusive, TypeOK, Tasks, EndTick, Got, Reset, GucAfter,
       ConnectedAs, request, session, usage
  <1> QED
    BY <1>1, <1>2, <1>3, <1>4, <1>5, <1>6 DEF IInv

(* The invariant is preserved when a session dies. *)
LEMMA SessionDiesInv == ASSUME IInv, NEW c \in Conns, SessionDies(c) PROVE IInv'
  <1>1. TypeOK'
    BY PoolAssumption DEF IInv, TypeOK, Work, Tasks, SessionDies, Idle, request, session, usage
  <1>2. Exclusive'
    BY PoolAssumption DEF IInv, Exclusive, TypeOK, Tasks, SessionDies, Idle, request, session, usage
  <1>3. RoleKept'
    BY PoolAssumption DEF IInv, RoleKept, TypeOK, SessionDies, Idle, request, session, usage
  <1>4. ContextIsOrigin'
    BY PoolAssumption DEF IInv, ContextIsOrigin, TypeOK, SessionDies, Idle, request, session, usage
  <1>5. GucOwned'
    BY PoolAssumption DEF IInv, GucOwned, Exclusive, ContextIsOrigin, TypeOK, Tasks, SessionDies,
       Idle, request, session, usage
  <1>6. LockHeld'
    BY PoolAssumption DEF IInv, LockHeld, Exclusive, TypeOK, Tasks, SessionDies, Idle, request,
       session, usage
  <1> QED
    BY <1>1, <1>2, <1>3, <1>4, <1>5, <1>6 DEF IInv

(* The invariant is preserved when the event bus uses a connection. *)
LEMMA BusTransactionInv == ASSUME IInv, NEW c \in Conns, BusTransaction(c) PROVE IInv'
  <1>1. TypeOK'
    BY PoolAssumption DEF IInv, TypeOK, Work, Tasks, BusTransaction, request, usage
  <1>2. Exclusive'
    BY DEF IInv, Exclusive, BusTransaction
  <1>3. RoleKept'
    BY DEF IInv, RoleKept, TypeOK, BusTransaction
  <1>4. ContextIsOrigin'
    BY DEF IInv, ContextIsOrigin, BusTransaction, request
  <1>5. GucOwned'
    BY DEF IInv, GucOwned, BusTransaction, request
  <1>6. LockHeld'
    BY DEF IInv, LockHeld, BusTransaction
  <1> QED
    BY <1>1, <1>2, <1>3, <1>4, <1>5, <1>6 DEF IInv

(* Every step of the specification preserves the invariant. *)
LEMMA StepInv == IInv /\ [Next]_vars => IInv'
  <1> SUFFICES ASSUME IInv, [Next]_vars PROVE IInv'
    OBVIOUS
  <1>1. ASSUME NEW s \in Slots, Request(s) PROVE IInv'
    BY <1>1, RequestInv
  <1>2. ASSUME NEW s \in Slots, Job(s) PROVE IInv'
    BY <1>2, JobInv
  <1>3. ASSUME NEW s \in Slots, Enqueue(s) PROVE IInv'
    BY <1>3, EnqueueInv
  <1>4. CASE Foreign
    BY <1>4, ForeignInv
  <1>5. CASE JobRefused
    BY <1>5, JobRefusedInv
  <1>6. ASSUME NEW p \in Tasks, Acquire(p) PROVE IInv'
    BY <1>6, AcquireInv
  <1>7. ASSUME NEW s \in Slots, Begin(s) PROVE IInv'
    BY <1>7, BeginInv
  <1>8. ASSUME NEW s \in Slots, SetRls(s) PROVE IInv'
    BY <1>8, SetRlsInv
  <1>9. ASSUME NEW s \in Slots, Check(s) PROVE IInv'
    BY <1>9, CheckInv
  <1>10. ASSUME NEW s \in Slots, Insert(s) PROVE IInv'
    BY <1>10, InsertInv
  <1>11. ASSUME NEW s \in Slots, Commit(s) PROVE IInv'
    BY <1>11, CommitInv
  <1>12. ASSUME NEW s \in Slots, Release(s) PROVE IInv'
    BY <1>12, ReleaseInv
  <1>13. ASSUME NEW s \in Slots, Leave(s) PROVE IInv'
    BY <1>13, LeaveInv
  <1>14. ASSUME NEW l \in Loops, TryLock(l) PROVE IInv'
    BY <1>14, TryLockInv
  <1>15. ASSUME NEW l \in Loops, EndTick(l) PROVE IInv'
    BY <1>15, EndTickInv
  <1>16. ASSUME NEW c \in Conns, SessionDies(c) PROVE IInv'
    BY <1>16, SessionDiesInv
  <1>17. ASSUME NEW c \in Conns, BusTransaction(c) PROVE IInv'
    BY <1>17, BusTransactionInv
  <1>18. CASE UNCHANGED vars
    BY <1>18 DEF IInv, TypeOK, Exclusive, RoleKept, ContextIsOrigin, GucOwned, LockHeld,
       vars, request, session, usage
  <1> QED
    BY <1>1, <1>2, <1>3, <1>4, <1>5, <1>6, <1>7, <1>8,
       <1>9, <1>10, <1>11, <1>12, <1>13, <1>14, <1>15, <1>16, <1>17, <1>18 DEF Next

(* The invariant holds in every reachable state. *)
LEMMA Invariance == Spec => []IInv
  BY InitInv, StepInv, PTL DEF Spec

(* The tasks, the sessions and the tables stay well typed. *)
THEOREM TypeCorrect == Spec => []TypeOK
  <1>1. IInv => TypeOK
    BY DEF IInv
  <1> QED
    BY <1>1, Invariance, PTL

(* However requests, jobs, clean-up loops and lost sessions share the      *)
(* connections of a pool that create_pool gave the role omur_app, a        *)
(* request or job sees rows of its own tenant only, and no rows before     *)
(* set_rls, on every session that no bus has reset to the login role.      *)
THEOREM TenantsIsolated == Spec => []SeesOwnRowsOnly
  <1>1. IInv => SeesOwnRowsOnly
    <2> SUFFICES ASSUME IInv, PoolRole = "omur_app",
                        NEW s \in Slots, pc[s] \in {"conn", "tx", "rls"}, ~ bus[conn[s]],
                        NEW t \in Visible(conn[s])
                 PROVE  t = origin[s]
      BY DEF SeesOwnRowsOnly
    <2>1. conn[s] \in Conns
      BY DEF IInv, TypeOK, Exclusive, Tasks
    <2>2. guc[conn[s]] = t /\ t \in Tenants
      BY <2>1 DEF IInv, RoleKept, ConnectedAs, Visible
    <2>3. PICK r \in Slots : conn[r] = conn[s] /\ origin[r] = guc[conn[s]]
      BY <2>1, <2>2, PoolAssumption DEF IInv, GucOwned
    <2>4. r = s
      BY <2>1, <2>3, PoolAssumption DEF IInv, Exclusive, Tasks
    <2> QED
      BY <2>2, <2>3, <2>4
  <1> QED
    BY <1>1, Invariance, PTL

(* Two loops whose sessions are alive never clean up together: a session   *)
(* keeps the advisory lock of _tick until the tick ends.                   *)
THEOREM CleanersExclusive == Spec => []OneCleaner
  <1>1. IInv => OneCleaner
    <2> SUFFICES ASSUME IInv, NEW k \in Loops, NEW l \in Loops,
                        pc[k] = "clean", pc[l] = "clean", ~ lost[conn[k]], ~ lost[conn[l]]
                 PROVE  k = l
      BY DEF OneCleaner
    <2>1. conn[k] = conn[l]
      BY DEF IInv, LockHeld
    <2> QED
      BY <2>1 DEF IInv, Exclusive, Tasks
  <1> QED
    BY <1>1, Invariance, PTL

-----------------------------------------------------------------------------
(* Quotas.  Check and use are two steps, so the limits are kept with what  *)
(* is in hand: the uploads and queries of a tenant that have passed their  *)
(* check and are not committed.  Only uploads of a size that is not        *)
(* negative can still add to the bytes of a tenant.                        *)

UploadsOf(t) == {s \in Slots : passed[s] /\ origin[s] = t /\ work[s] # Query}
QueriesOf(t) == {s \in Slots : passed[s] /\ origin[s] = t /\ work[s] = Query}
GrowthOf(t)  == {s \in UploadsOf(t) : work[s] >= 0}

Others == Cardinality(Slots) - 1

Slack(t) == Others + blind[t] + excess[t]

(* A slot without a handler has nothing in hand; a row is written in a     *)
(* transaction whose tenant is set.                                        *)
HandKept ==
    \A s \in Slots :
        /\ pc[s] = "idle" => ~ passed[s]
        /\ inserted[s] => pc[s] = "rls"

(* Inside its transaction a slot counts the rows of its own tenant. *)
GucSet ==
    \A s \in Slots :
        pc[s] = "rls" /\ ~ lost[conn[s]] => guc[conn[s]] = origin[s] /\ origin[s] \in Tenants

DocsWithin(t) == docs[t] + Cardinality(UploadsOf(t)) <= DocsLimit + Slack(t)

QueriesWithin(t) == queries[t] + Cardinality(QueriesOf(t)) <= QueryLimit + Slack(t)

(* b bytes are stored and the uploads of H, of sizes w, are in hand: some  *)
(* of them fits with the largest size counted for the others.              *)
Fits(b, H, w, k) ==
    IF H = {}
    THEN b <= StorageLimit + k * Largest
    ELSE \E s \in H :
           b + w[s] + (Cardinality(H) - 1) * Largest <= StorageLimit + k * Largest

BytesWithin(t) == Fits(bytes[t], GrowthOf(t), work, Slack(t))

Limits(t) == DocsWithin(t) /\ QueriesWithin(t) /\ BytesWithin(t)

QInv ==
    /\ HandKept
    /\ GucSet
    /\ \A t \in Tenants : Limits(t)

(* What the assumptions say of the numbers in the bounds. *)
LEMMA Numbers ==
    /\ Cardinality(Slots) \in Nat /\ Others \in Nat /\ Others = Cardinality(Slots) - 1
    /\ DocsLimit \in Nat /\ QueryLimit \in Nat /\ StorageLimit \in Nat
    /\ Largest \in Nat /\ \A m \in Sizes : m \in Int /\ m <= Largest
<1>1. Cardinality(Slots) \in Nat /\ Cardinality(Slots) # 0
  BY PoolAssumption, QuotaAssumption, FS_CardinalityType, FS_EmptySet
<1>2. Others \in Nat /\ Others = Cardinality(Slots) - 1
  BY <1>1 DEF Others
<1>3. PICK n \in Sizes : n >= 0 /\ \A m \in Sizes : m <= n
  BY QuotaAssumption
<1>4. Largest \in Sizes /\ \A m \in Sizes : m <= Largest
  BY <1>3 DEF Largest
<1>5. Largest \in Nat
  BY <1>3, <1>4, PoolAssumption
<1> QED BY <1>1, <1>2, <1>4, <1>5, PoolAssumption

(* Sets of slots are finite and no larger than Slots. *)
LEMMA SlotSets ==
    ASSUME NEW S \in SUBSET Slots
    PROVE  /\ IsFiniteSet(S) /\ Cardinality(S) \in Nat /\ Cardinality(S) <= Others + 1
           /\ S = {} <=> Cardinality(S) = 0
           /\ \A s \in S : Cardinality(S \ {s}) = Cardinality(S) - 1
<1>1. IsFiniteSet(S) /\ Cardinality(S) <= Cardinality(Slots)
  BY PoolAssumption, FS_Subset
<1>2. Cardinality(S) \in Nat
  BY <1>1, FS_CardinalityType
<1>3. S = {} <=> Cardinality(S) = 0
  BY <1>1, FS_EmptySet
<1>4. ASSUME NEW s \in S PROVE Cardinality(S \ {s}) = Cardinality(S) - 1
  BY <1>1, FS_RemoveElement
<1> QED BY <1>1, <1>2, <1>3, <1>4, Numbers

(* Multiples of a natural number. *)
LEMMA Multiples ==
    ASSUME NEW n \in Int, NEW L \in Nat
    PROVE  /\ n * L \in Int /\ (n - 1) * L = n * L - L /\ (n + 1) * L = n * L + L
           /\ \A m \in Int : n <= m => n * L <= m * L
           /\ n \in Nat => n * L \in Nat
<1>1. n * L \in Int /\ (n - 1) * L = n * L - L /\ (n + 1) * L = n * L + L
  OBVIOUS
<1>2. ASSUME NEW m \in Int, n <= m PROVE n * L <= m * L
  BY <1>2
<1>3. n \in Nat => n * L \in Nat
  OBVIOUS
<1> QED BY <1>1, <1>2, <1>3

(* In the following lemmas the uploads of H have sizes from 0 to Largest.  *)
(* Fewer bytes or more slack fit as well; sizes outside H do not matter.   *)
LEMMA FitsSmaller ==
    ASSUME NEW H \in SUBSET Slots, NEW w, NEW v,
           \A s \in H : w[s] \in Nat /\ w[s] <= Largest /\ v[s] = w[s],
           NEW b \in Int, NEW c \in Int, c <= b, NEW k \in Nat, NEW j \in Nat, k <= j,
           Fits(b, H, w, k)
    PROVE  Fits(c, H, v, j)
<1> DEFINE n == (Cardinality(H) - 1) * Largest
           x == k * Largest
           y == j * Largest
<1>1. n \in Int /\ x \in Int /\ y \in Int /\ x <= y
  <2>1. Cardinality(H) - 1 \in Int /\ k \in Int /\ j \in Int /\ Largest \in Nat
    BY SlotSets, Numbers
  <2> QED BY <2>1, Multiples
<1>2. CASE H = {}
  <2>1. b <= StorageLimit + x
    BY <1>2 DEF Fits
  <2> HIDE DEF x, y
  <2>2. c <= StorageLimit + y
    BY <1>1, <2>1, Numbers
  <2> QED BY <1>2, <2>2 DEF Fits, y
<1>3. CASE H # {}
  <2>1. PICK s \in H : b + w[s] + n <= StorageLimit + x
    BY <1>3 DEF Fits
  <2> HIDE DEF n, x, y
  <2>2. c + v[s] + n <= StorageLimit + y
    <3>1. w[s] \in Nat /\ v[s] = w[s]
      OBVIOUS
    <3> QED BY <1>1, <2>1, <3>1, Numbers
  <2> QED BY <1>3, <2>2 DEF Fits, n, y
<1> QED BY <1>2, <1>3

(* What fits is within the bound. *)
LEMMA FitsBound ==
    ASSUME NEW H \in SUBSET Slots, NEW w, \A s \in H : w[s] \in Nat,
           NEW b \in Int, NEW k \in Nat, Fits(b, H, w, k)
    PROVE  b <= StorageLimit + k * Largest
<1> DEFINE n == (Cardinality(H) - 1) * Largest
           x == k * Largest
<1>1. CASE H = {}
  BY <1>1 DEF Fits
<1>2. CASE H # {}
  <2>1. PICK s \in H : b + w[s] + n <= StorageLimit + x
    BY <1>2 DEF Fits
  <2>2. n \in Nat /\ x \in Int
    <3>1. Cardinality(H) - 1 \in Nat /\ k \in Int
      BY <1>2, SlotSets
    <3> QED BY <3>1, Multiples, Numbers
  <2> HIDE DEF n, x
  <2>3. b <= StorageLimit + x
    BY <2>1, <2>2, Numbers
  <2> QED BY <2>3 DEF x
<1> QED BY <1>1, <1>2

(* A row is stored without a check, and the slack grows by one upload. *)
LEMMA FitsUnchecked ==
    ASSUME NEW H \in SUBSET Slots, NEW w, \A s \in H : w[s] \in Nat,
           NEW b \in Int, NEW c \in Int, c <= b + Largest, NEW k \in Nat, Fits(b, H, w, k)
    PROVE  Fits(c, H, w, k + 1)
<1> DEFINE n == (Cardinality(H) - 1) * Largest
           x == k * Largest
           y == (k + 1) * Largest
<1>1. n \in Int /\ x \in Int /\ y = x + Largest
  <2>1. Cardinality(H) - 1 \in Int /\ k \in Int /\ Largest \in Nat
    BY SlotSets, Numbers
  <2> QED BY <2>1, Multiples
<1>2. CASE H = {}
  <2>1. b <= StorageLimit + x
    BY <1>2 DEF Fits
  <2> HIDE DEF x, y
  <2>2. c <= StorageLimit + y
    BY <1>1, <2>1, Numbers
  <2> QED BY <1>2, <2>2 DEF Fits, y
<1>3. CASE H # {}
  <2>1. PICK s \in H : b + w[s] + n <= StorageLimit + x
    BY <1>3 DEF Fits
  <2> HIDE DEF n, x, y
  <2>2. c + w[s] + n <= StorageLimit + y
    <3>1. w[s] \in Nat
      OBVIOUS
    <3> QED BY <1>1, <2>1, <3>1, Numbers
  <2> QED BY <1>3, <2>2 DEF Fits, n, y
<1> QED BY <1>2, <1>3

(* An upload leaves the hand, stored or not. *)
LEMMA FitsLeave ==
    ASSUME NEW H \in SUBSET Slots, NEW w, \A s \in H : w[s] \in Nat /\ w[s] <= Largest,
           NEW u \in H, NEW b \in Int, NEW c \in Int, c <= b + w[u], NEW k \in Nat,
           Fits(b, H, w, k)
    PROVE  Fits(c, H \ {u}, w, k)
<1> DEFINE n == (Cardinality(H) - 1) * Largest
           m == (Cardinality(H \ {u}) - 1) * Largest
           x == k * Largest
<1>1. n \in Nat /\ m = n - Largest /\ x \in Int
  <2>1. Cardinality(H) \in Nat /\ Cardinality(H) # 0 /\ Cardinality(H \ {u}) = Cardinality(H) - 1
    BY SlotSets
  <2>2. Cardinality(H) - 1 \in Nat /\ k \in Int /\ Largest \in Nat
    BY <2>1, Numbers
  <2> QED BY <2>1, <2>2, Multiples
<1>2. PICK s \in H : b + w[s] + n <= StorageLimit + x
  BY DEF Fits
<1>3. /\ w[s] \in Nat /\ w[s] <= Largest /\ w[u] \in Nat /\ w[u] <= Largest
      /\ Largest \in Nat /\ StorageLimit \in Nat
  BY Numbers
<1> HIDE DEF n, m, x
<1>4. CASE H \ {u} = {}
  <2>1. s = u
    BY <1>4
  <2>2. c <= StorageLimit + x
    BY <1>1, <1>2, <1>3, <2>1
  <2> QED BY <1>4, <2>2 DEF Fits, x
<1>5. CASE H \ {u} # {}
  <2>1. PICK v \in H \ {u} : s # u => v = s
    BY <1>5
  <2>2. w[v] \in Nat /\ w[v] <= Largest
    OBVIOUS
  <2>3. c + w[v] + m <= StorageLimit + x
    <3>1. CASE s = u
      BY <1>1, <1>2, <1>3, <2>2, <3>1
    <3>2. CASE s # u
      <4>1. v = s
        BY <2>1, <3>2
      <4> QED BY <1>1, <1>2, <1>3, <4>1
    <3> QED BY <3>1, <3>2
  <2> QED BY <1>5, <2>3 DEF Fits, m, x
<1> QED BY <1>4, <1>5

(* An upload passes a check that did not count the rows of its tenant. *)
LEMMA FitsBlind ==
    ASSUME NEW H \in SUBSET Slots, NEW w, NEW u \in Slots \ H,
           \A s \in H \cup {u} : w[s] \in Nat /\ w[s] <= Largest,
           NEW b \in Int, NEW k \in Nat, Fits(b, H, w, k)
    PROVE  Fits(b, H \cup {u}, w, k + 1)
<1> DEFINE n == (Cardinality(H) - 1) * Largest
           m == (Cardinality(H \cup {u}) - 1) * Largest
           x == k * Largest
           y == (k + 1) * Largest
<1>1. n \in Int /\ m = n + Largest /\ x \in Int /\ y = x + Largest
  <2>1. (H \cup {u}) \ {u} = H /\ H \cup {u} \in SUBSET Slots
    OBVIOUS
  <2>2. Cardinality(H) \in Nat /\ Cardinality(H \cup {u}) \in Nat
        /\ Cardinality(H) = Cardinality(H \cup {u}) - 1
    BY <2>1, SlotSets
  <2>3. Cardinality(H) - 1 \in Int /\ Cardinality(H \cup {u}) - 1 = (Cardinality(H) - 1) + 1
        /\ k \in Int /\ Largest \in Nat
    BY <2>2, Numbers
  <2>4. n \in Int /\ m = n + Largest
    <3>1. n \in Int /\ ((Cardinality(H) - 1) + 1) * Largest = n + Largest
      BY <2>3, Multiples
    <3> QED BY <2>3, <3>1
  <2>5. x \in Int /\ y = x + Largest
    BY <2>3, Multiples
  <2> QED BY <2>4, <2>5
<1>2. w[u] \in Nat /\ w[u] <= Largest /\ Largest \in Nat /\ StorageLimit \in Nat
  BY Numbers
<1>3. CASE H = {}
  <2>1. b <= StorageLimit + x
    BY <1>3 DEF Fits
  <2>2. m = 0 * Largest
    <3>1. Cardinality(H \cup {u}) = 1
      BY <1>3, FS_Singleton
    <3> QED BY <3>1
  <2>3. m = 0
    BY <1>2, <2>2
  <2> HIDE DEF n, m, x, y
  <2>4. b + w[u] + m <= StorageLimit + y
    BY <1>1, <1>2, <2>1, <2>3
  <2> QED BY <2>4 DEF Fits, m, y
<1>4. CASE H # {}
  <2>1. PICK s \in H : b + w[s] + n <= StorageLimit + x
    BY <1>4 DEF Fits
  <2> HIDE DEF n, m, x, y
  <2>2. b + w[s] + m <= StorageLimit + y
    <3>1. w[s] \in Nat
      OBVIOUS
    <3> QED BY <1>1, <1>2, <2>1, <3>1
  <2>3. s \in H \cup {u}
    OBVIOUS
  <2> QED BY <2>2, <2>3 DEF Fits, m, y
<1> QED BY <1>3, <1>4

(* An upload of H passes a check that counted the rows of its tenant. *)
LEMMA FitsChecked ==
    ASSUME NEW H \in SUBSET Slots, NEW w, NEW u \in H, w[u] \in Nat,
           NEW b \in Int, b + w[u] <= StorageLimit, NEW k \in Nat, Others <= k
    PROVE  Fits(b, H, w, k)
<1> DEFINE n == (Cardinality(H) - 1) * Largest
           x == k * Largest
<1>1. n \in Int /\ x \in Int /\ n <= x
  <2>1. /\ Cardinality(H) - 1 \in Int /\ Cardinality(H) - 1 <= k /\ k \in Int /\ Largest \in Nat
    BY SlotSets, Numbers
  <2> QED BY <2>1, Multiples
<1> HIDE DEF n, x
<1>2. b + w[u] + n <= StorageLimit + x
  BY <1>1, Numbers
<1> QED BY <1>2 DEF Fits, n, x

(* What is in hand is a set of slots, and every upload has a size. *)
LEMMA HandTypes ==
    ASSUME TypeOK, NEW t \in Tenants
    PROVE  /\ UploadsOf(t) \in SUBSET Slots /\ QueriesOf(t) \in SUBSET Slots
           /\ GrowthOf(t) \in SUBSET Slots
           /\ \A s \in UploadsOf(t) : work[s] \in Sizes
           /\ \A s \in GrowthOf(t) : work[s] \in Nat /\ work[s] <= Largest
           /\ docs[t] \in Nat /\ bytes[t] \in Int /\ queries[t] \in Nat
           /\ blind[t] \in Nat /\ excess[t] \in Nat
           /\ Slack(t) \in Nat /\ Others <= Slack(t)
<1>1. /\ UploadsOf(t) \in SUBSET Slots /\ QueriesOf(t) \in SUBSET Slots
      /\ \A s \in UploadsOf(t) : work[s] \in Sizes
  BY DEF TypeOK, Work, UploadsOf, QueriesOf
<1>2. /\ GrowthOf(t) \in SUBSET Slots
      /\ \A s \in GrowthOf(t) : work[s] \in Nat /\ work[s] <= Largest
  BY <1>1, Numbers DEF GrowthOf
<1>3. /\ docs[t] \in Nat /\ bytes[t] \in Int /\ queries[t] \in Nat
      /\ blind[t] \in Nat /\ excess[t] \in Nat
  BY DEF TypeOK
<1> QED BY <1>1, <1>2, <1>3, Numbers DEF Slack

(* A step that leaves what is in hand alone: nothing is stored, or a row   *)
(* nobody checked.                                                         *)
LEMMA SameHand ==
    ASSUME TypeOK, NEW t \in Tenants, Limits(t), NEW s \in Slots,
           \A r \in Slots : /\ passed'[r] <=> passed[r]
                            /\ passed[r] => origin'[r] = origin[r] /\ work'[r] = work[r],
           blind'[t] = blind[t],
           \/ /\ docs'[t] = docs[t] /\ bytes'[t] = bytes[t] /\ queries'[t] = queries[t]
              /\ excess'[t] = excess[t]
           \/ /\ docs'[t] = docs[t] + 1 /\ bytes'[t] = bytes[t] + work[s] /\ work[s] \in Sizes
              /\ queries'[t] = queries[t] /\ excess'[t] = excess[t] + 1
           \/ /\ docs'[t] = docs[t] /\ bytes'[t] = bytes[t] /\ queries'[t] = queries[t] + 1
              /\ excess'[t] = excess[t] + 1
    PROVE  Limits(t)'
<1> DEFINE H == GrowthOf(t)
<1>1. UploadsOf(t)' = UploadsOf(t) /\ QueriesOf(t)' = QueriesOf(t)
  BY DEF UploadsOf, QueriesOf
<1>2. \A r \in UploadsOf(t) : work'[r] = work[r]
  BY DEF UploadsOf
<1>3. GrowthOf(t)' = H
  BY <1>1, <1>2 DEF GrowthOf
<1>4. /\ Cardinality(UploadsOf(t)) \in Nat /\ Cardinality(QueriesOf(t)) \in Nat
      /\ H \in SUBSET Slots /\ \A r \in H : work[r] \in Nat /\ work[r] <= Largest
      /\ docs[t] \in Nat /\ bytes[t] \in Int /\ queries[t] \in Nat
      /\ blind[t] \in Nat /\ excess[t] \in Nat /\ Slack(t) \in Nat
  BY HandTypes, SlotSets
<1>5. \A r \in H : work'[r] = work[r]
  BY <1>2 DEF GrowthOf
<1> DEFINE k == Slack(t)
<1>6. /\ k \in Nat /\ docs[t] + Cardinality(UploadsOf(t)) <= DocsLimit + k
      /\ queries[t] + Cardinality(QueriesOf(t)) <= QueryLimit + k
      /\ Fits(bytes[t], H, work, k)
  BY <1>4 DEF Limits, DocsWithin, QueriesWithin, BytesWithin
<1>7. /\ excess'[t] = excess[t] => Slack(t)' = k
      /\ excess'[t] = excess[t] + 1 => Slack(t)' = k + 1
  BY <1>4, Numbers DEF Slack, Others
<1> HIDE DEF H, k
<1>8. DocsWithin(t)' /\ QueriesWithin(t)'
  <2>1. docs'[t] + Cardinality(UploadsOf(t)) <= DocsLimit + Slack(t)'
    BY <1>4, <1>6, <1>7, Numbers
  <2>2. queries'[t] + Cardinality(QueriesOf(t)) <= QueryLimit + Slack(t)'
    BY <1>4, <1>6, <1>7, Numbers
  <2> QED BY <1>1, <2>1, <2>2 DEF DocsWithin, QueriesWithin
<1>9. Fits(bytes'[t], H, work', Slack(t)')
  <2>1. CASE bytes'[t] = bytes[t]
    <3>1. Slack(t)' \in Nat /\ k <= Slack(t)'
      BY <1>6, <1>7
    <3> QED BY <1>4, <1>5, <1>6, <2>1, <3>1, FitsSmaller
  <2>2. CASE bytes'[t] = bytes[t] + work[s] /\ work[s] \in Sizes /\ excess'[t] = excess[t] + 1
    <3>1. bytes'[t] \in Int /\ bytes'[t] <= bytes[t] + Largest
      BY <1>4, <2>2, Numbers
    <3>2. Fits(bytes'[t], H, work, k + 1)
      BY <1>4, <1>6, <3>1, FitsUnchecked
    <3>3. Slack(t)' = k + 1 /\ k + 1 \in Nat
      BY <1>6, <1>7, <2>2
    <3> QED BY <1>4, <1>5, <3>1, <3>2, <3>3, FitsSmaller
  <2> QED BY <2>1, <2>2
<1>10. BytesWithin(t)'
  BY <1>3, <1>9 DEF BytesWithin
<1> QED BY <1>8, <1>10 DEF Limits

(* s has no longer anything in hand: it was stored, or given up. *)
LEMMA HandLeft ==
    ASSUME TypeOK, NEW t \in Tenants, Limits(t), NEW s \in Slots, ~ passed'[s],
           \A r \in Slots \ {s} : /\ passed'[r] <=> passed[r]
                                  /\ origin'[r] = origin[r] /\ work'[r] = work[r],
           blind'[t] = blind[t], excess'[t] = excess[t],
           \/ docs'[t] = docs[t] /\ bytes'[t] = bytes[t]
           \/ /\ s \in UploadsOf(t)
              /\ docs'[t] = docs[t] + 1 /\ bytes'[t] = bytes[t] + work[s],
           \/ queries'[t] = queries[t]
           \/ s \in QueriesOf(t) /\ queries'[t] = queries[t] + 1
    PROVE  Limits(t)'
<1> DEFINE U == UploadsOf(t)
           G == QueriesOf(t)
           H == GrowthOf(t)
           k == Slack(t)
<1>1. UploadsOf(t)' = U \ {s} /\ QueriesOf(t)' = G \ {s}
  BY DEF UploadsOf, QueriesOf
<1>2. /\ U \in SUBSET Slots /\ G \in SUBSET Slots /\ \A r \in U : work[r] \in Sizes
      /\ H \in SUBSET Slots /\ \A r \in H : work[r] \in Nat /\ work[r] <= Largest
      /\ docs[t] \in Nat /\ bytes[t] \in Int /\ queries[t] \in Nat /\ k \in Nat
  BY HandTypes
<1>3. GrowthOf(t)' = H \ {s} /\ \A r \in H \ {s} : work'[r] = work[r]
  BY <1>1, <1>2 DEF GrowthOf
<1>4. Cardinality(U) \in Nat /\ Cardinality(G) \in Nat
  BY <1>2, SlotSets
<1>5. /\ s \in U => Cardinality(U \ {s}) = Cardinality(U) - 1
      /\ s \in G => Cardinality(G \ {s}) = Cardinality(G) - 1
  BY <1>2, SlotSets
<1>6. /\ (s \notin U => U \ {s} = U) /\ (s \notin G => G \ {s} = G)
      /\ (s \notin H => H \ {s} = H)
  OBVIOUS
<1>7. /\ docs[t] + Cardinality(U) <= DocsLimit + k
      /\ queries[t] + Cardinality(G) <= QueryLimit + k
      /\ Fits(bytes[t], H, work, k)
  BY DEF Limits, DocsWithin, QueriesWithin, BytesWithin
<1>8. Slack(t)' = k
  BY DEF Slack, Others
<1>9. ASSUME s \in U, s \notin H PROVE work[s] \in Int /\ work[s] < 0
  <2>1. work[s] \in Int
    BY <1>2, <1>9, Numbers
  <2>2. ~ (work[s] >= 0)
    BY <1>9 DEF GrowthOf
  <2> QED BY <2>1, <2>2
<1>10. s \in H => s \in U
  BY DEF GrowthOf
<1> HIDE DEF U, G, H, k
<1>11. DocsWithin(t)'
  <2>1. docs'[t] + Cardinality(U \ {s}) <= DocsLimit + k
    <3>1. CASE s \in U
      BY <1>2, <1>4, <1>5, <1>7, <3>1, Numbers DEF U
    <3>2. CASE s \notin U
      BY <1>6, <1>7, <3>2 DEF U
    <3> QED BY <3>1, <3>2
  <2> QED BY <1>1, <1>8, <2>1 DEF DocsWithin
<1>12. QueriesWithin(t)'
  <2>1. queries'[t] + Cardinality(G \ {s}) <= QueryLimit + k
    <3>1. CASE s \in G
      BY <1>2, <1>4, <1>5, <1>7, <3>1, Numbers DEF G
    <3>2. CASE s \notin G
      BY <1>6, <1>7, <3>2 DEF G
    <3> QED BY <3>1, <3>2
  <2> QED BY <1>1, <1>8, <2>1 DEF QueriesWithin
<1>13. Fits(bytes'[t], H \ {s}, work', k)
  <2>1. CASE s \notin H
    <3>1. bytes'[t] \in Int /\ bytes'[t] <= bytes[t]
      <4>1. CASE bytes'[t] = bytes[t]
        BY <1>2, <4>1
      <4>2. CASE s \in U /\ bytes'[t] = bytes[t] + work[s]
        <5>1. work[s] \in Int /\ work[s] < 0
          BY <1>9, <2>1, <4>2
        <5> QED BY <1>2, <4>2, <5>1
      <4> QED BY <4>1, <4>2 DEF U
    <3>2. H \ {s} = H /\ \A r \in H : work'[r] = work[r]
      BY <1>3, <1>6, <2>1
    <3>3. k \in Nat /\ k <= k
      BY <1>2
    <3>4. Fits(bytes[t], H, work, k) /\ H \in SUBSET Slots /\ bytes[t] \in Int
      BY <1>2, <1>7
    <3>5. Fits(bytes'[t], H, work', k)
      BY <1>2, <1>3, <3>1, <3>2, <3>3, <3>4, FitsSmaller
    <3> QED BY <3>2, <3>5
  <2>2. CASE s \in H
    <3>1. work[s] \in Nat
      BY <1>2, <2>2
    <3>2. bytes'[t] \in Int /\ bytes'[t] <= bytes[t] + work[s]
      <4>1. bytes'[t] = bytes[t] \/ bytes'[t] = bytes[t] + work[s]
        OBVIOUS
      <4> QED BY <1>2, <3>1, <4>1
    <3>3. Fits(bytes'[t], H \ {s}, work, k)
      BY <1>2, <1>7, <2>2, <3>2, FitsLeave
    <3>4. H \ {s} \in SUBSET Slots
      BY <1>2
    <3> QED BY <1>2, <1>3, <3>2, <3>3, <3>4, FitsSmaller
  <2> QED BY <2>1, <2>2
<1>14. BytesWithin(t)'
  BY <1>3, <1>8, <1>13 DEF BytesWithin
<1> QED BY <1>11, <1>12, <1>14 DEF Limits

(* s passes its check: what it has read is within the limits, or the check *)
(* is counted as blind.                                                    *)
LEMMA HandTaken ==
    ASSUME TypeOK, NEW t \in Tenants, Limits(t), NEW s \in Slots, ~ passed[s], passed'[s],
           \A r \in Slots \ {s} : passed'[r] <=> passed[r],
           UNCHANGED <<origin, work, docs, bytes, queries, excess>>,
           \/ origin[s] # t /\ blind'[t] = blind[t]
           \/ origin[s] = t /\ blind'[t] = blind[t] + 1
           \/ /\ origin[s] = t /\ Upload(s) /\ blind'[t] = blind[t]
              /\ docs[t] + 1 <= DocsLimit /\ bytes[t] + work[s] <= StorageLimit
           \/ /\ origin[s] = t /\ ~ Upload(s) /\ blind'[t] = blind[t]
              /\ queries[t] + 1 <= QueryLimit
    PROVE  Limits(t)'
<1> DEFINE U == UploadsOf(t)
           G == QueriesOf(t)
           H == GrowthOf(t)
           V == UploadsOf(t)'
           J == QueriesOf(t)'
           K == GrowthOf(t)'
           k == Slack(t)
<1>1. /\ U \in SUBSET Slots /\ G \in SUBSET Slots /\ H \in SUBSET Slots
      /\ s \notin U /\ s \notin G /\ s \notin H
      /\ docs[t] \in Nat /\ bytes[t] \in Int /\ queries[t] \in Nat /\ blind[t] \in Nat
      /\ k \in Nat /\ Others <= k
      /\ \A r \in H : work[r] \in Nat /\ work[r] <= Largest
  BY HandTypes DEF UploadsOf, QueriesOf, GrowthOf
<1>2. V = (IF origin[s] = t /\ Upload(s) THEN U \cup {s} ELSE U)
  BY DEF UploadsOf, Upload
<1>3. J = (IF origin[s] = t /\ ~ Upload(s) THEN G \cup {s} ELSE G)
  BY DEF QueriesOf, Upload
<1>4. K = H \/ /\ K = H \cup {s} /\ origin[s] = t /\ Upload(s)
               /\ work[s] \in Nat /\ work[s] <= Largest
  <2>1. Upload(s) => work[s] \in Int /\ work[s] <= Largest
    BY Numbers DEF TypeOK, Work, Upload
  <2>2. K = {r \in V : work[r] >= 0} /\ H = {r \in U : work[r] >= 0}
    BY DEF GrowthOf
  <2>3. CASE V = U
    BY <2>2, <2>3
  <2>4. CASE V # U
    <3>1. V = U \cup {s} /\ origin[s] = t /\ Upload(s)
      BY <1>2, <2>4
    <3> HIDE DEF U, V, H, K
    <3>2. CASE work[s] >= 0
      BY <2>1, <2>2, <3>1, <3>2
    <3>3. CASE ~ (work[s] >= 0)
      BY <2>2, <3>1, <3>3
    <3> QED BY <3>2, <3>3
  <2> QED BY <2>3, <2>4
<1>5. /\ Cardinality(U) \in Nat /\ Cardinality(G) \in Nat
      /\ Cardinality(V) \in Nat /\ Cardinality(V) <= Others + 1
      /\ Cardinality(J) \in Nat /\ Cardinality(J) <= Others + 1
      /\ V = U \cup {s} => Cardinality(V) = Cardinality(U) + 1
      /\ J = G \cup {s} => Cardinality(J) = Cardinality(G) + 1
  <2>1. V \in SUBSET Slots /\ J \in SUBSET Slots
    BY <1>1, <1>2, <1>3
  <2> HIDE DEF U, G, V, J
  <2>2. /\ Cardinality(U) \in Nat /\ Cardinality(G) \in Nat
        /\ Cardinality(V) \in Nat /\ Cardinality(V) <= Others + 1
        /\ Cardinality(J) \in Nat /\ Cardinality(J) <= Others + 1
    BY <1>1, <2>1, SlotSets
  <2>3. V = U \cup {s} => V \ {s} = U /\ s \in V
    BY <1>1
  <2>4. J = G \cup {s} => J \ {s} = G /\ s \in J
    BY <1>1
  <2> QED BY <2>1, <2>2, <2>3, <2>4, SlotSets
<1>6. /\ docs[t] + Cardinality(U) <= DocsLimit + k
      /\ queries[t] + Cardinality(G) <= QueryLimit + k
      /\ Fits(bytes[t], H, work, k)
  BY DEF Limits, DocsWithin, QueriesWithin, BytesWithin
<1>7. /\ blind'[t] = blind[t] => Slack(t)' = k
      /\ blind'[t] = blind[t] + 1 => Slack(t)' = k + 1
  <2>1. excess'[t] = excess[t] /\ excess[t] \in Nat
    BY HandTypes
  <2> QED BY <1>1, <2>1, Numbers DEF Slack, Others
<1> HIDE DEF U, G, H, V, J, K, k
<1>8. docs[t] + Cardinality(V) <= DocsLimit + Slack(t)'
  <2>1. CASE V = U
    BY <1>1, <1>5, <1>6, <1>7, <2>1, Numbers
  <2>2. CASE V # U
    <3>1. V = U \cup {s} /\ origin[s] = t /\ Upload(s)
      BY <1>2, <2>2
    <3>2. CASE blind'[t] = blind[t] + 1
      BY <1>1, <1>5, <1>6, <1>7, <3>1, <3>2, Numbers
    <3>3. CASE blind'[t] = blind[t] /\ docs[t] + 1 <= DocsLimit
      BY <1>1, <1>5, <1>7, <3>3, Numbers
    <3> QED BY <3>1, <3>2, <3>3
  <2> QED BY <2>1, <2>2
<1>9. queries[t] + Cardinality(J) <= QueryLimit + Slack(t)'
  <2>1. CASE J = G
    BY <1>1, <1>5, <1>6, <1>7, <2>1, Numbers
  <2>2. CASE J # G
    <3>1. J = G \cup {s} /\ origin[s] = t /\ ~ Upload(s)
      BY <1>3, <2>2
    <3>2. CASE blind'[t] = blind[t] + 1
      BY <1>1, <1>5, <1>6, <1>7, <3>1, <3>2, Numbers
    <3>3. CASE blind'[t] = blind[t] /\ queries[t] + 1 <= QueryLimit
      BY <1>1, <1>5, <1>7, <3>3, Numbers
    <3> QED BY <3>1, <3>2, <3>3
  <2> QED BY <2>1, <2>2
<1>10. Fits(bytes[t], K, work, Slack(t)')
  <2>1. CASE K = H
    <3>1. Slack(t)' \in Nat /\ k <= Slack(t)'
      BY <1>1, <1>7
    <3> QED BY <1>1, <1>6, <2>1, <3>1, FitsSmaller
  <2>2. CASE K # H
    <3>1. /\ K = H \cup {s} /\ origin[s] = t /\ Upload(s)
          /\ work[s] \in Nat /\ work[s] <= Largest
      BY <1>4, <2>2
    <3>2. CASE blind'[t] = blind[t] + 1
      <4>1. s \in Slots \ H /\ \A r \in H \cup {s} : work[r] \in Nat /\ work[r] <= Largest
        BY <1>1, <3>1
      <4> QED BY <1>1, <1>6, <1>7, <3>1, <3>2, <4>1, FitsBlind
    <3>3. CASE blind'[t] = blind[t] /\ bytes[t] + work[s] <= StorageLimit
      <4>1. K \in SUBSET Slots /\ s \in K
        BY <1>1, <3>1
      <4> QED BY <1>1, <1>7, <3>1, <3>3, <4>1, FitsChecked
    <3> QED BY <3>1, <3>2, <3>3
  <2> QED BY <2>1, <2>2
<1> QED BY <1>8, <1>9, <1>10 DEF Limits, DocsWithin, QueriesWithin, BytesWithin, V, J, K

(* Nothing is in hand in the initial state. *)
LEMMA QuotaInit == Init => QInv
<1> SUFFICES ASSUME Init PROVE QInv
  OBVIOUS
<1>1. HandKept /\ GucSet
  BY PoolAssumption DEF Init, HandKept, GucSet, Tasks
<1>2. ASSUME NEW t \in Tenants PROVE Limits(t)
  <2>1. UploadsOf(t) = {} /\ QueriesOf(t) = {} /\ GrowthOf(t) = {}
    BY DEF Init, UploadsOf, QueriesOf, GrowthOf
  <2>2. Cardinality(UploadsOf(t)) = 0 /\ Cardinality(QueriesOf(t)) = 0
    BY <2>1, FS_EmptySet
  <2>3. /\ docs[t] = 0 /\ bytes[t] = 0 /\ queries[t] = 0
        /\ Slack(t) = Others /\ Others * Largest \in Nat
    BY Numbers, Multiples DEF Init, Slack
  <2>4. DocsWithin(t) /\ QueriesWithin(t)
    BY <2>2, <2>3, Numbers DEF DocsWithin, QueriesWithin
  <2>5. BytesWithin(t)
    BY <2>1, <2>3, Numbers DEF BytesWithin, Fits
  <2> QED BY <2>4, <2>5 DEF Limits
<1> QED BY <1>1, <1>2 DEF QInv

(* Steps of the pool, the queue and the clean-up loops: they touch neither *)
(* a quota nor what a slot has in hand.                                    *)
LEMMA QuotaQuiet ==
    ASSUME IInv, QInv,
           \/ \E s \in Slots : Enqueue(s) \/ Begin(s) \/ SetRls(s) \/ Release(s)
           \/ Foreign \/ JobRefused
           \/ \E p \in Tasks : Acquire(p)
           \/ \E l \in Loops : TryLock(l) \/ EndTick(l)
           \/ \E c \in Conns : SessionDies(c) \/ BusTransaction(c)
           \/ UNCHANGED vars
    PROVE  QInv'
<1> USE PoolAssumption DEF IInv, QInv
<1>1. UNCHANGED <<request, usage>>
  BY DEF Enqueue, Begin, SetRls, Release, Foreign, JobRefused, Acquire, TryLock, EndTick,
         SessionDies, BusTransaction, vars
<1>2. HandKept'
  BY <1>1
  DEF Enqueue, Begin, SetRls, Release, Foreign, JobRefused, Acquire, TryLock, EndTick,
      SessionDies, BusTransaction, vars, request, HandKept, TypeOK, Tasks
<1>3. GucSet'
  <2>1. ASSUME NEW s \in Slots, Enqueue(s) \/ Begin(s) PROVE GucSet'
    BY <2>1 DEF Enqueue, Begin, request, session, GucSet, TypeOK, Tasks
  <2>2. ASSUME NEW s \in Slots, SetRls(s) PROVE GucSet'
    BY <2>2 DEF SetRls, HasTenant, request, GucSet, TypeOK, Tasks, Exclusive, ContextIsOrigin
  <2>3. ASSUME NEW s \in Slots, Release(s) PROVE GucSet'
    BY <2>3 DEF Release, Reset, GucAfter, request, GucSet, TypeOK, Tasks, Exclusive
  <2>4. CASE Foreign \/ JobRefused \/ UNCHANGED vars
    BY <2>4 DEF Foreign, JobRefused, vars, request, session, GucSet
  <2>5. ASSUME NEW p \in Tasks, Acquire(p) PROVE GucSet'
    BY <2>5 DEF Acquire, request, session, GucSet, TypeOK, Tasks
  <2>6. ASSUME NEW l \in Loops, TryLock(l) PROVE GucSet'
    BY <2>6 DEF TryLock, request, GucSet, TypeOK, Tasks
  <2>7. ASSUME NEW l \in Loops, EndTick(l) PROVE GucSet'
    BY <2>7 DEF EndTick, Reset, GucAfter, request, GucSet, TypeOK, Tasks, Exclusive
  <2>8. ASSUME NEW c \in Conns, SessionDies(c) PROVE GucSet'
    BY <2>8 DEF SessionDies, request, GucSet, TypeOK, Tasks, Exclusive
  <2>9. ASSUME NEW c \in Conns, BusTransaction(c) PROVE GucSet'
    BY <2>9 DEF BusTransaction, request, GucSet
  <2> QED BY <2>1, <2>2, <2>3, <2>4, <2>5, <2>6, <2>7, <2>8, <2>9
<1>4. ASSUME NEW t \in Tenants PROVE Limits(t)'
  <2>1. PICK s \in Slots : TRUE
    BY QuotaAssumption
  <2> QED BY <1>1, <2>1, SameHand DEF request, usage
<1> QED BY <1>2, <1>3, <1>4

(* A request or job arrives at a slot that has nothing in hand. *)
LEMMA QuotaBind ==
    ASSUME IInv, QInv, NEW s \in Slots, Request(s) \/ Job(s)
    PROVE  QInv'
<1> USE PoolAssumption DEF IInv, QInv
<1>1. PICK t \in Tenants \cup {NoTenant} : Bind(s, t)
  BY DEF Request, Job, Valid, TypeOK, Envelope
<1>2. HandKept'
  BY <1>1 DEF Bind, HandKept, TypeOK, Tasks
<1>3. GucSet'
  BY <1>1 DEF Bind, session, GucSet, TypeOK, Tasks
<1>4. ~ passed[s] /\ UNCHANGED <<passed, usage>>
  BY <1>1 DEF Bind, HandKept
<1>5. \A r \in Slots : passed[r] => origin'[r] = origin[r] /\ work'[r] = work[r]
  BY <1>1, <1>4 DEF Bind, TypeOK
<1>6. ASSUME NEW u \in Tenants PROVE Limits(u)'
  BY <1>4, <1>5, SameHand DEF usage
<1> QED BY <1>2, <1>3, <1>6

(* check_upload or check_query lets a request pass. *)
LEMMA QuotaCheck ==
    ASSUME IInv, QInv, NEW s \in Slots, Check(s)
    PROVE  QInv'
<1> USE PoolAssumption DEF IInv, QInv
<1>1. guc[conn[s]] = origin[s] /\ origin[s] \in Tenants
  BY DEF Check, GucSet
<1>2. HandKept'
  BY DEF Check, HandKept, TypeOK, Tasks
<1>3. GucSet'
  BY DEF Check, session, GucSet
<1>4. /\ ~ passed[s] /\ passed'[s] /\ \A r \in Slots \ {s} : passed'[r] <=> passed[r]
      /\ UNCHANGED <<origin, work, docs, bytes, queries, excess>>
  BY DEF Check, TypeOK
<1>5. ASSUME NEW t \in Tenants PROVE Limits(t)'
  <2>1. \/ /\ Allowed(s, docs[origin[s]], bytes[origin[s]], queries[origin[s]])
           /\ UNCHANGED blind
        \/ blind' = [blind EXCEPT ![origin[s]] = @ + 1]
    BY <1>1 DEF Check, Counted
  <2>2. CASE origin[s] # t
    <3>1. blind'[t] = blind[t]
      BY <1>1, <2>1, <2>2 DEF TypeOK
    <3> QED BY <1>4, <2>2, <3>1, HandTaken
  <2>3. CASE origin[s] = t
    <3>1. \/ Upload(s) /\ blind'[t] = blind[t]
             /\ docs[t] + 1 <= DocsLimit /\ bytes[t] + work[s] <= StorageLimit
          \/ ~ Upload(s) /\ queries[t] + 1 <= QueryLimit /\ blind'[t] = blind[t]
          \/ blind'[t] = blind[t] + 1
      BY <2>1, <2>3 DEF Allowed, TypeOK
    <3> QED BY <1>4, <2>3, <3>1, HandTaken
  <2> QED BY <2>2, <2>3
<1> QED BY <1>2, <1>3, <1>5

(* The row is written: what was in hand stays there until the commit. *)
LEMMA QuotaInsert ==
    ASSUME IInv, QInv, NEW s \in Slots, Insert(s)
    PROVE  QInv'
<1> USE PoolAssumption DEF IInv, QInv
<1>1. HandKept' /\ GucSet'
  BY DEF Insert, HandKept, session, GucSet, TypeOK, Tasks
<1>2. ASSUME NEW t \in Tenants PROVE Limits(t)'
  BY SameHand DEF Insert, usage
<1> QED BY <1>1, <1>2

(* A commit moves what was in hand to what is counted. *)
LEMMA QuotaCommit ==
    ASSUME IInv, QInv, NEW s \in Slots, Commit(s)
    PROVE  QInv'
<1> USE PoolAssumption DEF IInv, QInv
<1>1. HandKept'
  BY DEF Commit, HandKept, TypeOK, Tasks
<1>2. GucSet'
  BY DEF Commit, GucAfter, GucSet, TypeOK, Tasks, Exclusive
<1>3. /\ UNCHANGED <<origin, work, blind>>
      /\ \A r \in Slots \ {s} : passed'[r] <=> passed[r]
      /\ passed'[s] <=> passed[s] /\ ~ inserted[s]
  BY DEF Commit, TypeOK
<1>4. ASSUME NEW t \in Tenants PROVE Limits(t)'
  <2>1. CASE ~ inserted[s]
    <3>1. UNCHANGED usage
      BY <1>3, <2>1 DEF Commit, usage
    <3> QED BY <1>3, <2>1, <3>1, SameHand DEF usage
  <2>2. CASE inserted[s]
    <3>1. /\ guc[conn[s]] = origin[s] /\ origin[s] \in Tenants /\ ~ passed'[s]
          /\ passed[s] => excess' = excess
          /\ ~ passed[s] => excess' = [excess EXCEPT ![origin[s]] = @ + 1]
      BY <1>3, <2>2 DEF Commit, HandKept, GucSet, Add
    <3>2. CASE Upload(s)
      <4>1. /\ docs' = [docs EXCEPT ![origin[s]] = @ + 1]
            /\ bytes' = [bytes EXCEPT ![origin[s]] = @ + work[s]]
            /\ queries' = queries /\ work[s] \in Sizes
        BY <2>2, <3>1, <3>2 DEF Commit, Add, TypeOK, Work, Upload
      <4>2. CASE passed[s]
        <5>1. \/ docs'[t] = docs[t] /\ bytes'[t] = bytes[t]
              \/ /\ s \in UploadsOf(t)
                 /\ docs'[t] = docs[t] + 1 /\ bytes'[t] = bytes[t] + work[s]
          BY <3>1, <3>2, <4>1, <4>2 DEF UploadsOf, Upload, TypeOK
        <5> QED BY <1>3, <3>1, <4>1, <4>2, <5>1, HandLeft
      <4>3. CASE ~ passed[s]
        <5>1. \/ docs'[t] = docs[t] /\ bytes'[t] = bytes[t] /\ excess'[t] = excess[t]
              \/ /\ docs'[t] = docs[t] + 1 /\ bytes'[t] = bytes[t] + work[s]
                 /\ excess'[t] = excess[t] + 1
          BY <3>1, <4>1, <4>3 DEF TypeOK
        <5>2. \A r \in Slots : passed'[r] <=> passed[r]
          BY <1>3, <3>1, <4>3
        <5> QED BY <1>3, <4>1, <5>1, <5>2, SameHand
      <4> QED BY <4>2, <4>3
    <3>3. CASE ~ Upload(s)
      <4>1. /\ queries' = [queries EXCEPT ![origin[s]] = @ + 1]
            /\ docs' = docs /\ bytes' = bytes
        BY <2>2, <3>1, <3>3 DEF Commit, Add
      <4>2. CASE passed[s]
        <5>1. \/ queries'[t] = queries[t]
              \/ s \in QueriesOf(t) /\ queries'[t] = queries[t] + 1
          BY <3>1, <3>3, <4>1, <4>2 DEF QueriesOf, Upload, TypeOK
        <5> QED BY <1>3, <3>1, <4>1, <4>2, <5>1, HandLeft
      <4>3. CASE ~ passed[s]
        <5>1. \/ queries'[t] = queries[t] /\ excess'[t] = excess[t]
              \/ queries'[t] = queries[t] + 1 /\ excess'[t] = excess[t] + 1
          BY <3>1, <4>1, <4>3 DEF TypeOK
        <5>2. \A r \in Slots : passed'[r] <=> passed[r]
          BY <1>3, <3>1, <4>3
        <5> QED BY <1>3, <4>1, <5>1, <5>2, SameHand
      <4> QED BY <4>2, <4>3
    <3> QED BY <3>2, <3>3
  <2> QED BY <2>1, <2>2
<1> QED BY <1>1, <1>2, <1>4

(* The handler ends: what it had in hand is given up. *)
LEMMA QuotaLeave ==
    ASSUME IInv, QInv, NEW s \in Slots, Leave(s)
    PROVE  QInv'
<1> USE PoolAssumption DEF IInv, QInv
<1>1. HandKept'
  BY DEF Leave, HandKept, TypeOK, Tasks
<1>2. GucSet'
  BY SMTT(30) DEF Leave, Reset, GucAfter, session, GucSet, TypeOK, Tasks, Exclusive
<1>3. /\ ~ passed'[s] /\ UNCHANGED usage
      /\ \A r \in Slots \ {s} : /\ passed'[r] <=> passed[r]
                                /\ origin'[r] = origin[r] /\ work'[r] = work[r]
  BY DEF Leave, TypeOK
<1>4. ASSUME NEW t \in Tenants PROVE Limits(t)'
  BY <1>3, HandLeft DEF usage
<1> QED BY <1>1, <1>2, <1>4

(* The quota invariant holds in every reachable state. *)
LEMMA QuotaInvariance == Spec => []QInv
<1>1. IInv /\ QInv /\ [Next]_vars => QInv'
  BY QuotaQuiet, QuotaBind, QuotaCheck, QuotaInsert, QuotaCommit, QuotaLeave DEF Next
<1> QED BY <1>1, Invariance, QuotaInit, PTL DEF Spec

(* Requests that pass their check together exceed a limit by at most one   *)
(* upload or query for every other slot, for every check that did not      *)
(* count the rows of the tenant and for every row nobody checked.          *)
THEOREM QuotaOvershoot == Spec => []OvershootBounded
<1>1. ASSUME IInv, QInv, NEW t \in Tenants
      PROVE  /\ docs[t] + InHand(t, TRUE) <= DocsLimit + Slack(t)
             /\ bytes[t] <= StorageLimit + Slack(t) * Largest
             /\ queries[t] + InHand(t, FALSE) <= QueryLimit + Slack(t)
  <2>1. InHand(t, TRUE) = Cardinality(UploadsOf(t))
    <3>1. {s \in Slots : passed[s] /\ origin[s] = t /\ Upload(s) = TRUE} = UploadsOf(t)
      BY DEF UploadsOf, Upload
    <3> QED BY <3>1 DEF InHand
  <2>2. InHand(t, FALSE) = Cardinality(QueriesOf(t))
    <3>1. {s \in Slots : passed[s] /\ origin[s] = t /\ Upload(s) = FALSE} = QueriesOf(t)
      BY DEF QueriesOf, Upload
    <3> QED BY <3>1 DEF InHand
  <2>3. bytes[t] <= StorageLimit + Slack(t) * Largest
    <3>1. /\ GrowthOf(t) \in SUBSET Slots /\ \A s \in GrowthOf(t) : work[s] \in Nat
          /\ bytes[t] \in Int /\ Slack(t) \in Nat
      BY <1>1, HandTypes DEF IInv
    <3>2. Fits(bytes[t], GrowthOf(t), work, Slack(t))
      BY <1>1 DEF QInv, Limits, BytesWithin
    <3> QED BY <3>1, <3>2, FitsBound
  <2> QED BY <1>1, <2>1, <2>2, <2>3 DEF QInv, Limits, DocsWithin, QueriesWithin
<1>2. IInv /\ QInv => OvershootBounded
  BY <1>1 DEF OvershootBounded, Others, Slack
<1> QED BY <1>2, Invariance, QuotaInvariance, PTL

=============================================================================
