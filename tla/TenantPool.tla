---------------------------- MODULE TenantPool ----------------------------
(***************************************************************************)
(* The tasks of a service on one pool of database connections:             *)
(* omkit/tenant.py (the tenant of a request or job and how it reaches row  *)
(* level security), omkit/jobqueue (jobs that carry their tenant),         *)
(* omkit/quota.py (limits counted and then used up), omkit/dbpool.py (the  *)
(* role of a connection), omkit/eventbus.py (a bus on the same pool) and   *)
(* omkit/cleanup.py (replicas that take turns by an advisory lock).        *)
(*                                                                         *)
(* A slot serves one request or job after another in one context.  What a  *)
(* handler does between the calls of omkit is its own: it may open as many *)
(* transactions as it likes, check its quota in one, use it in another, or *)
(* use it without a check: record_usage follows every completion.  Rows of *)
(* another transaction are seen once it has committed.                     *)
(***************************************************************************)
EXTENDS Integers, FiniteSets

CONSTANTS
    Tenants,
    NoTenant,       \* the context variable, or the setting, is unset
    Invalid,        \* an envelope that does not validate
    Slots, Loops,   \* tasks: request or job slots, cleanup loops
    Conns,          \* connections of the pool
    NoConn,
    PoolRole,       \* role given to create_pool; "omur", the login, if none
    DocsLimit, StorageLimit, QueryLimit,    \* effective limits of a tenant
    Sizes,          \* upload sizes; check_upload does not refuse negative ones
    Query,          \* the work of a slot: a query, or an upload by its size
    MaxWork,        \* bound: requests, jobs and foreign envelopes accepted
    MaxExcess,      \* bound: rows of a tenant written without a check
    MaxFaults       \* bound: connections lost and usage_log reads that fail

ASSUME PoolAssumption ==
    /\ NoTenant \notin Tenants /\ Invalid \notin Tenants
    /\ Slots \cap Loops = {}
    /\ NoConn \notin Conns
    /\ PoolRole \in {"omur", "omur_app"}
    /\ {DocsLimit, StorageLimit, QueryLimit, MaxWork, MaxExcess, MaxFaults} \subseteq Nat
    /\ Sizes \subseteq Int /\ Query \notin Sizes
    /\ IsFiniteSet(Slots)

(* Something is served, and uploads are bounded. *)
ASSUME QuotaAssumption ==
    /\ Slots # {}
    /\ \E n \in Sizes : n >= 0 /\ \A m \in Sizes : m <= n

Fns == INSTANCE Functions

Tasks == Slots \cup Loops

Work == {Query} \cup Sizes

Envelope == Tenants \cup {Invalid}

VARIABLES
    pc,         \* slots: "idle", "bound", "conn", "tx", "rls"
                \* loops: "sleep", "conn", "clean"
    conn,       \* conn[p]: connection checked out by p
    ctx,        \* ctx[s]: _tenant_id_var in the context of s
    origin,     \* origin[s]: tenant the header or the envelope names
    work,       \* work[s]: what the handler is to do
    passed,     \* passed[s]: check_upload or check_query allowed it
    inserted,   \* inserted[s]: the row is written, not yet committed
    guc,        \* guc[c]: app.tenant_id of the running transaction
    role,       \* role[c]: role of the session
    bus,        \* bus[c]: history, the event bus has used this session
    lost,       \* lost[c]: the session died while c was checked out
    lock,       \* connection whose session holds the advisory lock
    queue,      \* envelopes in the job queue
    docs, bytes, queries,   \* committed rows of each tenant
    blind,      \* blind[t]: history, checks of t that did not count t's rows
    excess,     \* excess[t]: history, rows of t stored without a check
    taken, faults           \* counters for the bounds

request == <<ctx, origin, work, passed, inserted>>
session == <<guc, role, bus, lost, lock>>
usage   == <<docs, bytes, queries, blind, excess>>
vars    == <<pc, conn, request, session, queue, usage, taken, faults>>

(* The init coroutine of create_pool, once per physical connection. *)
ConnectedAs == PoolRole

Init ==
    /\ pc = [p \in Tasks |-> IF p \in Slots THEN "idle" ELSE "sleep"]
    /\ conn = [p \in Tasks |-> NoConn]
    /\ ctx = [s \in Slots |-> NoTenant]
    /\ origin = [s \in Slots |-> NoTenant]
    /\ work = [s \in Slots |-> Query]
    /\ passed = [s \in Slots |-> FALSE]
    /\ inserted = [s \in Slots |-> FALSE]
    /\ guc = [c \in Conns |-> NoTenant]
    /\ role = [c \in Conns |-> ConnectedAs]
    /\ bus = [c \in Conns |-> FALSE]
    /\ lost = [c \in Conns |-> FALSE]
    /\ lock = NoConn
    /\ queue = {}
    /\ docs = [t \in Tenants |-> 0]
    /\ bytes = [t \in Tenants |-> 0]
    /\ queries = [t \in Tenants |-> 0]
    /\ blind = [t \in Tenants |-> 0]
    /\ excess = [t \in Tenants |-> 0]
    /\ taken = 0
    /\ faults = 0

-----------------------------------------------------------------------------
(* tenant.bind and the middleware: the context variable, for as long as    *)
(* the handler runs.                                                       *)

Bind(s, t) ==
    /\ taken < MaxWork
    /\ taken' = taken + 1
    /\ pc[s] = "idle"
    /\ pc' = [pc EXCEPT ![s] = "bound"]
    /\ ctx' = [ctx EXCEPT ![s] = t]
    /\ origin' = [origin EXCEPT ![s] = t]
    /\ \E w \in Work : work' = [work EXCEPT ![s] = w]
    /\ UNCHANGED <<conn, passed, inserted, session, usage, faults>>

(* TenantMiddleware: a path that is excluded runs without a tenant.  A     *)
(* missing or malformed header is answered with 401.                       *)
Request(s) ==
    /\ \E t \in Tenants \cup {NoTenant} : Bind(s, t)
    /\ UNCHANGED queue

(* Version, tenant id and payload pass the validators of Envelope. *)
Valid(e) == e # Invalid

(* wrap() validates what it builds and raises otherwise. *)
Wrappable(t) == t \in Tenants

(* enqueue() by a handler, for the tenant of its context. *)
Enqueue(s) ==
    /\ pc[s] = "bound"
    /\ Wrappable(ctx[s])
    /\ queue' = queue \cup {ctx[s]}
    /\ UNCHANGED <<pc, conn, request, session, usage, taken, faults>>

(* Another producer's envelope. *)
Foreign ==
    /\ taken < MaxWork
    /\ taken' = taken + 1
    /\ queue' = queue \cup {Invalid}
    /\ UNCHANGED <<pc, conn, request, session, usage, faults>>

(* tenant_middleware: a valid envelope's tenant is bound.  The queue may   *)
(* deliver a job again, also after it has succeeded.                       *)
Job(s) ==
    /\ \E e \in queue :
         /\ Valid(e)
         /\ Bind(s, e)
         /\ queue' \in {queue, queue \ {e}}

(* An invalid envelope raises; the queue drops it after its last try. *)
JobRefused ==
    /\ \E e \in queue : ~ Valid(e) /\ queue' = queue \ {e}
    /\ UNCHANGED <<pc, conn, request, session, usage, taken, faults>>

-----------------------------------------------------------------------------
Idle == {c \in Conns : \A p \in Tasks : conn[p] # c}

Acquire(p) ==
    /\ pc[p] \in {"bound", "sleep"}
    /\ \E c \in Idle : conn' = [conn EXCEPT ![p] = c]
    /\ pc' = [pc EXCEPT ![p] = "conn"]
    /\ UNCHANGED <<request, session, queue, usage, taken, faults>>

Begin(s) ==
    /\ s \in Slots
    /\ pc[s] = "conn"
    /\ ~ lost[conn[s]]
    /\ pc' = [pc EXCEPT ![s] = "tx"]
    /\ UNCHANGED <<conn, request, session, queue, usage, taken, faults>>

(* tenant.require *)
HasTenant(s) == ctx[s] # NoTenant

(* set_rls and set_rls_conn: only inside a transaction and with a tenant. *)
SetRls(s) ==
    /\ pc[s] = "tx"
    /\ ~ lost[conn[s]]
    /\ HasTenant(s)
    /\ guc' = [guc EXCEPT ![conn[s]] = ctx[s]]
    /\ pc' = [pc EXCEPT ![s] = "rls"]
    /\ UNCHANGED <<conn, request, role, bus, lost, lock, queue, usage, taken, faults>>

(* The rows of which tenants a statement on c sees. *)
Visible(c) ==
    IF role[c] = "omur_app" THEN {t \in Tenants : guc[c] = t} ELSE Tenants

Upload(s) == work[s] # Query

(* What COUNT and SUM return on c: row level security keeps them to the    *)
(* tenant that is set, without it they run over the rows of all.           *)
Counted(f, c) ==
    IF role[c] = "omur_app" THEN f[guc[c]] ELSE Fns!FoldFunction(+, 0, f)

AllowedOneMore(s, d, b, q) ==
    IF Upload(s)
    THEN d + 1 <= DocsLimit + 1 /\ b + work[s] <= StorageLimit
    ELSE q <= QueryLimit

(* check_upload and check_query on what load and get_usage have read. *)
Allowed(s, d, b, q) ==
    IF Upload(s)
    THEN d + 1 <= DocsLimit /\ b + work[s] <= StorageLimit
    ELSE q + 1 <= QueryLimit

Check(s) ==
    /\ pc[s] = "rls"
    /\ ~ lost[conn[s]]
    /\ ~ passed[s] /\ ~ inserted[s]
    /\ LET c == conn[s]
           unread == [blind EXCEPT ![guc[c]] = @ + 1]
       IN
         \/ /\ Allowed(s, Counted(docs, c), Counted(bytes, c), Counted(queries, c))
            /\ blind' = IF role[c] = "omur_app" THEN blind ELSE unread
            /\ UNCHANGED faults
         \/ /\ faults < MaxFaults      \* the savepoint around usage_log fails
            /\ faults' = faults + 1
            /\ ~ Upload(s)
            /\ Allowed(s, 0, 0, 0)
            /\ blind' = unread
    /\ passed' = [passed EXCEPT ![s] = TRUE]
    /\ UNCHANGED <<pc, conn, ctx, origin, work, inserted, session, queue,
                   docs, bytes, queries, excess, taken>>

(* The handler stores the document, or calls record_usage, whether or not  *)
(* it has checked.  Several rows are several transactions here.            *)
Insert(s) ==
    /\ pc[s] = "rls"
    /\ ~ lost[conn[s]]
    /\ ~ inserted[s]
    /\ passed[s] \/ excess[origin[s]] < MaxExcess
    /\ inserted' = [inserted EXCEPT ![s] = TRUE]
    /\ UNCHANGED <<pc, conn, ctx, origin, work, passed, session, queue, usage,
                   taken, faults>>

GucKept(c) == guc

(* set_config(..., true): the setting ends with the transaction. *)
GucAfter(c) == [guc EXCEPT ![c] = NoTenant]

Add(f, s, n) == [f EXCEPT ![guc[conn[s]]] = @ + n]

Commit(s) ==
    /\ pc[s] \in {"tx", "rls"}
    /\ ~ lost[conn[s]]
    /\ IF inserted[s]
       THEN IF Upload(s)
            THEN /\ docs' = Add(docs, s, 1)
                 /\ bytes' = Add(bytes, s, work[s])
                 /\ UNCHANGED queries
            ELSE queries' = Add(queries, s, 1) /\ UNCHANGED <<docs, bytes>>
       ELSE UNCHANGED <<docs, bytes, queries>>
    /\ excess' = IF inserted[s] /\ ~ passed[s] THEN Add(excess, s, 1) ELSE excess
    /\ passed' = [passed EXCEPT ![s] = @ /\ ~ inserted[s]]
    /\ inserted' = [inserted EXCEPT ![s] = FALSE]
    /\ guc' = GucAfter(conn[s])
    /\ pc' = [pc EXCEPT ![s] = "conn"]
    /\ UNCHANGED <<conn, ctx, origin, work, role, bus, lost, lock, queue, blind,
                   taken, faults>>

(* The pool takes c back; a dead connection is replaced by a new one.  The *)
(* reset of a living one (RESET ALL) leaves its role as it is.             *)
Reset(c) ==
    /\ guc' = IF lost[c] THEN [guc EXCEPT ![c] = NoTenant] ELSE GucAfter(c)
    /\ role' = IF lost[c] THEN [role EXCEPT ![c] = ConnectedAs] ELSE role
    /\ bus' = IF lost[c] THEN [bus EXCEPT ![c] = FALSE] ELSE bus
    /\ lost' = [lost EXCEPT ![c] = FALSE]
    /\ lock' = IF lock = c THEN NoConn ELSE lock

Release(s) ==
    /\ s \in Slots
    /\ pc[s] = "conn"
    /\ Reset(conn[s])
    /\ conn' = [conn EXCEPT ![s] = NoConn]
    /\ pc' = [pc EXCEPT ![s] = "bound"]
    /\ UNCHANGED <<request, queue, usage, taken, faults>>

(* The handler returns, or raises at any point: the transaction rolls      *)
(* back, the connection goes back, the context variable is reset.          *)
Leave(s) ==
    /\ s \in Slots
    /\ pc[s] # "idle"
    /\ IF conn[s] = NoConn THEN UNCHANGED session ELSE Reset(conn[s])
    /\ conn' = [conn EXCEPT ![s] = NoConn]
    /\ pc' = [pc EXCEPT ![s] = "idle"]
    /\ ctx' = [ctx EXCEPT ![s] = NoTenant]
    /\ origin' = [origin EXCEPT ![s] = NoTenant]
    /\ work' = [work EXCEPT ![s] = Query]
    /\ passed' = [passed EXCEPT ![s] = FALSE]
    /\ inserted' = [inserted EXCEPT ![s] = FALSE]
    /\ UNCHANGED <<queue, usage, taken, faults>>

-----------------------------------------------------------------------------
GotAnyway(c) == TRUE

(* pg_try_advisory_lock: a session may take its own lock again. *)
Got(c) == lock \in {NoConn, c}

(* Loop._tick: the task runs only with the lock. *)
TryLock(l) ==
    /\ l \in Loops
    /\ pc[l] = "conn"
    /\ ~ lost[conn[l]]
    /\ Got(conn[l])
    /\ lock' = conn[l]
    /\ pc' = [pc EXCEPT ![l] = "clean"]
    /\ UNCHANGED <<conn, request, guc, role, bus, lost, queue, usage, taken, faults>>

(* The end of _tick: no lock, or the task has returned or raised and the   *)
(* lock is given back, by pg_advisory_unlock or by the pool's reset.       *)
EndTick(l) ==
    /\ l \in Loops
    /\ \/ pc[l] = "clean"
       \/ pc[l] = "conn" /\ (lost[conn[l]] \/ ~ Got(conn[l]))
    /\ Reset(conn[l])
    /\ conn' = [conn EXCEPT ![l] = NoConn]
    /\ pc' = [pc EXCEPT ![l] = "sleep"]
    /\ UNCHANGED <<request, queue, usage, taken, faults>>

(* The server ends a session: its transaction and its locks are gone, and  *)
(* the task that has it checked out finds out at its next statement.       *)
SessionDies(c) ==
    /\ faults < MaxFaults
    /\ faults' = faults + 1
    /\ c \notin Idle
    /\ ~ lost[c]
    /\ lost' = [lost EXCEPT ![c] = TRUE]
    /\ guc' = [guc EXCEPT ![c] = NoTenant]
    /\ lock' = IF lock = c THEN NoConn ELSE lock
    /\ UNCHANGED <<pc, conn, request, role, bus, queue, usage, taken>>

(* publish, subscribe and _poll_once of a PostgresEventBus on the pool: a  *)
(* transaction on a free connection.  _as_bus_role resets the role with    *)
(* RESET ROLE, not SET LOCAL, so it stays reset after the commit.          *)
BusTransaction(c) ==
    /\ c \in Idle
    /\ role' = [role EXCEPT ![c] = "omur"]
    /\ bus' = [bus EXCEPT ![c] = TRUE]
    /\ UNCHANGED <<pc, conn, request, guc, lost, lock, queue, usage, taken, faults>>

Next ==
    \/ \E s \in Slots :
         \/ Request(s) \/ Job(s) \/ Enqueue(s)
         \/ Begin(s) \/ SetRls(s) \/ Check(s) \/ Insert(s) \/ Commit(s)
         \/ Release(s) \/ Leave(s)
    \/ Foreign \/ JobRefused
    \/ \E p \in Tasks : Acquire(p)
    \/ \E l \in Loops : TryLock(l) \/ EndTick(l)
    \/ \E c \in Conns : SessionDies(c) \/ BusTransaction(c)

Spec == Init /\ [][Next]_vars

-----------------------------------------------------------------------------
TypeOK ==
    /\ pc \in [Tasks -> {"idle", "bound", "conn", "tx", "rls", "sleep", "clean"}]
    /\ conn \in [Tasks -> Conns \cup {NoConn}]
    /\ ctx \in [Slots -> Tenants \cup {NoTenant}]
    /\ origin \in [Slots -> Tenants \cup {NoTenant}]
    /\ work \in [Slots -> Work]
    /\ passed \in [Slots -> BOOLEAN]
    /\ inserted \in [Slots -> BOOLEAN]
    /\ guc \in [Conns -> Tenants \cup {NoTenant}]
    /\ role \in [Conns -> {"omur", "omur_app"}]
    /\ bus \in [Conns -> BOOLEAN]
    /\ lost \in [Conns -> BOOLEAN]
    /\ lock \in Conns \cup {NoConn}
    /\ queue \subseteq Envelope
    /\ docs \in [Tenants -> Nat] /\ bytes \in [Tenants -> Int]
    /\ queries \in [Tenants -> Nat] /\ blind \in [Tenants -> Nat]
    /\ excess \in [Tenants -> Nat]
    /\ taken \in Nat /\ faults \in Nat

(* In a pool with the role omur_app, on a session the event bus has not    *)
(* used: whatever requests, jobs and loops had the connection before and   *)
(* however they ended, the statements of a request or job see rows of its  *)
(* own tenant only, and none before set_rls.  On a session the bus has     *)
(* used, or in a pool without the role, row level security does not apply. *)
SeesOwnRowsOnly ==
    \A s \in Slots :
        PoolRole = "omur_app" /\ pc[s] \in {"conn", "tx", "rls"} /\ ~ bus[conn[s]]
            => Visible(conn[s]) \subseteq {origin[s]}

InHand(t, uploads) ==
    Cardinality({s \in Slots : passed[s] /\ origin[s] = t /\ Upload(s) = uploads})

Largest == CHOOSE n \in Sizes : \A m \in Sizes : m <= n

(* Check and use are apart, so concurrent requests can pass a limit, but   *)
(* only by one for every other slot, for every check that did not count    *)
(* the tenant's rows (usage_log unreadable, no row level security) and for *)
(* every row stored without a check, uploads of negative size included.    *)
OvershootBounded ==
    \A t \in Tenants :
        LET slack == Cardinality(Slots) - 1 + blind[t] + excess[t]
        IN  /\ docs[t] + InHand(t, TRUE) <= DocsLimit + slack
            /\ bytes[t] <= StorageLimit + slack * Largest
            /\ queries[t] + InHand(t, FALSE) <= QueryLimit + slack

(* Two replicas run the clean-up task together only if one of them has     *)
(* lost the session that held its lock.                                    *)
OneCleaner ==
    \A k, l \in Loops :
        pc[k] = "clean" /\ pc[l] = "clean" /\ ~ lost[conn[k]] /\ ~ lost[conn[l]]
            => k = l
=============================================================================
