--------------------------- MODULE SessionStore ---------------------------
(***************************************************************************)
(* omkit/sessions.py: PostgresSessionStore and RedisSessionStore under     *)
(* clients that put, delete and list sessions at the same time.            *)
(*                                                                         *)
(* The clock is finer than a second, the unit of SETEX: PerSecond ticks    *)
(* make one.  The Redis store turns expires_at into whole seconds to live  *)
(* before the command is sent, so the server counts them from a later      *)
(* moment, at most Latency ticks later.                                    *)
(***************************************************************************)
EXTENDS Naturals

CONSTANTS
    Backends,   \* "postgres", "redis": what SESSION_BACKEND may say
    Clients,    \* tasks that use the store
    Tokens,
    Tenants,
    AnyTenant,  \* tenant_id=None
    Expiries,   \* the values of expires_at, in ticks
    PerSecond,  \* ticks of the clock in a second
    Latency,    \* longest way of a command to the server, in ticks
    MaxRepeats, \* bound: times list() appends the same session
    MaxTime     \* bound: ticks of the clock

ASSUME StoreAssumption ==
    /\ Backends \subseteq {"postgres", "redis"}
    /\ AnyTenant \notin Tenants
    /\ Expiries \subseteq Nat
    /\ Latency \in Nat /\ MaxTime \in Nat /\ PerSecond \in Nat \ {0}

(* A stored session: its tenant, its expires_at, the moment from which the *)
(* server no longer shows it, and the moment of the put.                   *)
Session == [tenant : Tenants, expires : Nat, until : Nat, sent : Nat]

Missing == [tenant |-> AnyTenant, expires |-> 0, until |-> 0, sent |-> 0]

VARIABLES
    backend,
    now,
    store,      \* store[t]: what the server holds under token t
    doing,      \* doing[p]: "idle", "put" on its way, "list", or "listed"
    arg,        \* arg[p]: token and session of the put on its way, or Missing
    tenant,     \* tenant[p]: tenant whose sessions p lists
    shown,      \* shown[p]: keys the SCAN of p has returned
    out,        \* out[p][t]: times the session of t is in the list
    must,       \* history: tokens that list() has to return
    may         \* history: tokens that list() may return

listing   == <<tenant, shown, out, must, may>>
storeVars == <<backend, now, store, doing, arg, listing>>

StoreInit ==
    /\ backend \in Backends
    /\ now = 0
    /\ store = [t \in Tokens |-> Missing]
    /\ doing = [p \in Clients |-> "idle"]
    /\ arg = [p \in Clients |-> Missing]
    /\ tenant = [p \in Clients |-> AnyTenant]
    /\ shown = [p \in Clients |-> {}]
    /\ out = [p \in Clients |-> [t \in Tokens |-> 0]]
    /\ must = [p \in Clients |-> {}]
    /\ may = [p \in Clients |-> {}]

-----------------------------------------------------------------------------
(* Postgres compares expires_at with now(); Redis forgets a key by itself. *)
Live(s, at) == s # Missing /\ at < s.until

(* get(t, tenant_id = x) returns a session; Redis takes no notice of x. *)
Found(t, x) ==
    /\ Live(store[t], now)
    /\ backend = "postgres" /\ x # AnyTenant => store[t].tenant = x

(* What list(x) returns at once, or shows when it asks for the key. *)
Listed(t, x) == Live(store[t], now) /\ store[t].tenant = x

Belongs(s, at, x) == Live(s, at) /\ s.tenant = x

(* The sessions of tenant[p] in store' at now' have to be listed if they   *)
(* have been there all the time, and may be listed if they are there now.  *)
Observe ==
    /\ must' = [p \in Clients |->
         {t \in must[p] : Belongs(store'[t], now', tenant[p])}]
    /\ may' = [p \in Clients |->
         IF doing[p] = "list"
         THEN may[p] \cup {t \in Tokens : Belongs(store'[t], now', tenant[p])}
         ELSE may[p]]

WholeSecondsUp(e) == IF e > now THEN (e - now) \div PerSecond + 1 ELSE 0

(* int() of the seconds left: the part of a second is cut off. *)
WholeSeconds(e) == IF e > now THEN (e - now) \div PerSecond ELSE 0

(* The time to live in ticks: whole seconds, and at least one. *)
TimeToLive(e) == PerSecond * (IF WholeSeconds(e) < 1 THEN 1 ELSE WholeSeconds(e))

(* put(): the client's half.  sent + ttl is the moment at which a server   *)
(* that got the command at once would forget the session.                  *)
Put(p, t, x, e) ==
    /\ doing[p] = "idle"
    /\ doing' = [doing EXCEPT ![p] = "put"]
    /\ arg' = [arg EXCEPT ![p] =
         [token |-> t,
          session |-> [tenant |-> x, expires |-> e, sent |-> now,
                       until |-> IF backend = "redis"
                                 THEN now + TimeToLive(e) ELSE e]]]
    /\ UNCHANGED <<backend, now, store, listing>>

(* SETEX replaces what is there and counts from now; the upsert replaces   *)
(* payload and expires_at and leaves the tenant, also of an expired row.   *)
Stored(old, s) ==
    IF backend = "redis" THEN [s EXCEPT !.until = @ + (now - s.sent)]
    ELSE IF old = Missing THEN s
    ELSE [s EXCEPT !.tenant = old.tenant]

PutArrives(p) ==
    /\ doing[p] = "put"
    /\ LET t == arg[p].token
       IN  store' = [store EXCEPT ![t] = Stored(@, arg[p].session)]
    /\ doing' = [doing EXCEPT ![p] = "idle"]
    /\ arg' = [arg EXCEPT ![p] = Missing]
    /\ UNCHANGED <<backend, now, tenant, shown, out>>
    /\ Observe

(* delete(t, tenant_id = x) *)
Delete(p, t, x) ==
    /\ doing[p] = "idle"
    /\ store[t] # Missing
    /\ backend = "postgres" => x \in {AnyTenant, store[t].tenant}
    /\ store' = [store EXCEPT ![t] = Missing]
    /\ UNCHANGED <<backend, now, doing, arg, tenant, shown, out>>
    /\ Observe

-----------------------------------------------------------------------------
(* list(x): one SELECT, or a SCAN that gets the keys one by one. *)
List(p, x) ==
    LET listed == {t \in Tokens : Listed(t, x)} IN
    /\ doing[p] = "idle"
    /\ doing' = [doing EXCEPT ![p] = IF backend = "redis" THEN "list" ELSE "listed"]
    /\ tenant' = [tenant EXCEPT ![p] = x]
    /\ out' = [out EXCEPT ![p] =
         [t \in Tokens |-> IF backend # "redis" /\ t \in listed THEN 1 ELSE 0]]
    /\ must' = [must EXCEPT ![p] = listed]
    /\ may' = [may EXCEPT ![p] = listed]
    /\ UNCHANGED <<backend, now, store, arg, shown>>

EndsOnMissing(p, t) == ~ Live(store[t], now)

EndsOn(p, t) == FALSE

(* SCAN shows a key, perhaps not for the first time; by the time of the    *)
(* GET it may be gone.                                                     *)
ScanGet(p, t) ==
    /\ doing[p] = "list"
    /\ out[p][t] < MaxRepeats
    /\ shown' = [shown EXCEPT ![p] = @ \cup {t}]
    /\ out' = [out EXCEPT ![p][t] = IF Listed(t, tenant[p]) THEN @ + 1 ELSE @]
    /\ doing' = [doing EXCEPT ![p] = IF EndsOn(p, t) THEN "listed" ELSE @]
    /\ UNCHANGED <<backend, now, store, arg, tenant, must, may>>

(* SCAN is complete: it has shown every key that was there all the time. *)
ScanEnds(p) ==
    /\ doing[p] = "list"
    /\ must[p] \subseteq shown[p]
    /\ doing' = [doing EXCEPT ![p] = "listed"]
    /\ UNCHANGED <<backend, now, store, arg, listing>>

ListReturns(p) ==
    /\ doing[p] = "listed"
    /\ doing' = [doing EXCEPT ![p] = "idle"]
    /\ tenant' = [tenant EXCEPT ![p] = AnyTenant]
    /\ shown' = [shown EXCEPT ![p] = {}]
    /\ out' = [out EXCEPT ![p] = [t \in Tokens |-> 0]]
    /\ must' = [must EXCEPT ![p] = {}]
    /\ may' = [may EXCEPT ![p] = {}]
    /\ UNCHANGED <<backend, now, store, arg>>

(* A put reaches the server within Latency ticks, or fails. *)
PutFails(p) ==
    /\ doing[p] = "put"
    /\ doing' = [doing EXCEPT ![p] = "idle"]
    /\ arg' = [arg EXCEPT ![p] = Missing]
    /\ UNCHANGED <<backend, now, store, listing>>

ClockMoves ==
    /\ now < MaxTime
    /\ \A p \in Clients : doing[p] = "put" => now < arg[p].session.sent + Latency
    /\ now' = now + 1
    /\ UNCHANGED <<backend, store, doing, arg, tenant, shown, out>>
    /\ Observe

StoreNext ==
    \/ ClockMoves
    \/ \E p \in Clients, t \in Tokens :
         \/ \E x \in Tenants, e \in Expiries : Put(p, t, x, e)
         \/ \E x \in Tenants \cup {AnyTenant} : Delete(p, t, x)
         \/ ScanGet(p, t)
    \/ \E p \in Clients :
         \/ PutArrives(p) \/ PutFails(p) \/ ScanEnds(p) \/ ListReturns(p)
         \/ \E x \in Tenants : List(p, x)

StoreSpec == StoreInit /\ [][StoreNext]_storeVars

-----------------------------------------------------------------------------
StoreTypeOK ==
    /\ backend \in Backends
    /\ now \in Nat
    /\ store \in [Tokens -> Session \cup {Missing}]
    /\ doing \in [Clients -> {"idle", "put", "list", "listed"}]
    /\ arg \in [Clients -> [token : Tokens, session : Session] \cup {Missing}]
    /\ tenant \in [Clients -> Tenants \cup {AnyTenant}]
    /\ {shown, must, may} \subseteq [Clients -> SUBSET Tokens]
    /\ out \in [Clients -> [Tokens -> Nat]]

(* A session is not served after its expires_at.  Redis may serve it for   *)
(* the time its put was on the way, and one that was put with less than a  *)
(* second left, or after its end, until a second after the put.            *)
NotServedLate ==
    \A t \in Tokens, x \in Tenants \cup {AnyTenant} :
        Found(t, x) =>
            \/ now < store[t].expires
            \/ /\ backend = "redis"
               /\ \/ now < store[t].expires + Latency
                  \/ /\ store[t].expires < store[t].sent + PerSecond
                     /\ now < store[t].sent + PerSecond + Latency

Returned(p) == {t \in Tokens : out[p][t] > 0}

(* list() returns every session of the tenant that was there all the time, *)
(* and none that never was, though puts, deletes and expiry go on during   *)
(* the scan.  The list of the Redis store may hold a session twice.        *)
ListIsFaithful ==
    \A p \in Clients :
        /\ doing[p] = "listed" => must[p] \subseteq Returned(p)
        /\ Returned(p) \subseteq may[p]
=============================================================================
