--------------------------- MODULE FeatureFlags ---------------------------
(***************************************************************************)
(* omkit/featureflags: a PostgresStore that caches the flag rows of        *)
(* app_settings for ttl seconds, the refreshes and invalidations that      *)
(* share its lock, and allowed(), which compares a flag with the roles of  *)
(* the caller (omkit/auth/roles.py).                                       *)
(***************************************************************************)
EXTENDS AppSettings, FiniteSets

CONSTANTS
    Malformed,      \* a value that is no flag
    KnownRoles,     \* values of Role
    GroupRole,      \* _GROUP_TO_ROLES, with no role for unknown groups
    Ttl,            \* ttl, in ticks
    MaxRefreshes    \* bound: refresh tasks waiting at the same time

ASSUME FlagsAssumption ==
    /\ Malformed \in Values
    /\ \A v \in Values \ {Malformed} :
         v.enabled \in BOOLEAN /\ IsFiniteSet(v.roles)
    /\ Ttl \in Nat /\ MaxRefreshes \in Nat

Flag == [enabled : BOOLEAN, roles : SUBSET KnownRoles]

Unknown == [enabled |-> FALSE, roles |-> {}, unknown |-> TRUE]

VARIABLES
    flags,      \* _flags; Unknown: no entry
    age,        \* ticks since _last_refreshed, counted up to Ttl + 1
    lock,       \* what the holder of _refresh_lock does: "free", "reading"
                \* the table, or "read": about to publish the new map
    waiting,    \* refresh tasks that wait for the lock
    fresh,      \* map read by the holder of the lock
    held        \* history: held[k], rows of k since it was last invalidated

flagVars == <<flags, age, lock, waiting, fresh, held>>

(* parse_from_json: anything that is not a flag grants nothing.  Unknown   *)
(* roles are dropped and the others still grant, as a test of it says; its *)
(* docstring speaks of a disabled flag.                                    *)
Parse(v) ==
    IF v = NoValue THEN Unknown
    ELSE IF v = Malformed THEN [enabled |-> FALSE, roles |-> {}]
    ELSE [enabled |-> v.enabled, roles |-> v.roles \cap KnownRoles]

NoFlags == [k \in Keys |-> Unknown]

FlagsInit ==
    /\ flags = NoFlags
    /\ age = Ttl + 1
    /\ lock = "free"
    /\ waiting = 0
    /\ fresh = NoFlags
    /\ held = [k \in Keys |-> {table[k].val}]

-----------------------------------------------------------------------------
Stale == age > Ttl

(* get and all_flags of a stale map start a refresh in the background, and *)
(* so may anybody who calls refresh().                                     *)
Get ==
    /\ Stale
    /\ waiting < MaxRefreshes
    /\ waiting' = waiting + 1
    /\ UNCHANGED <<flags, age, lock, fresh, held>>

RefreshCall ==
    /\ ~ Stale
    /\ waiting < MaxRefreshes
    /\ waiting' = waiting + 1
    /\ UNCHANGED <<flags, age, lock, fresh, held>>

(* refresh(): every task that waited reads the table again. *)
RefreshLocked ==
    /\ lock = "free"
    /\ waiting > 0
    /\ lock' = "reading"
    /\ waiting' = waiting - 1
    /\ UNCHANGED <<flags, age, fresh, held>>

RefreshReads ==
    /\ lock = "reading"
    /\ fresh' = [k \in Keys |-> Parse(table[k].val)]
    /\ lock' = "read"
    /\ UNCHANGED <<flags, age, waiting, held>>

RefreshFails ==
    /\ lock \in {"reading", "read"}
    /\ lock' = "free"
    /\ fresh' = NoFlags
    /\ UNCHANGED <<flags, age, waiting, held>>

RefreshDone ==
    /\ lock = "read"
    /\ flags' = fresh
    /\ fresh' = NoFlags
    /\ age' = 0
    /\ lock' = "free"
    /\ UNCHANGED <<waiting, held>>

LockIgnored == TRUE

LockFree == lock = "free"

Invalidate(k) ==
    /\ LockFree
    /\ flags' = [flags EXCEPT ![k] = Unknown]
    /\ held' = [held EXCEPT ![k] = {table[k].val}]
    /\ UNCHANGED <<age, lock, waiting, fresh>>

Tick ==
    /\ ~ Stale
    /\ age' = age + 1
    /\ UNCHANGED <<flags, lock, waiting, fresh, held>>

(* What a change of the table, already made, adds to the history. *)
Remembered(k) ==
    /\ held' = [held EXCEPT ![k] = @ \cup {table'[k].val}]
    /\ UNCHANGED <<flags, age, lock, waiting, fresh>>

FlagsNext ==
    \/ Get \/ RefreshCall \/ RefreshLocked \/ RefreshReads \/ RefreshFails
    \/ RefreshDone \/ Tick
    \/ \E k \in Keys : Invalidate(k)

-----------------------------------------------------------------------------
FlagsTypeOK ==
    /\ flags \in [Keys -> Flag \cup {Unknown}]
    /\ age \in 0 .. Ttl + 1
    /\ lock \in {"free", "reading", "read"}
    /\ waiting \in 0 .. MaxRefreshes
    /\ fresh \in [Keys -> Flag \cup {Unknown}]
    /\ held \in [Keys -> SUBSET (Values \cup {NoValue})]

Groups == DOMAIN GroupRole

(* roles_from_groups *)
RolesOf(groups) == UNION {GroupRole[g] : g \in groups}

(* allowed(store, k) for a caller with these roles. *)
Allowed(k, roles) ==
    /\ flags[k] # Unknown
    /\ flags[k].enabled
    /\ roles \cap flags[k].roles # {}

Grants(v, role) ==
    v \notin {NoValue, Malformed} /\ v.enabled /\ role \in v.roles

(* A caller is let in only by a row that the table has held since the flag *)
(* was last invalidated: no refresh brings an older one back, and what is  *)
(* unknown, malformed or disabled lets nobody in.                          *)
GrantsAreCurrent ==
    \A k \in Keys, groups \in SUBSET Groups :
        Allowed(k, RolesOf(groups)) =>
            \E v \in held[k], role \in RolesOf(groups) : Grants(v, role)
=============================================================================
