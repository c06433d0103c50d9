---------------------------- MODULE OpenBaoKMS ----------------------------
(***************************************************************************)
(* omkit/kms/openbao.py: the calls of concurrent tasks to one OpenBaoKMS,  *)
(* which share a cached AppRole token behind an asyncio.Lock.  A call is   *)
(* wrap, unwrap, current_version, wrap_dek, unwrap_dek or                  *)
(* delete_user_keys: each is one _do, with what it encrypts left out.      *)
(*                                                                         *)
(* The server counts the lease of a token from the moment it issues it,    *)
(* the client from the moment the reply arrives.  A round trip may take    *)
(* any time: the timeout of httpx is one for each phase of a request, and  *)
(* the client may be one the caller has made.                              *)
(***************************************************************************)
EXTENDS Naturals

CONSTANTS
    Callers,        \* tasks
    NoCaller,       \* owner of the lock when nobody holds it
    Leases,         \* lease_duration the server may grant; 0: it never ends
    DefaultLease,   \* lease assumed when the server names none
    Window,         \* _TOKEN_REFRESH_WINDOW_S
    MaxTokens,      \* bound: tokens the server issues
    MaxTime         \* bound: ticks of the clock

ASSUME KmsAssumption ==
    /\ NoCaller \notin Callers
    /\ {DefaultLease, Window, MaxTokens, MaxTime} \subseteq Nat
    /\ Leases \subseteq Nat

Token == 1 .. MaxTokens

None == 0

VARIABLES
    now,        \* time.monotonic
    issued,     \* server: tokens 1 .. issued exist
    born,       \* server: born[t], when t was issued
    lease,      \* server: lease[t]
    delay,      \* history: delay[t], the time the login reply with t took
    token,      \* _token
    expiry,     \* _token_expiry
    lock,       \* owner of _token_lock
    pc,         \* pc[c]: "idle", "want" a token, "login" sent, "issued" (login
                \* answered, reply on its way), "call" sent, or "drop" the token
    tok,        \* tok[c]: the token in the hands of c
    refused,    \* refused[c]: the token of c that got a 403, or None
    since       \* since[c]: when c has sent its request

server == <<issued, born, lease>>
cached == <<token, expiry>>
vars   == <<now, server, delay, cached, lock, pc, tok, refused, since>>

Init ==
    /\ now = 0
    /\ issued = 0
    /\ born = [t \in Token |-> 0]
    /\ lease = [t \in Token |-> 0]
    /\ delay = [t \in Token |-> 0]
    /\ token = None
    /\ expiry = 0
    /\ lock = NoCaller
    /\ pc = [c \in Callers |-> "idle"]
    /\ tok = [c \in Callers |-> None]
    /\ refused = [c \in Callers |-> None]
    /\ since = [c \in Callers |-> 0]

-----------------------------------------------------------------------------
(* A task calls one of the six operations. *)
Call(c) ==
    /\ pc[c] = "idle"
    /\ pc' = [pc EXCEPT ![c] = "want"]
    /\ UNCHANGED <<now, server, delay, cached, lock, tok, refused, since>>

(* The call ends: its locals are gone. *)
Leave(c) ==
    /\ pc' = [pc EXCEPT ![c] = "idle"]
    /\ tok' = [tok EXCEPT ![c] = None]
    /\ refused' = [refused EXCEPT ![c] = None]
    /\ since' = [since EXCEPT ![c] = 0]

FreshToTheEnd == token # None /\ expiry > now

Fresh == token # None /\ expiry > now + Window

FreeIgnored(c) == TRUE

Free(c) == lock = NoCaller

(* _get_token: the cached token, and the request goes out at once, or a    *)
(* login under the lock.                                                   *)
GetToken(c) ==
    /\ pc[c] = "want"
    /\ Free(c)
    /\ IF Fresh
       THEN /\ tok' = [tok EXCEPT ![c] = token]
            /\ since' = [since EXCEPT ![c] = now]
            /\ pc' = [pc EXCEPT ![c] = "call"]
            /\ UNCHANGED lock
       ELSE /\ lock' = c
            /\ pc' = [pc EXCEPT ![c] = "login"]
            /\ UNCHANGED <<tok, since>>
    /\ UNCHANGED <<now, server, delay, cached, refused>>

(* The server answers a login. *)
Issue(c) ==
    /\ pc[c] = "login"
    /\ issued < MaxTokens
    /\ issued' = issued + 1
    /\ born' = [born EXCEPT ![issued'] = now]
    /\ \E l \in Leases : lease' = [lease EXCEPT ![issued'] = l]
    /\ tok' = [tok EXCEPT ![c] = issued']
    /\ pc' = [pc EXCEPT ![c] = "issued"]
    /\ UNCHANGED <<now, delay, cached, lock, refused, since>>

CachedLease(l) == IF l = 0 THEN DefaultLease ELSE l

(* The end of _login_locked: the token is cached, and c goes on to its     *)
(* request with it.                                                        *)
Login(c) ==
    /\ pc[c] = "issued"
    /\ token' = tok[c]
    /\ expiry' = now + CachedLease(lease[tok[c]])
    /\ delay' = [delay EXCEPT ![tok[c]] = now - born[tok[c]]]
    /\ lock' = NoCaller
    /\ pc' = [pc EXCEPT ![c] = "call"]
    /\ since' = [since EXCEPT ![c] = now]
    /\ UNCHANGED <<now, server, tok, refused>>

Answered(c) ==
    /\ pc[c] = "call"
    /\ Leave(c)
    /\ UNCHANGED <<now, server, delay, cached, lock>>

(* A 403, for a revoked token or by policy: the first one of a call is     *)
(* retried with another token, the second is the caller's error.           *)
Forbidden(c) ==
    /\ pc[c] = "call"
    /\ IF refused[c] = None
       THEN /\ pc' = [pc EXCEPT ![c] = "drop"]
            /\ refused' = [refused EXCEPT ![c] = tok[c]]
            /\ tok' = [tok EXCEPT ![c] = None]
            /\ since' = [since EXCEPT ![c] = 0]
       ELSE Leave(c)
    /\ UNCHANGED <<now, server, delay, cached, lock>>

KeptToken == token

DroppedToken == None

DropToken(c) ==
    /\ pc[c] = "drop"
    /\ Free(c)
    /\ token' = DroppedToken
    /\ pc' = [pc EXCEPT ![c] = "want"]
    /\ UNCHANGED <<now, server, delay, expiry, lock, tok, refused, since>>

ReleasedByReply(c) == lock

Released(c) == IF lock = c THEN NoCaller ELSE lock

(* The call raises: no connection, a timeout, another status, a malformed  *)
(* reply, or its task is cancelled at an await.                            *)
Raise(c) ==
    /\ pc[c] # "idle"
    /\ lock' = Released(c)
    /\ Leave(c)
    /\ UNCHANGED <<now, server, delay, cached>>

InFlight(c) == pc[c] \in {"login", "issued", "call"}

Tick ==
    /\ now < MaxTime
    /\ now' = now + 1
    /\ UNCHANGED <<server, delay, cached, lock, pc, tok, refused, since>>

Next ==
    \/ Tick
    \/ \E c \in Callers :
         \/ Call(c) \/ GetToken(c) \/ Issue(c) \/ Login(c)
         \/ Answered(c) \/ Forbidden(c) \/ DropToken(c) \/ Raise(c)

Spec == Init /\ [][Next]_vars

(***************************************************************************)
(* Every round trip ends at some time, with an answer or an error of the   *)
(* client.  asyncio.Lock serves its waiters in order, so a waiting task    *)
(* gets it in the end.                                                     *)
(***************************************************************************)
Fairness ==
    \A c \in Callers :
        /\ SF_vars(GetToken(c))
        /\ SF_vars(DropToken(c))
        /\ WF_vars(InFlight(c) /\ (Login(c) \/ Answered(c) \/ Raise(c)))

FairSpec == Spec /\ Fairness

-----------------------------------------------------------------------------
TypeOK ==
    /\ now \in Nat
    /\ issued \in 0 .. MaxTokens
    /\ born \in [Token -> Nat]
    /\ lease \in [Token -> Nat]
    /\ delay \in [Token -> Nat]
    /\ token \in 0 .. issued
    /\ expiry \in Nat
    /\ lock \in Callers \cup {NoCaller}
    /\ pc \in [Callers -> {"idle", "want", "login", "issued", "call", "drop"}]
    /\ tok \in [Callers -> 0 .. issued]
    /\ refused \in [Callers -> 0 .. issued]
    /\ since \in [Callers -> Nat]

Alive(t) == lease[t] = 0 \/ now < born[t] + lease[t]

(* How much less of its lease the token of c has than the client thinks:   *)
(* the way of the login reply, and the way of the request so far.          *)
Lag(c) == delay[tok[c]] + (now - since[c])

(* The refresh window covers the time a login reply and a request are on   *)
(* their way.  As long as the two together take no longer than the window, *)
(* and less than the lease itself, a request carries a token whose lease   *)
(* has not ended, however long the token was cached and whoever got it.    *)
SentTokenAlive ==
    \A c \in Callers : pc[c] = "call" =>
        /\ tok[c] # None
        /\ Lag(c) <= Window /\ Lag(c) < lease[tok[c]] => Alive(tok[c])

(* A login is under way only while the cache holds no token good for the   *)
(* window: the callers that waited for the lock take the token of the      *)
(* login before them.  A caller refused with a 403 empties the cache, also *)
(* of a token just issued, and the login after that is a new one.          *)
LoginOnlyWhenNeeded ==
    \A c \in Callers : pc[c] \in {"login", "issued"} => ~ Fresh

(* The retry after a 403 never presents the token that was refused, however *)
(* other callers drop and renew the cached token meanwhile.                *)
RetryUsesNewToken ==
    \A c \in Callers :
        pc[c] = "call" /\ refused[c] # None => tok[c] > refused[c]

(* Every call comes back: no failure or cancellation keeps the lock. *)
CallsReturn == \A c \in Callers : pc[c] # "idle" ~> pc[c] = "idle"

(* The inductive strengthening of SentTokenAlive and RetryUsesNewToken:    *)
(* what the client's idea of the end of a lease is made of, and which      *)
(* tokens the cache can still hold.                                        *)
ExpiryKnown ==
    token # None /\ lease[token] # 0 =>
        expiry = born[token] + delay[token] + lease[token]

(* A request was sent with a token that was good for the window, or right  *)
(* after the login that got it.                                            *)
TokenInHand(c) ==
    /\ tok[c] # None
    /\ since[c] <= now
    /\ lease[tok[c]] # 0 =>
         \/ since[c] + Window < born[tok[c]] + delay[tok[c]] + lease[tok[c]]
         \/ since[c] = born[tok[c]] + delay[tok[c]]

LeasesKnown ==
    /\ ExpiryKnown
    /\ \A c \in Callers : pc[c] = "issued" => tok[c] # None /\ born[tok[c]] <= now
    /\ \A c \in Callers : pc[c] = "call" => TokenInHand(c)

LockOwner ==
    \A c \in Callers : pc[c] \in {"login", "issued"} <=> lock = c

RefusedIsGone ==
    \A c \in Callers : refused[c] # None =>
        /\ pc[c] # "idle"
        /\ pc[c] \in {"want", "login"} => token = None \/ token > refused[c]
        /\ pc[c] = "call" => tok[c] > refused[c]

NewestPending ==
    \A c \in Callers : pc[c] = "issued" =>
        /\ tok[c] = issued
        /\ token < issued /\ refused[c] < issued
        /\ \A d \in Callers \ {c} : tok[d] < issued /\ refused[d] < issued
=============================================================================
