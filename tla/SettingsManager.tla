-------------------------- MODULE SettingsManager --------------------------
(***************************************************************************)
(* omkit/settings.py: one SettingsManager over app_settings, kept fresh by *)
(* polling, by the messages of a Valkey channel, or by nothing.  The       *)
(* writers of the table publish a message for every change: the value of a *)
(* plain setting, "changed" for a secret or deleted one.                   *)
(*                                                                         *)
(* One task at a time changes the cache, and it gives up control only at   *)
(* its awaits; what callbacks do is left out.                              *)
(***************************************************************************)
EXTENDS AppSettings, Sequences

CONSTANTS
    Backends,   \* of "pool_poll", "pool_redis", "db_redis", "db_none": the
                \* loader and the worker
    MaxCrashes  \* bound: deaths of the process

ASSUME ManagerAssumption ==
    /\ Backends \subseteq {"pool_poll", "pool_redis", "db_redis", "db_none"}
    /\ MaxCrashes \in Nat

(* What a writer publishes; no value: the key is secret or gone. *)
Message == [key : Keys, value : Values \cup {NoValue}]

Null == 0       \* _poll_last_seen = None; stamps are positive

VARIABLES
    backend,
    phase,      \* "new", "loading", "polling", "applying", "subscribing",
                \* "listening", "backoff", "idle" or "stopped"
    cache,      \* _cache
    secrets,    \* _secret_keys
    cursor,     \* _poll_last_seen
    rows,       \* rows of the current poll, still to be applied
    latest,     \* highest stamp among the rows of the current poll
    stopSet,    \* _stop is set
    chan,       \* messages on their way to the subscriber
    lost,       \* history: keys with a change that no load or message has told
    file,       \* the cache file
    crashes     \* counter for the bound

memory      == <<cache, secrets, cursor, rows, latest, stopSet>>
managerVars == <<backend, phase, memory, chan, lost, file, crashes>>

Empty == [k \in Keys |-> NoValue]

ManagerInit ==
    /\ backend \in Backends
    /\ phase = "new"
    /\ cache = Empty
    /\ secrets = {}
    /\ cursor = Null
    /\ rows = {}
    /\ latest = Null
    /\ stopSet = FALSE
    /\ chan = <<>>
    /\ lost = Keys
    /\ file = Empty
    /\ crashes = 0

Plain(k) == table[k] # NoRow /\ ~ table[k].secret

-----------------------------------------------------------------------------
Start ==
    /\ phase \in {"new", "stopped"}
    /\ phase' = "loading"
    /\ UNCHANGED <<backend, memory, chan, lost, file, crashes>>

(* The manager has no pool: a thread reads the table for it. *)
FromDb == backend \in {"db_redis", "db_none"}

(* The worker that start() creates: none without pool and Valkey.  A stop  *)
(* event that was set by an earlier stop() stays set: the poll loop        *)
(* returns at once.                                                        *)
Worker ==
    CASE backend \in {"pool_redis", "db_redis"} -> "subscribing"
      [] backend = "db_none"                    -> "idle"
      [] backend = "pool_poll"                  -> IF stopSet THEN "stopped" ELSE "polling"

WriteCache == file' = [k \in Keys |-> IF k \in secrets' THEN NoValue ELSE cache'[k]]

(* _load_from_pool and _load_from_db: keys without a row are left alone. *)
Load ==
    /\ phase = "loading"
    /\ cache' = [k \in Keys |-> IF Plain(k) THEN table[k].val ELSE cache[k]]
    /\ secrets' = secrets \cup {k \in Keys : table[k].secret}
    /\ IF FromDb
       THEN WriteCache /\ UNCHANGED cursor
       ELSE /\ UNCHANGED file
            /\ \E top \in {cursor} \cup {table[k].at : k \in Keys} :
                 /\ \A k \in Keys : table[k].at <= top
                 /\ top >= cursor
                 /\ cursor' = top
    /\ lost' = {}
    /\ phase' = Worker
    /\ UNCHANGED <<backend, rows, latest, stopSet, chan, crashes>>

(* A failed load is logged; _load_from_db falls back on the file. *)
LoadFails ==
    /\ phase = "loading"
    /\ cache' = IF ~ FromDb THEN cache
                ELSE [k \in Keys |-> IF file[k] # NoValue THEN file[k] ELSE cache[k]]
    /\ lost' = Keys
    /\ phase' = Worker
    /\ UNCHANGED <<backend, secrets, cursor, rows, latest, stopSet, chan, file, crashes>>

-----------------------------------------------------------------------------
(* The polling worker. *)

(* updated_at > NULL holds of no row. *)
Newer(k) == cursor # Null /\ table[k].at > cursor

(* The SELECT of _poll_once.  One that fails changes nothing. *)
Fetch ==
    /\ phase = "polling"
    /\ rows' = {[key |-> k, row |-> table[k]] : k \in {j \in Keys : Newer(j)}}
    /\ latest' = cursor
    /\ phase' = "applying"
    /\ UNCHANGED <<backend, cache, secrets, cursor, stopSet, chan, lost, file, crashes>>

(* One row, in the order of the stamps, and its callbacks. *)
ApplyRow ==
    /\ phase = "applying"
    /\ \E r \in rows :
         /\ \A q \in rows : r.row.at <= q.row.at
         /\ rows' = rows \ {r}
         /\ latest' = IF r.row.at > latest THEN r.row.at ELSE latest
         /\ cache' = IF r.row.secret THEN cache
                     ELSE [cache EXCEPT ![r.key] = r.row.val]
    /\ UNCHANGED <<backend, phase, secrets, cursor, stopSet, chan, lost, file, crashes>>

CursorFromClock == clock

SavedCursor == latest

PollDone ==
    /\ phase = "applying"
    /\ rows = {}
    /\ cursor' = SavedCursor
    /\ phase' = "polling"
    /\ UNCHANGED <<backend, cache, secrets, rows, latest, stopSet, chan, lost, file, crashes>>

-----------------------------------------------------------------------------
(* The subscriber. *)

Subscribe ==
    /\ phase = "subscribing"
    /\ phase' = "listening"
    /\ UNCHANGED <<backend, memory, chan, lost, file, crashes>>

ChannelLost ==
    /\ chan' = <<>>
    /\ lost' = lost \cup {chan[i].key : i \in 1 .. Len(chan)}

(* The connection fails; after a pause a new task subscribes again. *)
SubscriberError ==
    /\ phase \in {"subscribing", "listening"}
    /\ phase' = "backoff"
    /\ ChannelLost
    /\ UNCHANGED <<backend, memory, file, crashes>>

Resubscribe ==
    /\ phase = "backoff"
    /\ phase' = "subscribing"
    /\ UNCHANGED <<backend, memory, chan, lost, file, crashes>>

Forgotten(m) == NoValue

(* The value of a message; one without a value removes the key. *)
Told(m) == m.value

WriteNothing == UNCHANGED file

SaveMessage == WriteCache

(* _handle_message, the saving of the file included. *)
HandleMessage ==
    /\ phase = "listening"
    /\ chan # <<>>
    /\ cache' = [cache EXCEPT ![Head(chan).key] = Told(Head(chan))]
    /\ chan' = Tail(chan)
    /\ UNCHANGED <<backend, phase, secrets, cursor, rows, latest, stopSet, lost, crashes>>
    /\ SaveMessage

(* What a writer says of the row of k. *)
Announced(k) == IF table[k].secret THEN NoValue ELSE table[k].val

(* A writer publishes v for k. *)
Published(k, v) ==
    /\ IF phase = "listening"
       THEN chan' = Append(chan, [key |-> k, value |-> v]) /\ UNCHANGED lost
       ELSE lost' = lost \cup {k} /\ UNCHANGED chan
    /\ UNCHANGED <<backend, phase, memory, file, crashes>>

-----------------------------------------------------------------------------
Running == {"polling", "applying", "subscribing", "listening", "backoff", "idle"}

Stop ==
    /\ phase \in Running
    /\ phase' = "stopped"
    /\ stopSet' = TRUE
    /\ rows' = {}
    /\ ChannelLost
    /\ UNCHANGED <<backend, cache, secrets, cursor, latest, file, crashes>>

(* The process dies and another one takes its place, with the same file. *)
Crash ==
    /\ crashes < MaxCrashes
    /\ crashes' = crashes + 1
    /\ phase' = "new"
    /\ cache' = Empty
    /\ secrets' = {}
    /\ cursor' = Null
    /\ rows' = {}
    /\ latest' = Null
    /\ stopSet' = FALSE
    /\ chan' = <<>>
    /\ lost' = Keys
    /\ UNCHANGED <<backend, file>>

ManagerNext ==
    \/ Start \/ Load \/ LoadFails
    \/ Fetch \/ ApplyRow \/ PollDone
    \/ Subscribe \/ SubscriberError \/ Resubscribe \/ HandleMessage
    \/ Stop \/ Crash

-----------------------------------------------------------------------------
ManagerTypeOK ==
    /\ backend \in Backends
    /\ phase \in Running \cup {"new", "loading", "stopped"}
    /\ cache \in [Keys -> Values \cup {NoValue}]
    /\ secrets \subseteq Keys
    /\ cursor \in Nat /\ latest \in Nat
    /\ rows \subseteq [key : Keys, row : Row]
    /\ stopSet \in BOOLEAN
    /\ chan \in Seq(Message)
    /\ lost \subseteq Keys
    /\ file \in [Keys -> Values \cup {NoValue}]
    /\ crashes \in 0 .. MaxCrashes

(* A plain row that the cursor has passed is in the cache with its value,  *)
(* if it was committed in the order of the stamps.                         *)
PassedWasApplied ==
    \A k \in Keys :
        phase \in {"polling", "applying"} /\ Plain(k) /\ k \notin late
            /\ table[k].at <= cursor => cache[k] = table[k].val

(* Without a pool, the file holds what the process has in memory, secrets  *)
(* left out: with the database down, a restarted process continues with    *)
(* the settings of its predecessor.                                        *)
FileIsCurrent ==
    FromDb /\ phase \in {"subscribing", "listening", "backoff", "idle"} =>
        \A k \in Keys : file[k] = IF k \in secrets THEN NoValue ELSE cache[k]
=============================================================================
