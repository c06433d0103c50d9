------------------------- MODULE AppSettingsProofs -------------------------
(***************************************************************************)
(* Proofs about AppSettingsCaches, for any keys, values, bounds and ttl:   *)
(* what the two caches of app_settings hold, however writers, polls,       *)
(* messages, refreshes, invalidations, stops and crashes interleave.       *)
(***************************************************************************)
EXTENDS AppSettingsCaches, SequenceTheorems, TLAPS

(* Stamps are positive, and none is later than the newest committed one or *)
(* the clock.                                                              *)
TableKnown ==
    /\ 1 <= newest /\ newest <= clock
    /\ \A k \in Keys : table[k].at <= newest /\ (table[k] # NoRow => table[k].at >= 1)
    /\ \A k \in Keys : open[k] # NoRow => open[k].at >= 1 /\ open[k].at <= clock

(* The row of k came after everything the current poll has read. *)
Pending(k) == table[k].at > latest /\ \A r \in rows : table[k].at > r.row.at

(* What the poller knows of the table: a row in order is in the cache,     *)
(* among the rows still to be applied, or newer than this poll.            *)
PollerKnown ==
    /\ uses # "settings" => phase = "new"
    /\ phase \in {"polling", "applying"} => backend = "pool_poll"
    /\ phase \in {"new", "loading", "stopped"} => cursor = Null \/ stopSet
    /\ cursor <= newest /\ latest <= newest
    /\ phase # "applying" => rows = {}
    /\ \A r \in rows : cursor < r.row.at /\ r.row.at <= newest
    /\ \A q, r \in rows : q.key = r.key => q = r
    /\ phase = "polling" =>
         \A k \in Keys : Plain(k) /\ k \notin late /\ table[k].at <= cursor
             => cache[k] = table[k].val
    /\ phase = "applying" =>
         /\ cursor <= latest
         /\ \A k \in Keys : Plain(k) /\ k \notin late =>
              \/ Pending(k)
              \/ [key |-> k, row |-> table[k]] \in rows
              \/ cache[k] = table[k].val /\ \A r \in rows : r.key # k

(* What the writers have still to say: it is typed, and while the messages *)
(* about a key come in order, the last of them tells the row as it is.     *)
UntoldKnown ==
    /\ untold \in [Keys -> Seq(Values \cup {NoValue})]
    /\ crossed \subseteq Keys
    /\ uses \in {"settings", "flags"}
    /\ \A k \in Keys \ crossed :
         untold[k] # <<>> => untold[k][Len(untold[k])] = Announced(k)
    /\ uses # "settings" => \A k \in Keys : untold[k] = <<>>

(* What the subscriber knows: of a setting that is not excused it has the  *)
(* value in the cache, or as the last message of the channel about it.     *)
HeardKnown ==
    /\ phase # "listening" => chan = <<>>
    /\ phase \in {"subscribing", "listening", "backoff"} =>
         \A k \in Keys : Plain(k) /\ k \notin Excused =>
             \/ /\ cache[k] = table[k].val
                /\ \A i \in 1 .. Len(chan) : chan[i].key # k
             \/ \E i \in 1 .. Len(chan) :
                  /\ chan[i].key = k /\ chan[i].value = table[k].val
                  /\ \A j \in i + 1 .. Len(chan) : chan[j].key # k

FileKnown ==
    FromDb =>
        \/ \A k \in Keys : file[k] = IF k \in secrets THEN NoValue ELSE cache[k]
        \/ /\ phase \in {"new", "loading"}
           /\ secrets = {}
           /\ \A k \in Keys : cache[k] = NoValue

(* What the flag store knows: every flag, cached or just read, is that of  *)
(* a row the table has held since the last invalidation.                   *)
FlagsKnown ==
    \A k \in Keys :
        /\ uses = "flags" => table[k].val \in held[k]
        /\ flags[k] # Unknown => \E v \in held[k] : flags[k] = Parse(v)
        /\ lock = "read" => \E v \in held[k] : fresh[k] = Parse(v)

TypeOK == TableTypeOK /\ ManagerTypeOK /\ FlagsTypeOK

(* The inductive invariant. *)
TableInv   == TableTypeOK /\ TableKnown
ManagerInv == ManagerTypeOK /\ PollerKnown /\ HeardKnown /\ FileKnown
FlagsInv   == FlagsTypeOK /\ FlagsKnown
IInv       == TableInv /\ ManagerInv /\ FlagsInv /\ UntoldKnown

(* A row is not the mark of a missing one. *)
LEMMA NoRowIsNone == NoRow \notin Row /\ NoRow.at = 0 /\ NoRow.val = NoValue /\ NoRow.secret = FALSE
  BY SettingsAssumption DEF NoRow, Row

(* Stamps are numbers. *)
LEMMA StampType ==
  ASSUME IInv, NEW k \in Keys
  PROVE  table[k].at \in Nat /\ (Plain(k) => table[k].at >= 1)
  BY NoRowIsNone DEF IInv, TableInv, TableTypeOK, TableKnown, Row, Plain

(* What a value means as a flag. *)
LEMMA ParseType ==
  ASSUME NEW v \in Values \cup {NoValue}
  PROVE  Parse(v) \in Flag \cup {Unknown}
  BY SettingsAssumption, FlagsAssumption DEF Parse, Flag

(* The initial state satisfies the invariant. *)
LEMMA InitInv == Init => IInv
  <1> SUFFICES ASSUME Init PROVE IInv
    OBVIOUS
  <1>1. TableInv
    BY SettingsAssumption, NoRowIsNone DEF Init, TableInit, TableInv, TableTypeOK, TableKnown, Row
  <1>2. ManagerTypeOK
    <2>1. stopSet \in BOOLEAN
      BY DEF Init, ManagerInit
    <2>3. chan \in Seq(Message)
      BY DEF Init, ManagerInit
    <2>2. crashes \in 0 .. MaxCrashes /\ cursor \in Nat /\ latest \in Nat
      BY ManagerAssumption DEF Init, ManagerInit, Null
    <2> QED
      BY <2>1, <2>2, <2>3 DEF Init, ManagerInit, ManagerTypeOK, Empty
  <1>3. PollerKnown /\ HeardKnown /\ FileKnown
    BY <1>1 DEF Init, ManagerInit, PollerKnown, HeardKnown, FileKnown, Empty, Null, TableInv,
       TableKnown, TableTypeOK
  <1>4. FlagsTypeOK
    BY <1>1, FlagsAssumption, NoRowIsNone DEF Init, FlagsInit, FlagsTypeOK, NoFlags, TableInv,
       TableTypeOK, Row
  <1>5. FlagsKnown
    BY DEF Init, FlagsInit, FlagsKnown, NoFlags
  <1>6. UntoldKnown
    BY DEF Init, UntoldKnown
  <1> QED
    BY <1>1, <1>2, <1>3, <1>4, <1>5, <1>6 DEF IInv, ManagerInv, FlagsInv

(* The manager's part of the invariant is preserved when a manager starts. *)
LEMMA StartInv == ASSUME IInv, Settings(Start) PROVE ManagerInv'
  <1>1. ManagerTypeOK'
    BY SettingsAssumption, ManagerAssumption, NoRowIsNone DEF IInv, ManagerInv, TableInv,
       ManagerTypeOK, TableTypeOK, Row, NoRow, Running, Start, Settings, memory, tableVars
  <1>2. PollerKnown'
    BY SettingsAssumption, ManagerAssumption, NoRowIsNone DEF IInv, ManagerInv, TableInv, PollerKnown,
       Plain, Pending, TableKnown, Null, ManagerTypeOK, TableTypeOK, Start, Settings, memory,
       tableVars
  <1>3. HeardKnown'
    BY SettingsAssumption, ManagerAssumption, NoRowIsNone DEF IInv, ManagerInv, TableInv, HeardKnown,
       Excused, Plain, ManagerTypeOK, TableTypeOK, Start, Settings, memory, tableVars
  <1>4. FileKnown'
    BY SettingsAssumption, ManagerAssumption, NoRowIsNone DEF IInv, ManagerInv, TableInv, FileKnown, FromDb,
       ManagerTypeOK, Start, Settings, memory, tableVars
  <1> QED
    BY <1>1, <1>2, <1>3, <1>4 DEF ManagerInv

(* The manager's part of the invariant is preserved when a load succeeds. *)
LEMMA LoadInv == ASSUME IInv, Settings(Load) PROVE ManagerInv'
  <1>1. ManagerTypeOK'
    BY SettingsAssumption, ManagerAssumption, NoRowIsNone DEF IInv, ManagerInv, TableInv,
       ManagerTypeOK, TableTypeOK, Row, NoRow, Running, Load, FromDb, Worker, Plain, WriteCache, Settings,
       memory, tableVars
  <1>2. PollerKnown'
    BY SettingsAssumption, ManagerAssumption, NoRowIsNone DEF IInv, ManagerInv, TableInv, PollerKnown,
       Plain, Pending, TableKnown, Null, ManagerTypeOK, TableTypeOK, Load, FromDb, Worker, Running,
       WriteCache, Settings, memory, tableVars
  <1>3. HeardKnown'
    BY SettingsAssumption, ManagerAssumption, NoRowIsNone DEF IInv, ManagerInv, TableInv, HeardKnown,
       Excused, Plain, ManagerTypeOK, TableTypeOK, Load, FromDb, Worker, Running, WriteCache, Settings, memory,
       tableVars
  <1>4. FileKnown'
    BY SettingsAssumption, ManagerAssumption, NoRowIsNone DEF IInv, ManagerInv, TableInv, FileKnown, FromDb,
       ManagerTypeOK, Load, FromDb, Worker, Running, Plain, WriteCache, Settings, memory, tableVars
  <1> QED
    BY <1>1, <1>2, <1>3, <1>4 DEF ManagerInv

(* The manager's part of the invariant is preserved when a load fails. *)
LEMMA LoadFailsInv == ASSUME IInv, Settings(LoadFails) PROVE ManagerInv'
  <1>1. ManagerTypeOK'
    BY SettingsAssumption, ManagerAssumption, NoRowIsNone DEF IInv, ManagerInv, TableInv,
       ManagerTypeOK, TableTypeOK, Row, NoRow, Running, LoadFails, FromDb, Worker, Settings, memory,
       tableVars
  <1>2. PollerKnown'
    <2>1. /\ phase = "loading" /\ rows = {}
          /\ phase' \in {"polling", "stopped", "subscribing", "idle"}
          /\ phase' = "polling" => cursor = Null /\ backend = "pool_poll"
          /\ phase' = "stopped" => stopSet
          /\ uses = "settings"
          /\ UNCHANGED <<backend, rows, latest, cursor, stopSet, table, late, newest, uses>>
      BY ManagerAssumption DEF IInv, ManagerInv, ManagerTypeOK, PollerKnown, Settings, LoadFails,
         FromDb, Worker, tableVars
    <2>2. \A k \in Keys : Plain(k)' => ~ (table'[k].at <= Null)
      BY <2>1, StampType DEF Null, Plain
    <2> QED
      BY <2>1, <2>2 DEF IInv, ManagerInv, PollerKnown
  <1>3. HeardKnown'
    BY SettingsAssumption, ManagerAssumption, NoRowIsNone DEF IInv, ManagerInv, TableInv, HeardKnown,
       Excused, Plain, ManagerTypeOK, TableTypeOK, LoadFails, FromDb, Worker, Running, Settings, memory, tableVars
  <1>4. FileKnown'
    BY SettingsAssumption, ManagerAssumption, NoRowIsNone DEF IInv, ManagerInv, TableInv, FileKnown, FromDb,
       ManagerTypeOK, LoadFails, FromDb, Worker, Running, Settings, memory, tableVars
  <1> QED
    BY <1>1, <1>2, <1>3, <1>4 DEF ManagerInv

(* The manager's part of the invariant is preserved when a poll reads the table. *)
LEMMA FetchInv == ASSUME IInv, Settings(Fetch) PROVE ManagerInv'
  <1>1. ManagerTypeOK'
    BY SettingsAssumption, ManagerAssumption, NoRowIsNone DEF IInv, ManagerInv, TableInv,
       ManagerTypeOK, TableTypeOK, Row, NoRow, Running, Fetch, Newer, Settings, memory, tableVars
  <1>2. PollerKnown'
    <2>1. /\ phase = "polling" /\ phase' = "applying" /\ latest' = cursor
          /\ rows' = {[key |-> k, row |-> table[k]] : k \in {j \in Keys : Newer(j)}}
          /\ cursor \in Nat /\ newest \in Nat /\ cursor <= newest /\ backend = "pool_poll"
          /\ uses = "settings" /\ UNCHANGED <<backend, cache, cursor, table, late, newest, uses>>
      BY DEF IInv, ManagerInv, ManagerTypeOK, TableInv, TableTypeOK, PollerKnown, Settings, Fetch,
         tableVars
    <2>2. \A r \in rows' : r.key \in Keys /\ r = [key |-> r.key, row |-> table[r.key]] /\ Newer(r.key)
      BY <2>1
    <2>3. \A r \in rows' : cursor < r.row.at /\ r.row.at <= newest
      <3>1. \A k \in Keys : Newer(k) => cursor < table[k].at /\ table[k].at <= newest
        BY <2>1, StampType DEF Newer, IInv, TableInv, TableKnown
      <3> QED
        BY <2>2, <3>1
    <2>4. \A q, r \in rows' : q.key = r.key => q = r
      BY <2>2
    <2>5. ASSUME NEW k \in Keys, Plain(k)', k \notin late'
          PROVE  \/ Pending(k)'
                 \/ [key |-> k, row |-> table'[k]] \in rows'
                 \/ cache'[k] = table'[k].val /\ \A r \in rows' : r.key # k
      <3>1. Plain(k) /\ k \notin late /\ table[k].at \in Nat /\ table[k].at >= 1
        BY <2>1, <2>5, StampType DEF Plain
      <3>2. CASE Newer(k)
        BY <2>1, <3>2
      <3>3. CASE cursor = Null
        <4>1. rows' = {}
          BY <2>1, <3>3 DEF Newer
        <4> QED
          BY <4>1, <3>1, <3>3, <2>1 DEF Pending, Null
      <3>4. CASE ~ Newer(k) /\ cursor # Null
        <4>1. table[k].at <= cursor
          BY <2>1, <3>1, <3>4 DEF Newer
        <4>2. cache[k] = table[k].val
          BY <2>1, <3>1, <4>1 DEF IInv, ManagerInv, PollerKnown
        <4> QED
          BY <4>2, <2>1, <2>2, <3>4
      <3> QED
        BY <3>2, <3>3, <3>4
    <2> QED
      BY <2>1, <2>3, <2>4, <2>5 DEF PollerKnown
  <1>3. HeardKnown'
    BY SettingsAssumption, ManagerAssumption, NoRowIsNone DEF IInv, ManagerInv, TableInv, HeardKnown,
       Excused, Plain, ManagerTypeOK, TableTypeOK, Fetch, Running, Newer, Settings, memory, tableVars
  <1>4. FileKnown'
    BY SettingsAssumption, ManagerAssumption, NoRowIsNone DEF IInv, ManagerInv, TableInv, FileKnown, FromDb,
       ManagerTypeOK, Fetch, Running, Newer, Settings, memory, tableVars
  <1> QED
    BY <1>1, <1>2, <1>3, <1>4 DEF ManagerInv

(* The manager's part of the invariant is preserved when a row is applied. *)
LEMMA ApplyRowInv == ASSUME IInv, Settings(ApplyRow) PROVE ManagerInv'
  <1>1. ManagerTypeOK'
    BY SettingsAssumption, ManagerAssumption, NoRowIsNone DEF IInv, ManagerInv, TableInv,
       ManagerTypeOK, TableTypeOK, Row, NoRow, Running, ApplyRow, Settings, memory, tableVars
  <1>2. PollerKnown'
    <2>1. PICK r \in rows :
            /\ rows' = rows \ {r}
            /\ latest' = IF r.row.at > latest THEN r.row.at ELSE latest
            /\ cache' = IF r.row.secret THEN cache ELSE [cache EXCEPT ![r.key] = r.row.val]
      BY DEF Settings, ApplyRow
    <2>2. /\ phase = "applying" /\ phase' = "applying"
          /\ cache \in [Keys -> Values \cup {NoValue}] /\ cursor \in Nat /\ latest \in Nat /\ newest \in Nat
          /\ r.row.at \in Nat /\ cursor < r.row.at /\ r.row.at <= newest
          /\ cursor <= latest /\ latest <= newest /\ r.key \in Keys
          /\ UNCHANGED <<backend, cursor, stopSet, table, late, newest, uses>>
      BY DEF IInv, ManagerInv, ManagerTypeOK, Row, TableInv, TableTypeOK, PollerKnown, Settings,
         ApplyRow, tableVars
    <2>3. latest' \in {latest, r.row.at} /\ cursor <= latest' /\ latest' <= newest
      BY <2>1, <2>2
    <2>4. ASSUME NEW k \in Keys, Plain(k)', k \notin late'
          PROVE  \/ Pending(k)'
                 \/ [key |-> k, row |-> table'[k]] \in rows'
                 \/ cache'[k] = table'[k].val /\ \A q \in rows' : q.key # k
      <3>1. Plain(k) /\ k \notin late /\ table'[k] = table[k]
        BY <2>2, <2>4 DEF Plain
      <3>2. CASE Pending(k)
        BY <3>1, <3>2, <2>1, <2>3 DEF Pending
      <3>3. CASE [key |-> k, row |-> table[k]] \in rows
        <4>1. CASE r = [key |-> k, row |-> table[k]]
          <5>1. r.key = k /\ r.row = table[k] /\ ~ r.row.secret
            BY <4>1, <3>1 DEF Plain
          <5>2. cache'[k] = table[k].val
            BY <5>1, <2>1, <2>2
          <5>3. \A q \in rows' : q.key # k
            BY <5>1, <2>1 DEF IInv, ManagerInv, PollerKnown
          <5> QED
            BY <5>2, <5>3, <3>1
        <4>2. CASE r # [key |-> k, row |-> table[k]]
          BY <4>2, <3>3, <3>1, <2>1
        <4> QED
          BY <4>1, <4>2
      <3>4. CASE cache[k] = table[k].val /\ \A q \in rows : q.key # k
        BY <3>4, <3>1, <2>1, <2>2
      <3> QED
        BY <3>1, <3>2, <3>3, <3>4, <2>2 DEF IInv, ManagerInv, PollerKnown
    <2>5. /\ \A q \in rows' : cursor < q.row.at /\ q.row.at <= newest
          /\ \A p, q \in rows' : p.key = q.key => p = q
      BY <2>1 DEF IInv, ManagerInv, PollerKnown
    <2>6. uses # "settings" => phase = "new"
      BY DEF IInv, ManagerInv, PollerKnown
    <2>7. backend = "pool_poll"
      BY <2>2 DEF IInv, ManagerInv, PollerKnown
    <2>8. cursor <= newest
      BY <2>2
    <2> QED
      BY <2>2, <2>3, <2>4, <2>5, <2>6, <2>7, <2>8 DEF PollerKnown
  <1>3. HeardKnown'
    BY SettingsAssumption, ManagerAssumption, NoRowIsNone DEF IInv, ManagerInv, TableInv, HeardKnown,
       Excused, Plain, ManagerTypeOK, TableTypeOK, ApplyRow, Settings, memory, tableVars
  <1>4. FileKnown'
    BY SettingsAssumption, ManagerAssumption, NoRowIsNone DEF IInv, ManagerInv, TableInv, FileKnown, FromDb,
       PollerKnown, ApplyRow, Settings, memory, tableVars
  <1> QED
    BY <1>1, <1>2, <1>3, <1>4 DEF ManagerInv

(* The manager's part of the invariant is preserved when a poll is done. *)
LEMMA PollDoneInv == ASSUME IInv, Settings(PollDone) PROVE ManagerInv'
  <1>1. ManagerTypeOK'
    BY SettingsAssumption, ManagerAssumption, NoRowIsNone DEF IInv, ManagerInv, TableInv,
       ManagerTypeOK, TableTypeOK, Row, NoRow, Running, PollDone, SavedCursor, Settings, memory,
       tableVars
  <1>2. PollerKnown'
    <2>1. /\ phase = "applying" /\ phase' = "polling" /\ rows = {} /\ cursor' = latest
          /\ latest <= newest /\ latest \in Nat /\ backend = "pool_poll" /\ uses = "settings"
          /\ UNCHANGED <<backend, cache, rows, latest, table, late, newest, uses>>
 BY DEF IInv, ManagerInv, ManagerTypeOK, PollerKnown, Settings, PollDone, SavedCursor, tableVars
    <2>2. ASSUME NEW k \in Keys, Plain(k)', k \notin late', table'[k].at <= cursor'
          PROVE  cache'[k] = table'[k].val
      <3>1. Plain(k) /\ k \notin late /\ table[k].at <= latest /\ table[k].at \in Nat
        BY <2>1, <2>2, StampType DEF Plain
      <3>2. ~ Pending(k)
        BY <3>1, <2>1 DEF Pending
      <3> QED
        BY <3>1, <3>2, <2>1 DEF IInv, ManagerInv, PollerKnown
    <2> QED
      BY <2>1, <2>2 DEF PollerKnown
  <1>3. HeardKnown'
    BY SettingsAssumption, ManagerAssumption, NoRowIsNone DEF IInv, ManagerInv, TableInv, HeardKnown,
       Excused, Plain, ManagerTypeOK, TableTypeOK, PollDone, SavedCursor, Running, Settings, memory,
       tableVars
  <1>4. FileKnown'
    BY SettingsAssumption, ManagerAssumption, NoRowIsNone DEF IInv, ManagerInv, TableInv, FileKnown, FromDb,
       ManagerTypeOK, PollDone, SavedCursor, Running, Settings, memory, tableVars
  <1> QED
    BY <1>1, <1>2, <1>3, <1>4 DEF ManagerInv

(* The manager's part of the invariant is preserved when the subscription is there. *)
LEMMA SubscribeInv == ASSUME IInv, Settings(Subscribe) PROVE ManagerInv'
  <1>1. ManagerTypeOK'
    BY SettingsAssumption, ManagerAssumption, NoRowIsNone DEF IInv, ManagerInv, TableInv,
       ManagerTypeOK, TableTypeOK, Row, NoRow, Running, Subscribe, Settings, memory, tableVars
  <1>2. PollerKnown'
    BY SettingsAssumption, ManagerAssumption, NoRowIsNone DEF IInv, ManagerInv, TableInv, PollerKnown,
       Plain, Pending, TableKnown, Null, ManagerTypeOK, TableTypeOK, Subscribe, Running, Settings,
       memory, tableVars
  <1>3. HeardKnown'
    BY SettingsAssumption, ManagerAssumption, NoRowIsNone DEF IInv, ManagerInv, TableInv, HeardKnown,
       Excused, Plain, ManagerTypeOK, TableTypeOK, Subscribe, Running, Settings, memory, tableVars
  <1>4. FileKnown'
    BY SettingsAssumption, ManagerAssumption, NoRowIsNone DEF IInv, ManagerInv, TableInv, FileKnown, FromDb,
       ManagerTypeOK, Subscribe, Running, Settings, memory, tableVars
  <1> QED
    BY <1>1, <1>2, <1>3, <1>4 DEF ManagerInv

(* The manager's part of the invariant is preserved when the subscription breaks. *)
LEMMA SubscriberErrorInv == ASSUME IInv, Settings(SubscriberError) PROVE ManagerInv'
  <1>1. ManagerTypeOK'
    <2>1. chan' \in Seq(Message) /\ stopSet' \in BOOLEAN
 BY DEF IInv, ManagerInv, ManagerTypeOK, Message, Settings, memory, SubscriberError, ChannelLost
    <2>2. lost' \subseteq Keys
      <3>1. \A i \in 1 .. Len(chan) : chan[i] \in Message
        BY DEF IInv, ManagerInv, ManagerTypeOK
      <3>2. \A i \in 1 .. Len(chan) : chan[i].key \in Keys
        BY <3>1 DEF Message
      <3> QED
        BY <3>2 DEF IInv, ManagerInv, ManagerTypeOK, Settings, memory, SubscriberError, ChannelLost
    <2>3. crashes' \in 0 .. MaxCrashes /\ cursor' \in Nat /\ latest' \in Nat
      BY ManagerAssumption DEF IInv, ManagerInv, ManagerTypeOK, Null, Settings, memory, SubscriberError,
         ChannelLost
    <2> QED
      BY <2>1, <2>2, <2>3 DEF IInv, ManagerInv, ManagerTypeOK, Running, Message, Settings, memory,
         SubscriberError, ChannelLost
  <1>2. PollerKnown'
    BY SettingsAssumption, ManagerAssumption, NoRowIsNone DEF IInv, ManagerInv, TableInv, PollerKnown,
       Plain, Pending, TableKnown, Null, ManagerTypeOK, TableTypeOK, SubscriberError, ChannelLost,
       Running, Settings, memory, tableVars
  <1>3. HeardKnown'
    BY SettingsAssumption, ManagerAssumption, NoRowIsNone DEF IInv, ManagerInv, TableInv, HeardKnown,
       Excused, Plain, ManagerTypeOK, TableTypeOK, SubscriberError, ChannelLost, Running, Settings, memory,
       tableVars
  <1>4. FileKnown'
    BY SettingsAssumption, ManagerAssumption, NoRowIsNone DEF IInv, ManagerInv, TableInv, FileKnown, FromDb,
       ManagerTypeOK, SubscriberError, ChannelLost, Running, Settings, memory, tableVars
  <1> QED
    BY <1>1, <1>2, <1>3, <1>4 DEF ManagerInv

(* The manager's part of the invariant is preserved when a new subscription is tried. *)
LEMMA ResubscribeInv == ASSUME IInv, Settings(Resubscribe) PROVE ManagerInv'
  <1>1. ManagerTypeOK'
    BY SettingsAssumption, ManagerAssumption, NoRowIsNone DEF IInv, ManagerInv, TableInv,
       ManagerTypeOK, TableTypeOK, Row, NoRow, Running, Resubscribe, Settings, memory, tableVars
  <1>2. PollerKnown'
    BY SettingsAssumption, ManagerAssumption, NoRowIsNone DEF IInv, ManagerInv, TableInv, PollerKnown,
       Plain, Pending, TableKnown, Null, ManagerTypeOK, TableTypeOK, Resubscribe, Running,
       Settings, memory, tableVars
  <1>3. HeardKnown'
    BY SettingsAssumption, ManagerAssumption, NoRowIsNone DEF IInv, ManagerInv, TableInv, HeardKnown,
       Excused, Plain, ManagerTypeOK, TableTypeOK, Resubscribe, Running, Settings, memory, tableVars
  <1>4. FileKnown'
    BY SettingsAssumption, ManagerAssumption, NoRowIsNone DEF IInv, ManagerInv, TableInv, FileKnown, FromDb,
       ManagerTypeOK, Resubscribe, Running, Settings, memory, tableVars
  <1> QED
    BY <1>1, <1>2, <1>3, <1>4 DEF ManagerInv

(* The manager's part of the invariant is preserved when a message is handled. *)
LEMMA HandleMessageInv == ASSUME IInv, Settings(HandleMessage) PROVE ManagerInv'
  <1>1. ManagerTypeOK'
    <2>1. /\ chan' \in Seq(Message)
          /\ Head(chan).key \in Keys /\ Head(chan).value \in Values \cup {NoValue}
      <3>1. chan' \in Seq(Message) /\ Head(chan) \in Message
        BY DEF IInv, ManagerInv, ManagerTypeOK, Settings, HandleMessage
      <3> QED
        BY <3>1 DEF Message
    <2>2. cache' \in [Keys -> Values \cup {NoValue}]
      BY <2>1 DEF IInv, ManagerInv, ManagerTypeOK, Settings, HandleMessage, Told
    <2>3. file' \in [Keys -> Values \cup {NoValue}]
      BY <2>2 DEF Settings, HandleMessage, SaveMessage, WriteCache
    <2> QED
      BY <2>1, <2>2, <2>3 DEF IInv, ManagerInv, ManagerTypeOK, Message, Settings, memory, HandleMessage
  <1>2. PollerKnown'
    BY SettingsAssumption, ManagerAssumption, NoRowIsNone DEF IInv, ManagerInv, TableInv, PollerKnown,
       Plain, Pending, TableKnown, Null, ManagerTypeOK, TableTypeOK, HandleMessage, Told,
       SaveMessage, WriteCache, Settings, memory, tableVars
  <1>3. HeardKnown'
    <2>1. /\ chan \in Seq(Message) /\ chan # <<>> /\ Len(chan) \in Nat
          /\ Len(chan') = Len(chan) - 1 /\ Len(chan) >= 1 /\ Head(chan) = chan[1]
          /\ \A i \in 1 .. Len(chan') : i + 1 \in 1 .. Len(chan) /\ chan'[i] = chan[i + 1]
      BY DEF IInv, ManagerInv, ManagerTypeOK, Message, Settings, HandleMessage
    <2>2. /\ phase = "listening" /\ phase' = "listening" /\ UNCHANGED <<table, lost, untold, crossed>>
          /\ cache' = [cache EXCEPT ![chan[1].key] = chan[1].value]
          /\ cache \in [Keys -> Values \cup {NoValue}]
      BY <2>1 DEF IInv, ManagerInv, ManagerTypeOK, Settings, HandleMessage, Told, tableVars
    <2>3. ASSUME NEW k \in Keys, Plain(k), k \notin Excused,
                 cache[k] = table[k].val, \A i \in 1 .. Len(chan) : chan[i].key # k
          PROVE  cache'[k] = table[k].val /\ \A i \in 1 .. Len(chan') : chan'[i].key # k
      BY <2>1, <2>2, <2>3
    <2>4. ASSUME NEW k \in Keys, NEW i \in 1 .. Len(chan), i > 1,
                 chan[i].key = k, chan[i].value = table[k].val,
                 \A j \in i + 1 .. Len(chan) : chan[j].key # k
          PROVE  \E n \in 1 .. Len(chan') :
                    /\ chan'[n].key = k /\ chan'[n].value = table[k].val
                    /\ \A j \in n + 1 .. Len(chan') : chan'[j].key # k
      <3>1. i - 1 \in 1 .. Len(chan') /\ chan'[i - 1] = chan[i]
        BY <2>1, <2>4
      <3>2. \A j \in (i - 1) + 1 .. Len(chan') : chan'[j].key # k
        BY <2>1, <2>4
      <3> QED
        BY <3>1, <3>2, <2>4
    <2>5. ASSUME NEW k \in Keys, chan[1].key = k, chan[1].value = table[k].val,
                 \A j \in 2 .. Len(chan) : chan[j].key # k
          PROVE  cache'[k] = table[k].val /\ \A i \in 1 .. Len(chan') : chan'[i].key # k
      <3>1. \A i \in 1 .. Len(chan') : i + 1 \in 2 .. Len(chan)
        BY <2>1
      <3> QED
        BY <3>1, <2>1, <2>2, <2>5
    <2>6. ASSUME NEW k \in Keys, Plain(k)', k \notin Excused'
          PROVE  \/ cache'[k] = table'[k].val /\ \A i \in 1 .. Len(chan') : chan'[i].key # k
                 \/ \E i \in 1 .. Len(chan') :
                      /\ chan'[i].key = k /\ chan'[i].value = table'[k].val
                      /\ \A j \in i + 1 .. Len(chan') : chan'[j].key # k
      <3>1. Plain(k) /\ k \notin Excused
        BY <2>2, <2>6 DEF Plain, Excused
      <3>2. CASE cache[k] = table[k].val /\ \A i \in 1 .. Len(chan) : chan[i].key # k
        BY <3>1, <3>2, <2>2, <2>3
      <3>3. ASSUME NEW i \in 1 .. Len(chan), chan[i].key = k, chan[i].value = table[k].val,
                   \A j \in i + 1 .. Len(chan) : chan[j].key # k
            PROVE  \/ cache'[k] = table[k].val /\ \A n \in 1 .. Len(chan') : chan'[n].key # k
                   \/ \E n \in 1 .. Len(chan') :
                        /\ chan'[n].key = k /\ chan'[n].value = table[k].val
                        /\ \A j \in n + 1 .. Len(chan') : chan'[j].key # k
        <4>1. CASE i = 1
          BY <4>1, <3>3, <2>5
        <4>2. CASE i > 1
          BY <4>2, <3>3, <2>4
        <4> QED
          BY <4>1, <4>2
      <3> QED
        BY <3>1, <3>2, <3>3, <2>2 DEF IInv, ManagerInv, HeardKnown
    <2> QED
      BY <2>2, <2>6 DEF HeardKnown
  <1>4. FileKnown'
    BY SettingsAssumption, ManagerAssumption, NoRowIsNone DEF IInv, ManagerInv, TableInv, FileKnown, FromDb,
       ManagerTypeOK, HandleMessage, Told, SaveMessage, WriteCache, Settings, memory, tableVars
  <1> QED
    BY <1>1, <1>2, <1>3, <1>4 DEF ManagerInv

(* The manager's part of the invariant is preserved when a manager stops. *)
LEMMA StopInv == ASSUME IInv, Settings(Stop) PROVE ManagerInv'
  <1>1. ManagerTypeOK'
    <2>1. chan' \in Seq(Message) /\ stopSet' \in BOOLEAN
      BY DEF IInv, ManagerInv, ManagerTypeOK, Message, Settings, memory, Stop, ChannelLost, Running
    <2>2. lost' \subseteq Keys
      <3>1. \A i \in 1 .. Len(chan) : chan[i] \in Message
        BY DEF IInv, ManagerInv, ManagerTypeOK
      <3>2. \A i \in 1 .. Len(chan) : chan[i].key \in Keys
        BY <3>1 DEF Message
      <3> QED
        BY <3>2 DEF IInv, ManagerInv, ManagerTypeOK, Settings, memory, Stop, ChannelLost, Running
    <2>3. crashes' \in 0 .. MaxCrashes /\ cursor' \in Nat /\ latest' \in Nat
      BY ManagerAssumption DEF IInv, ManagerInv, ManagerTypeOK, Null, Settings, memory, Stop,
         ChannelLost, Running
    <2> QED
      BY <2>1, <2>2, <2>3 DEF IInv, ManagerInv, ManagerTypeOK, Running, Message, Settings, memory, Stop,
         ChannelLost, Running
  <1>2. PollerKnown'
    BY SettingsAssumption, ManagerAssumption, NoRowIsNone DEF IInv, ManagerInv, TableInv, PollerKnown,
       Plain, Pending, TableKnown, Null, ManagerTypeOK, TableTypeOK, Stop, ChannelLost, Running,
       Settings, memory, tableVars
  <1>3. HeardKnown'
    BY SettingsAssumption, ManagerAssumption, NoRowIsNone DEF IInv, ManagerInv, TableInv, HeardKnown,
       Excused, Plain, ManagerTypeOK, TableTypeOK, Stop, ChannelLost, Running, Settings, memory, tableVars
  <1>4. FileKnown'
    BY SettingsAssumption, ManagerAssumption, NoRowIsNone DEF IInv, ManagerInv, TableInv, FileKnown, FromDb,
       ManagerTypeOK, Stop, ChannelLost, Running, Settings, memory, tableVars
  <1> QED
    BY <1>1, <1>2, <1>3, <1>4 DEF ManagerInv

(* The manager's part of the invariant is preserved when a process dies. *)
LEMMA CrashInv == ASSUME IInv, Settings(Crash) PROVE ManagerInv'
  <1>1. ManagerTypeOK'
    <2>1. stopSet' \in BOOLEAN
      BY DEF Settings, Crash
    <2>4. chan' \in Seq(Message)
      BY DEF Settings, Crash
    <2>2. lost' \subseteq Keys
      BY DEF IInv, ManagerInv, ManagerTypeOK, Settings, memory, Crash, Empty
    <2>3. crashes' \in 0 .. MaxCrashes /\ cursor' \in Nat /\ latest' \in Nat
      BY ManagerAssumption DEF IInv, ManagerInv, ManagerTypeOK, Null, Settings, memory, Crash, Empty
    <2> QED
      BY <2>1, <2>2, <2>3, <2>4 DEF IInv, ManagerInv, ManagerTypeOK, Running, Settings, Crash, Empty
  <1>2. PollerKnown'
    BY SettingsAssumption, ManagerAssumption, NoRowIsNone DEF IInv, ManagerInv, TableInv, PollerKnown,
       Plain, Pending, TableKnown, Null, ManagerTypeOK, TableTypeOK, Crash, Empty, Settings,
       memory, tableVars
  <1>3. HeardKnown'
    BY SettingsAssumption, ManagerAssumption, NoRowIsNone DEF IInv, ManagerInv, TableInv, HeardKnown,
       Excused, Plain, ManagerTypeOK, TableTypeOK, Crash, Empty, Settings, memory, tableVars
  <1>4. FileKnown'
    BY SettingsAssumption, ManagerAssumption, NoRowIsNone DEF IInv, ManagerInv, TableInv, FileKnown, FromDb,
       ManagerTypeOK, Crash, Empty, Settings, memory, tableVars
  <1> QED
    BY <1>1, <1>2, <1>3, <1>4 DEF ManagerInv

(* The flag store's part is preserved by every step of the store. *)
LEMMA FlagsStep == ASSUME IInv, Flags(FlagsNext) PROVE FlagsInv'
  <1> USE SettingsAssumption, FlagsAssumption, NoRowIsNone DEF IInv, FlagsInv, Flags, tableVars
  <1>1. CASE Get
    <2>1. FlagsTypeOK'
      BY <1>1, ParseType DEF FlagsTypeOK, TableInv, TableTypeOK, Row, Get
    <2>2. FlagsKnown'
      BY <1>1 DEF FlagsKnown, FlagsTypeOK, Get
    <2> QED
      BY <2>1, <2>2
  <1>2. CASE RefreshCall
    <2>1. FlagsTypeOK'
      BY <1>2, ParseType DEF FlagsTypeOK, TableInv, TableTypeOK, Row, RefreshCall
    <2>2. FlagsKnown'
      BY <1>2 DEF FlagsKnown, FlagsTypeOK, RefreshCall
    <2> QED
      BY <2>1, <2>2
  <1>3. CASE RefreshLocked
    <2>1. FlagsTypeOK'
      BY <1>3, ParseType DEF FlagsTypeOK, TableInv, TableTypeOK, Row, RefreshLocked
    <2>2. FlagsKnown'
      BY <1>3 DEF FlagsKnown, FlagsTypeOK, RefreshLocked
    <2> QED
      BY <2>1, <2>2
  <1>4. CASE RefreshReads
    <2>1. FlagsTypeOK'
      BY <1>4, ParseType DEF FlagsTypeOK, TableInv, TableTypeOK, Row, RefreshReads
    <2>2. FlagsKnown'
      BY <1>4 DEF FlagsKnown, FlagsTypeOK, RefreshReads
    <2> QED
      BY <2>1, <2>2
  <1>5. CASE RefreshFails
    <2>1. FlagsTypeOK'
      BY <1>5, ParseType DEF FlagsTypeOK, TableInv, TableTypeOK, Row, RefreshFails, NoFlags
    <2>2. FlagsKnown'
      BY <1>5 DEF FlagsKnown, FlagsTypeOK, RefreshFails, NoFlags
    <2> QED
      BY <2>1, <2>2
  <1>6. CASE RefreshDone
    <2>1. FlagsTypeOK'
      BY <1>6, ParseType DEF FlagsTypeOK, TableInv, TableTypeOK, Row, RefreshDone, NoFlags
    <2>2. FlagsKnown'
      BY <1>6 DEF FlagsKnown, FlagsTypeOK, RefreshDone, NoFlags
    <2> QED
      BY <2>1, <2>2
  <1>7. CASE Tick
    <2>1. FlagsTypeOK'
      BY <1>7, ParseType DEF FlagsTypeOK, TableInv, TableTypeOK, Row, Tick, Stale
    <2>2. FlagsKnown'
      BY <1>7 DEF FlagsKnown, FlagsTypeOK, Tick, Stale
    <2> QED
      BY <2>1, <2>2
  <1>8. ASSUME NEW k \in Keys, Invalidate(k) PROVE FlagsInv'
    <2>1. FlagsTypeOK'
      BY <1>8, ParseType DEF FlagsTypeOK, TableInv, TableTypeOK, Row, Invalidate, LockFree
    <2>2. FlagsKnown'
      BY <1>8 DEF FlagsKnown, FlagsTypeOK, Invalidate, LockFree
    <2> QED
      BY <2>1, <2>2
  <1> QED
    BY <1>1, <1>2, <1>3, <1>4, <1>5, <1>6, <1>7, <1>8 DEF FlagsNext

(* A step of the manager preserves its part. *)
LEMMA ManagerStep == ASSUME IInv, Settings(ManagerNext) PROVE ManagerInv'
  BY StartInv, LoadInv, LoadFailsInv, FetchInv, ApplyRowInv, PollDoneInv, SubscribeInv,
     SubscriberErrorInv, ResubscribeInv, HandleMessageInv, StopInv, CrashInv DEF Settings, ManagerNext

(* A change of the table preserves all three parts, with the message it    *)
(* publishes.                                                              *)
LEMMA BeginInv ==
  ASSUME IInv, NEW k \in Keys, NEW v \in Values, NEW s \in BOOLEAN, BeginWrite(k, v, s),
         UNCHANGED <<managerVars, flagVars, uses, untold, crossed>>
  PROVE  IInv'
  <1>1. TableTypeOK'
    BY SettingsAssumption DEF IInv, TableInv, TableTypeOK, Row, BeginWrite
  <1>2. TableKnown'
    <2>1. /\ clock \in Nat /\ newest \in Nat /\ clock' \in {clock, clock + 1}
          /\ 1 <= newest /\ newest <= clock /\ UNCHANGED <<table, newest>>
          /\ open' = [open EXCEPT ![k] = [val |-> v, secret |-> s, at |-> clock']]
      BY DEF IInv, TableInv, TableTypeOK, TableKnown, BeginWrite
    <2>2. clock <= clock' /\ clock' \in Nat
      BY <2>1
    <2>3. ASSUME NEW j \in Keys, open'[j] # NoRow
          PROVE  open'[j].at >= 1 /\ open'[j].at <= clock'
      <3>1. CASE j = k
        BY <3>1, <2>1, <2>2 DEF IInv, TableInv, TableTypeOK
      <3>2. CASE j # k
        <4>1. open'[j] = open[j] /\ open[j] \in Row
          BY <3>2, <2>1, <2>3 DEF IInv, TableInv, TableTypeOK
        <4>2. open[j].at \in Nat /\ open[j].at >= 1 /\ open[j].at <= clock
          BY <4>1, <2>3 DEF IInv, TableInv, TableKnown, Row
        <4> QED
          BY <4>1, <4>2, <2>1, <2>2
      <3> QED
        BY <3>1, <3>2
    <2> QED
      BY <2>1, <2>2, <2>3 DEF IInv, TableInv, TableKnown
  <1>3. ManagerInv'
    BY DEF IInv, ManagerInv, ManagerTypeOK, PollerKnown, HeardKnown, FileKnown, FromDb, Pending,
       Plain, Excused, BeginWrite, managerVars, memory
  <1>4. FlagsInv'
    BY DEF IInv, FlagsInv, FlagsTypeOK, FlagsKnown, BeginWrite, flagVars
  <1>5. UntoldKnown'
    BY DEF IInv, UntoldKnown, Announced, BeginWrite
  <1> QED
    BY <1>1, <1>2, <1>3, <1>4, <1>5 DEF IInv, TableInv

(* The two ways in which the committed rows change. *)
LEMMA TableStep ==
  ASSUME IInv, NEW k \in Keys, CommitWrite(k) \/ DeleteRow(k)
  PROVE  /\ TableInv'
         /\ newest <= newest'
         /\ \A j \in Keys \ {k} : table'[j] = table[j] /\ (j \notin late' => j \notin late)
         /\ Plain(k)' /\ k \notin late' => table'[k].at > newest
         /\ table'[k].val \in Values \cup {NoValue}
  <1>1. CASE CommitWrite(k)
    <2>1. TableTypeOK'
      BY <1>1, NoRowIsNone DEF IInv, TableInv, TableTypeOK, Row, CommitWrite
    <2>2. TableKnown'
      BY <1>1, NoRowIsNone DEF IInv, TableInv, TableTypeOK, TableKnown, Row, CommitWrite
    <2>3. newest <= newest' /\ (k \notin late' => table'[k].at > newest)
      BY <1>1 DEF IInv, TableInv, TableTypeOK, CommitWrite, Row
    <2>4. \A j \in Keys \ {k} : table'[j] = table[j] /\ (j \notin late' => j \notin late)
      BY <1>1 DEF IInv, TableInv, TableTypeOK, CommitWrite
    <2> QED
      BY <2>1, <2>2, <2>3, <2>4, NoRowIsNone DEF TableInv, TableTypeOK, Row
  <1>2. CASE DeleteRow(k)
    <2>1. TableTypeOK'
      BY <1>2, SettingsAssumption DEF IInv, TableInv, TableTypeOK, DeleteRow
    <2>2. TableKnown'
      BY <1>2, NoRowIsNone DEF IInv, TableInv, TableTypeOK, TableKnown, Row, DeleteRow
    <2>3. newest <= newest' /\ ~ Plain(k)'
      BY <1>2 DEF IInv, TableInv, TableTypeOK, DeleteRow, Plain
    <2>4. \A j \in Keys \ {k} : table'[j] = table[j] /\ (j \notin late' => j \notin late)
      BY <1>2 DEF IInv, TableInv, TableTypeOK, DeleteRow
    <2> QED
      BY <2>1, <2>2, <2>3, <2>4, NoRowIsNone DEF TableInv, TableTypeOK, Row
  <1> QED
    BY <1>1, <1>2

(* A commit leaves the cache alone; what it changed is still untold. *)
LEMMA CommitInv ==
  ASSUME IInv, NEW k \in Keys, CommitWrite(k) \/ DeleteRow(k), uses = "settings",
         untold' = [untold EXCEPT ![k] = Append(@, Announced(k)')],
         UNCHANGED <<managerVars, uses, crossed>>
  PROVE  ManagerInv' /\ UntoldKnown'
  <1>1. ManagerTypeOK'
    BY DEF IInv, ManagerInv, ManagerTypeOK, managerVars, memory
  <1>2. PollerKnown'
    <2>1. /\ newest \in Nat /\ newest' \in Nat /\ newest <= newest'
          /\ cursor \in Nat /\ latest \in Nat /\ cursor <= newest /\ latest <= newest
          /\ UNCHANGED <<backend, phase, cache, cursor, rows, latest, stopSet>>
      BY TableStep DEF IInv, ManagerInv, ManagerTypeOK, TableInv, TableTypeOK, PollerKnown, managerVars,
         memory
    <2>2. \A r \in rows : cursor < r.row.at /\ r.row.at <= newest /\ r.row.at \in Nat
      BY DEF IInv, ManagerInv, ManagerTypeOK, PollerKnown, Row
    <2>3. Plain(k)' /\ k \notin late' => table'[k].at > newest /\ table'[k].at \in Nat
      BY TableStep, NoRowIsNone DEF TableInv, TableTypeOK, Row
    <2>4. Plain(k)' /\ k \notin late' => Pending(k)' /\ ~ (table'[k].at <= cursor)
      BY <2>1, <2>2, <2>3 DEF Pending
    <2>5. ASSUME NEW j \in Keys, j # k, Plain(j)', j \notin late'
          PROVE  /\ Plain(j) /\ j \notin late /\ table'[j] = table[j]
                 /\ Pending(j) => Pending(j)'
      <3>1. table'[j] = table[j] /\ j \notin late
        BY TableStep, <2>5
      <3> QED
        BY <3>1, <2>1, <2>5 DEF Plain, Pending
    <2>6. \A r \in rows' : cursor' < r.row.at /\ r.row.at <= newest'
      BY <2>1, <2>2
    <2>7. cursor' <= newest' /\ latest' <= newest'
      BY <2>1
    <2>8. ASSUME NEW j \in Keys, Plain(j)', j \notin late', phase = "polling", table'[j].at <= cursor
          PROVE  cache[j] = table'[j].val
      <3>1. j # k
        BY <2>1, <2>4, <2>8
      <3>2. Plain(j) /\ j \notin late /\ table'[j] = table[j]
        BY <3>1, <2>5, <2>8
      <3> QED
        BY <3>2, <2>8 DEF IInv, ManagerInv, PollerKnown
    <2>9. ASSUME NEW j \in Keys, Plain(j)', j \notin late', phase = "applying"
          PROVE  \/ Pending(j)'
                 \/ [key |-> j, row |-> table'[j]] \in rows
                 \/ cache[j] = table'[j].val /\ \A r \in rows : r.key # j
      <3>1. CASE j = k
        BY <3>1, <2>4, <2>9
      <3>2. CASE j # k
        <4>1. Plain(j) /\ j \notin late /\ table'[j] = table[j] /\ (Pending(j) => Pending(j)')
          BY <3>2, <2>5, <2>9
        <4> QED
          BY <4>1, <2>9 DEF IInv, ManagerInv, PollerKnown
      <3> QED
        BY <3>1, <3>2
    <2> QED
      BY <2>1, <2>6, <2>7, <2>8, <2>9 DEF IInv, ManagerInv, PollerKnown
  <1>3. Announced(k)' \in Values \cup {NoValue}
    BY TableStep DEF Announced
  <1>4. /\ untold[k] \in Seq(Values \cup {NoValue}) /\ untold'[k] = Append(untold[k], Announced(k)')
        /\ \A j \in Keys \ {k} : untold'[j] = untold[j]
    BY DEF IInv, UntoldKnown
  <1>5. /\ untold'[k] # <<>> /\ untold'[k] \in Seq(Values \cup {NoValue})
        /\ untold'[k][Len(untold'[k])] = Announced(k)'
    BY <1>3, <1>4
  <1>6. UntoldKnown'
    <2>1. untold' \in [Keys -> Seq(Values \cup {NoValue})]
      BY <1>4, <1>5 DEF IInv, UntoldKnown
    <2>2. ASSUME NEW j \in Keys \ crossed, untold'[j] # <<>>
          PROVE  untold'[j][Len(untold'[j])] = Announced(j)'
      <3>1. CASE j = k
        BY <1>5, <3>1
      <3>2. CASE j # k
        BY <1>4, <2>2, <3>2, TableStep DEF IInv, UntoldKnown, Announced
      <3> QED
        BY <3>1, <3>2
    <2> QED
      BY <2>1, <2>2 DEF IInv, UntoldKnown
  <1>7. \A j \in Keys : j \notin Excused' => j # k /\ j \notin Excused
    BY <1>4, <1>5 DEF Excused, managerVars
  <1>8. HeardKnown'
    BY <1>7, TableStep DEF IInv, ManagerInv, HeardKnown, Plain, managerVars, memory
  <1>9. FileKnown'
    BY DEF IInv, ManagerInv, FileKnown, FromDb, managerVars, memory
  <1> QED
    BY <1>1, <1>2, <1>6, <1>8, <1>9 DEF ManagerInv

(* What is published, in whatever order, keeps what the subscriber knows. *)
LEMMA PublishInv ==
  ASSUME IInv, NEW k \in Keys, NEW i \in DOMAIN untold[k], Publish(k, i)
  PROVE  ManagerInv' /\ UntoldKnown'
  <1> DEFINE m == [key |-> k, value |-> untold[k][i]]
  <1>1. /\ untold[k] \in Seq(Values \cup {NoValue}) /\ untold[k][i] \in Values \cup {NoValue}
        /\ i \in 1 .. Len(untold[k]) /\ Len(untold[k]) \in Nat /\ m \in Message
    BY DEF IInv, UntoldKnown, Message
  <1>2. /\ \A j \in Keys \ {k} : untold'[j] = untold[j]
        /\ untold'[k] = SubSeq(untold[k], 1, i - 1) \o SubSeq(untold[k], i + 1, Len(untold[k]))
    BY DEF IInv, UntoldKnown, Publish, Seqs!RemoveAt
  <1>3. /\ untold'[k] \in Seq(Values \cup {NoValue})
        /\ i = 1 => /\ Len(untold'[k]) = Len(untold[k]) - 1
                    /\ untold'[k] # <<>> =>
                         untold'[k][Len(untold'[k])] = untold[k][Len(untold[k])]
    <2> DEFINE s == untold[k]
               p == SubSeq(s, 1, i - 1)
               q == SubSeq(s, i + 1, Len(s))
    <2>1. s \in Seq(Values \cup {NoValue}) /\ i \in 1 .. Len(s) /\ Len(s) \in Nat
      BY <1>1
    <2>2. p \in Seq(Values \cup {NoValue}) /\ q \in Seq(Values \cup {NoValue})
      <3> HIDE DEF s
      <3>1. \A n \in 1 .. i - 1 : n \in 1 .. Len(s)
        BY <2>1
      <3>2. \A n \in i + 1 .. Len(s) : n \in 1 .. Len(s)
        BY <2>1
      <3>3. \A n \in 1 .. Len(s) : s[n] \in Values \cup {NoValue}
        BY <2>1
      <3> QED
        BY <2>1, <3>1, <3>2, <3>3, SubSeqProperties
    <2>3. /\ Len(p) = i - 1 /\ Len(q) = Len(s) - i
          /\ \A n \in 1 .. Len(s) - i : q[n] = s[i + n]
      <3> HIDE DEF s
      <3> QED
        BY <2>1, SubSeqProperties
    <2>4. /\ p \o q \in Seq(Values \cup {NoValue})
          /\ Len(p \o q) = Len(p) + Len(q)
          /\ Len(p) = 0 => \A n \in 1 .. Len(q) : (p \o q)[n] = q[n]
      <3> HIDE DEF p, q
      <3> QED
        BY <2>2
    <2>5. untold'[k] = p \o q
      BY <1>2
    <2> HIDE DEF p, q, s
    <2>6. ASSUME i = 1
          PROVE  /\ Len(p \o q) = Len(s) - 1
                 /\ p \o q # <<>> => (p \o q)[Len(p \o q)] = s[Len(s)]
      <3>1. Len(p) = 0 /\ Len(q) = Len(s) - 1 /\ Len(p \o q) = Len(s) - 1
        BY <2>1, <2>3, <2>4, <2>6
      <3>2. p \o q # <<>> => Len(p \o q) # 0
        BY <2>4
      <3>3. p \o q # <<>> => /\ Len(s) - 1 \in 1 .. Len(q) /\ Len(s) - 1 \in 1 .. Len(s) - i
                            /\ i + (Len(s) - 1) = Len(s)
        BY <2>1, <2>6, <3>1, <3>2
      <3> QED
        BY <2>3, <2>4, <3>1, <3>3
    <2> QED
      BY <2>4, <2>5, <2>6 DEF s
  <1>4. \A j \in Keys \ {k} : j \notin Excused' => j \notin Excused
    BY <1>2 DEF Excused, Publish, Published
  <1>5. k \notin Excused' => untold[k][i] = Announced(k)
    <2>1. k \notin Excused' => i = 1 /\ k \notin crossed /\ untold'[k] = <<>>
      BY DEF Excused, Publish
    <2>2. k \notin Excused' => i = Len(untold[k])
      <3>1. untold'[k] = <<>> => Len(untold'[k]) = 0
        OBVIOUS
      <3>2. ASSUME i = 1, Len(untold'[k]) = 0 PROVE i = Len(untold[k])
        <4>1. Len(untold[k]) - 1 = 0
          BY <1>3, <3>2
        <4> QED
          BY <1>1, <3>2, <4>1
      <3> QED
        BY <2>1, <3>1, <3>2
    <2> QED
      BY <1>1, <2>1, <2>2 DEF IInv, UntoldKnown
  <1>6. UntoldKnown'
    <2>1. untold' \in [Keys -> Seq(Values \cup {NoValue})] /\ crossed' \subseteq Keys
      BY <1>3 DEF IInv, UntoldKnown, Publish
    <2>2. ASSUME NEW j \in Keys, j \notin crossed', untold'[j] # <<>>
          PROVE  untold'[j][Len(untold'[j])] = Announced(j)'
      <3>1. j \notin crossed /\ Announced(j)' = Announced(j) /\ (j = k => i = 1)
        BY <2>2 DEF Publish, tableVars, Announced
      <3>2. CASE j = k
        BY <1>1, <1>3, <2>2, <3>1, <3>2 DEF IInv, UntoldKnown
      <3>3. CASE j # k
        BY <1>2, <2>2, <3>1, <3>3 DEF IInv, UntoldKnown
      <3> QED
        BY <3>2, <3>3
    <2>3. uses' = "settings"
      BY DEF Publish
    <2> QED
      BY <2>1, <2>2, <2>3 DEF UntoldKnown
  <1>7. ManagerTypeOK'
    <2>1. chan' \in Seq(Message)
      <3>1. chan' \in {chan, Append(chan, m)}
        BY DEF Publish, Published
      <3> HIDE DEF m
      <3> QED
        BY <1>1, <3>1, SMTT(30) DEF IInv, ManagerInv, ManagerTypeOK
    <2> QED
      BY <2>1, SMTT(30) DEF IInv, ManagerInv, ManagerTypeOK, Publish, Published, memory
  <1>8. PollerKnown'
    BY DEF IInv, ManagerInv, PollerKnown, Pending, Plain, Publish, Published, memory, tableVars
  <1>9. HeardKnown'
    <2>1. CASE phase # "listening"
      BY <1>4, <2>1 DEF IInv, ManagerInv, HeardKnown, Plain, Excused, Publish, Published, memory,
         tableVars
    <2>2. CASE phase = "listening"
      <3>1. /\ chan' = Append(chan, m) /\ phase' = "listening" /\ UNCHANGED <<lost, cache, table>>
            /\ chan \in Seq(Message) /\ m.key = k /\ m.value = untold[k][i]
        BY <2>2 DEF IInv, ManagerInv, ManagerTypeOK, Message, Publish, Published, memory, tableVars
      <3> HIDE DEF m
      <3>2. /\ Len(chan) \in Nat /\ Len(chan') = Len(chan) + 1 /\ chan'[Len(chan')] = m
            /\ \A z \in 1 .. Len(chan) : chan'[z] = chan[z]
        BY <1>1, <3>1 DEF Message
      <3>3. \A z \in 1 .. Len(chan') : z \in 1 .. Len(chan) \/ z = Len(chan')
        BY <3>2
      <3>4. Plain(k)' /\ k \notin Excused' => \E n \in 1 .. Len(chan') :
                           /\ chan'[n].key = k /\ chan'[n].value = table'[k].val
                           /\ \A j \in n + 1 .. Len(chan') : chan'[j].key # k
        <4>1. Len(chan') \in 1 .. Len(chan') /\ \A j \in Len(chan') + 1 .. Len(chan') : FALSE
          BY <3>2
        <4>2. Plain(k)' /\ k \notin Excused' => untold[k][i] = table'[k].val
          BY <1>5, <3>1 DEF Plain, Announced
        <4> QED
          BY <4>1, <4>2, <3>1, <3>2
      <3>5. ASSUME NEW j \in Keys \ {k}, Plain(j)', j \notin Excused'
            PROVE  \/ /\ cache'[j] = table'[j].val
                      /\ \A z \in 1 .. Len(chan') : chan'[z].key # j
                   \/ \E z \in 1 .. Len(chan') :
                        /\ chan'[z].key = j /\ chan'[z].value = table'[j].val
                        /\ \A n \in z + 1 .. Len(chan') : chan'[n].key # j
        <4>1. table'[j] = table[j] /\ Plain(j) /\ j \notin Excused
          BY <1>4, <3>1, <3>5 DEF Plain
        <4>2. CASE cache[j] = table[j].val /\ \A z \in 1 .. Len(chan) : chan[z].key # j
          BY <4>1, <4>2, <3>1, <3>2, <3>3
        <4>3. ASSUME NEW z \in 1 .. Len(chan), chan[z].key = j, chan[z].value = table[j].val,
                     \A n \in z + 1 .. Len(chan) : chan[n].key # j
              PROVE  \E q \in 1 .. Len(chan') :
                        /\ chan'[q].key = j /\ chan'[q].value = table'[j].val
                        /\ \A n \in q + 1 .. Len(chan') : chan'[n].key # j
          <5>1. z \in 1 .. Len(chan') /\ chan'[z] = chan[z]
            BY <3>2
          <5>2. \A n \in z + 1 .. Len(chan') : n \in z + 1 .. Len(chan) \/ n = Len(chan')
            BY <3>2
          <5>3. \A n \in z + 1 .. Len(chan) : chan'[n] = chan[n]
            BY <3>2
          <5>4. \A n \in z + 1 .. Len(chan') : chan'[n].key # j
            BY <5>2, <5>3, <4>3, <3>1, <3>2
          <5> QED
            BY <5>1, <5>4, <4>1, <4>3
        <4> QED
          BY <4>1, <4>2, <4>3, <2>2 DEF IInv, ManagerInv, HeardKnown
      <3> QED
        BY <3>1, <3>4, <3>5 DEF HeardKnown
    <2> QED
      BY <2>1, <2>2
  <1>10. FileKnown'
    BY DEF IInv, ManagerInv, FileKnown, FromDb, Publish, Published, memory
  <1> QED
    BY <1>6, <1>7, <1>8, <1>9, <1>10 DEF ManagerInv

(* Every step of the specification preserves the invariant. *)
LEMMA StepInv == IInv /\ [Next]_vars => IInv'
  <1> SUFFICES ASSUME IInv, [Next]_vars PROVE IInv'
    OBVIOUS
  <1>1. ASSUME NEW k \in Keys, CommitWrite(k) \/ DeleteRow(k), uses = "settings",
               untold' = [untold EXCEPT ![k] = Append(@, Announced(k)')],
               UNCHANGED <<managerVars, flagVars, uses, crossed>>
        PROVE  IInv'
    <2>1. TableInv' /\ ManagerInv' /\ UntoldKnown'
      BY <1>1, TableStep, CommitInv
    <2>2. FlagsInv'
      BY <1>1 DEF IInv, FlagsInv, FlagsTypeOK, FlagsKnown, flagVars
    <2> QED
      BY <2>1, <2>2 DEF IInv
  <1>2. ASSUME NEW k \in Keys, CommitWrite(k) \/ DeleteRow(k), uses = "flags",
               Remembered(k), UNCHANGED <<managerVars, uses, untold, crossed>>
        PROVE  IInv'
    <2>1. TableInv'
      BY <1>2, TableStep
    <2>2. ManagerInv'
      <3>1. /\ phase = "new" /\ rows = {} /\ newest <= newest'
            /\ newest \in Nat /\ newest' \in Nat /\ cursor \in Nat /\ latest \in Nat
   BY <1>2, <2>1, TableStep DEF IInv, ManagerInv, ManagerTypeOK, PollerKnown, TableInv, TableTypeOK
      <3>2. PollerKnown'
        BY <1>2, <3>1 DEF IInv, ManagerInv, PollerKnown, managerVars, memory
      <3> QED
        BY <1>2, <3>1, <3>2 DEF IInv, ManagerInv, ManagerTypeOK, HeardKnown, FileKnown, FromDb,
           managerVars, memory
    <2>3. FlagsInv'
      BY <1>2, TableStep DEF IInv, FlagsInv, FlagsTypeOK, FlagsKnown, Remembered
    <2>4. UntoldKnown'
      BY <1>2 DEF IInv, UntoldKnown
    <2> QED
      BY <2>1, <2>2, <2>3, <2>4 DEF IInv
  <1>3. CASE Write
    <2>1. Written[uses] \subseteq Values
      BY WrittenAssumption DEF IInv, UntoldKnown
    <2> QED
      BY <1>1, <1>2, <1>3, <2>1, BeginInv DEF Write
  <1>4. CASE Settings(ManagerNext)
    <2>1. ManagerInv'
      BY <1>4, ManagerStep
    <2>2. TableInv' /\ FlagsInv'
      BY <1>4 DEF IInv, TableInv, TableTypeOK, TableKnown, FlagsInv, FlagsTypeOK, FlagsKnown, Settings,
         tableVars, flagVars
    <2>3. UntoldKnown'
      BY <1>4 DEF IInv, UntoldKnown, Announced, Settings, tableVars
    <2> QED
      BY <2>1, <2>2, <2>3 DEF IInv
  <1>5. CASE Flags(FlagsNext)
    <2>1. FlagsInv'
      BY <1>5, FlagsStep
    <2>2. TableInv' /\ ManagerInv'
      BY <1>5 DEF IInv, TableInv, TableTypeOK, TableKnown, ManagerInv, ManagerTypeOK, PollerKnown,
         HeardKnown, FileKnown, FromDb, Excused, Pending, Plain, Flags, tableVars, managerVars, memory
    <2>3. UntoldKnown'
      BY <1>5 DEF IInv, UntoldKnown, Announced, Flags, tableVars
    <2> QED
      BY <2>1, <2>2, <2>3 DEF IInv
  <1>6. CASE UNCHANGED vars
    BY <1>6 DEF IInv, TableInv, TableTypeOK, TableKnown, ManagerInv, ManagerTypeOK, PollerKnown,
       HeardKnown, FileKnown, FromDb, Excused, UntoldKnown, Announced, Pending, Plain, FlagsInv, FlagsTypeOK, FlagsKnown, vars, tableVars,
       managerVars, memory, flagVars
  <1>7. ASSUME NEW k \in Keys, NEW i \in DOMAIN untold[k], Publish(k, i) PROVE IInv'
    <2>1. ManagerInv' /\ UntoldKnown'
      BY <1>7, PublishInv
    <2>2. TableInv' /\ FlagsInv'
      BY <1>7 DEF IInv, TableInv, TableTypeOK, TableKnown, FlagsInv, FlagsTypeOK, FlagsKnown, Publish,
         tableVars, flagVars
    <2> QED
      BY <2>1, <2>2 DEF IInv
  <1> QED
    BY <1>3, <1>4, <1>5, <1>6, <1>7 DEF Next

(* The invariant holds in every reachable state. *)
LEMMA Invariance == Spec => []IInv
  BY InitInv, StepInv, PTL DEF Spec

(* The table and both caches stay well typed. *)
THEOREM TypeCorrect == Spec => []TypeOK
  <1>1. IInv => TypeOK
    BY DEF IInv, TableInv, ManagerInv, FlagsInv, TypeOK
  <1> QED
    BY <1>1, Invariance, PTL

(* _poll_once never moves its cursor past a row it has not applied, if     *)
(* rows are committed in the order of updated_at.                          *)
THEOREM PassedAlways == Spec => []PassedWasApplied
  <1>1. IInv => PassedWasApplied
    <2> SUFFICES ASSUME IInv, NEW k \in Keys, phase \in {"polling", "applying"}, Plain(k),
                        k \notin late, table[k].at <= cursor
                 PROVE  cache[k] = table[k].val
      BY DEF PassedWasApplied
    <2>1. CASE phase = "polling"
      BY <2>1 DEF IInv, ManagerInv, PollerKnown
    <2>2. CASE phase = "applying"
      <3>1. cursor <= latest /\ cursor \in Nat /\ latest \in Nat /\ table[k].at \in Nat
        BY <2>2, StampType DEF IInv, ManagerInv, ManagerTypeOK, PollerKnown
      <3>2. ~ Pending(k)
        BY <3>1 DEF Pending
      <3>3. [key |-> k, row |-> table[k]] \notin rows
        <4>1. \A r \in rows : cursor < r.row.at
          BY DEF IInv, ManagerInv, PollerKnown
        <4>2. ~ (cursor < table[k].at)
          BY <3>1
        <4> QED
          BY <4>1, <4>2
      <3> QED
        BY <2>2, <3>2, <3>3 DEF IInv, ManagerInv, PollerKnown
    <2> QED
      BY <2>1, <2>2
  <1> QED
    BY <1>1, Invariance, PTL

(* A subscriber that has handled its messages has the settings of the      *)
(* table, unless a change fell into a gap.                                 *)
THEOREM HeardAlways == Spec => []HeardIsCached
  <1>1. IInv => HeardIsCached
    BY DEF IInv, ManagerInv, HeardKnown, HeardIsCached
  <1> QED
    BY <1>1, Invariance, PTL

(* The cache file follows the memory of the process through loads,         *)
(* failures, messages and restarts.                                        *)
THEOREM FileAlways == Spec => []FileIsCurrent
  <1>1. IInv => FileIsCurrent
    BY DEF IInv, ManagerInv, FileKnown, FromDb, FileIsCurrent
  <1> QED
    BY <1>1, Invariance, PTL

(* allowed() grants only what a row of the table has granted since the     *)
(* flag was last invalidated.                                              *)
THEOREM GrantsAlways == Spec => []GrantsAreCurrent
  <1>1. IInv => GrantsAreCurrent
    <2> SUFFICES ASSUME IInv, NEW k \in Keys, NEW groups \in SUBSET Groups,
                        Allowed(k, RolesOf(groups))
                 PROVE  \E v \in held[k], role \in RolesOf(groups) : Grants(v, role)
      BY DEF GrantsAreCurrent
    <2>1. PICK v \in held[k] : flags[k] = Parse(v)
      BY DEF Allowed, IInv, FlagsInv, FlagsKnown
    <2>2. PICK role \in RolesOf(groups) : role \in flags[k].roles
      BY DEF Allowed
    <2>3. flags[k] # Unknown /\ flags[k].enabled
      BY DEF Allowed
    <2>4. v # NoValue
      BY <2>1, <2>3 DEF Parse
    <2>5. v # Malformed
      BY <2>1, <2>2, <2>4 DEF Parse
    <2>6. v.enabled /\ role \in v.roles
      BY <2>1, <2>2, <2>3, <2>4, <2>5 DEF Parse
    <2> QED
      BY <2>4, <2>5, <2>6 DEF Grants
  <1> QED
    BY <1>1, Invariance, PTL
=============================================================================
