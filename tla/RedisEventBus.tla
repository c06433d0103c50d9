--------------------------- MODULE RedisEventBus ---------------------------
(***************************************************************************)
(* The Redis Streams event bus of omkit/eventbus.py, on one topic, beside  *)
(* consumers of the same group built from omkit/valkeystream.py.           *)
(*                                                                         *)
(* The server delivers each entry of the stream once to the group and      *)
(* keeps it in the pending list until somebody acknowledges it.            *)
(* RedisEventBus.subscribe reads new entries only; a StreamConsumer can    *)
(* also claim what has been pending for long.                              *)
(***************************************************************************)
EXTENDS Naturals, FiniteSets

CONSTANTS
    Buses,          \* RedisEventBus.subscribe() calls
    Workers,        \* loops of a service around a StreamConsumer
    Count,          \* count, the size of a batch
    MaxEvents,      \* bound: entries added to the stream
    MaxFaults       \* bound: commands that fail, handlers that raise, crashes

Consumers == Buses \cup Workers

ASSUME ConsumersAssumption == Buses \cap Workers = {}
ASSUME BoundsAssumption ==
    /\ Count \in Nat \ {0}
    /\ MaxEvents \in Nat
    /\ MaxFaults \in Nat

VARIABLES
    stream,     \* ids of the entries
    malformed,  \* entries without a JSON payload
    group,      \* the consumer group exists
    delivered,  \* entries up to the group's last-delivered id
    pending,    \* the group's pending entries list
    pc,         \* where each consumer is
    rows,       \* rows[c]: entries of its batch that c has not dealt with
    closed,     \* closed[c]: _stop is set
    faults,
    handled,    \* history: entries whose handler has returned
    claimed,    \* history: entries some worker has claimed
    taken,      \* history: new entries that a worker has read
    dropped     \* history: entries whose delivery to a subscriber has failed

server == <<stream, malformed, group, delivered, pending>>
hist   == <<handled, claimed, taken, dropped>>
vars   == <<server, pc, rows, closed, faults, hist>>

Id == 1 .. MaxEvents

Init ==
    /\ stream = {}
    /\ malformed = {}
    /\ group = FALSE
    /\ delivered = {}
    /\ pending = {}
    /\ pc = [c \in Consumers |-> "down"]
    /\ rows = [c \in Consumers |-> {}]
    /\ closed = [c \in Consumers |-> FALSE]
    /\ faults = 0
    /\ handled = {}
    /\ claimed = {}
    /\ taken = {}
    /\ dropped = {}

Fault == faults < MaxFaults /\ faults' = faults + 1

(* A command fails; after close() has closed the client, any may. *)
CommandFails(c) == Fault \/ (closed[c] /\ UNCHANGED faults)

Goto(c, l) == pc' = [pc EXCEPT ![c] = l]

FirstBatch(S) == {i \in S : Cardinality({j \in S : j < i}) < Count}

NextRow(c, i) == i \in rows[c] /\ \A j \in rows[c] : i <= j

-----------------------------------------------------------------------------
NextId == Cardinality(stream) + 1

(* publish(), publish_tenant() *)
Publish ==
    /\ NextId \in Id
    /\ stream' = stream \cup {NextId}
    /\ UNCHANGED <<malformed, group, delivered, pending, pc, rows, closed, faults, hist>>

(* StreamProducer.add() takes any fields. *)
Add ==
    /\ NextId \in Id
    /\ stream' = stream \cup {NextId}
    /\ malformed' = malformed \cup {NextId}
    /\ UNCHANGED <<group, delivered, pending, pc, rows, closed, faults, hist>>

-----------------------------------------------------------------------------
(* XGROUP CREATE from the start of the stream, in subscribe() and in       *)
(* ensure_group(); a group that exists is no error to either.              *)
Join(c) ==
    /\ pc[c] = "down"
    /\ group' = TRUE
    /\ Goto(c, "loop")
    /\ UNCHANGED <<stream, malformed, delivered, pending, rows, closed, faults, hist>>

(* subscribe() goes on without a group; ensure_group() raises. *)
JoinFails(c) ==
    /\ pc[c] = "down"
    /\ Fault
    /\ Goto(c, IF c \in Buses THEN "loop" ELSE "down")
    /\ UNCHANGED <<server, rows, closed, hist>>

NeverStops(c) == FALSE

(* The test of _stop at the head of the loop. *)
Stops(c) == closed[c]

(* XREADGROUP is sent, and waits for as long as block says. *)
Enter(c) ==
    /\ pc[c] = "loop"
    /\ ~Stops(c)
    /\ Goto(c, "read")
    /\ UNCHANGED <<server, rows, closed, faults, hist>>

Return(b) ==
    /\ b \in Buses
    /\ pc[b] = "loop"
    /\ Stops(b)
    /\ Goto(b, "returned")
    /\ UNCHANGED <<server, rows, closed, faults, hist>>

PendingToo == stream \ (delivered \ pending)

(* XREADGROUP with ">": what the group has not delivered to anybody. *)
New == stream \ delivered

Deliver ==
    /\ group
    /\ New # {}
    /\ delivered' = delivered \cup FirstBatch(New)
    /\ pending' = pending \cup FirstBatch(New)

(* Entries are there, or arrive while the command waits; _stop may have    *)
(* been set meanwhile.                                                     *)
Read(c) ==
    /\ pc[c] = "read"
    /\ Deliver
    /\ rows' = [rows EXCEPT ![c] = FirstBatch(New)]
    /\ taken' = IF c \in Workers THEN taken \cup FirstBatch(New) ELSE taken
    /\ Goto(c, "handle")
    /\ UNCHANGED <<stream, malformed, group, closed, faults, handled, claimed, dropped>>

(* The wait is over, or there is no group. *)
ReadEmpty(c) ==
    /\ pc[c] = "read"
    /\ group => New = {}
    /\ Goto(c, "loop")
    /\ UNCHANGED <<server, rows, closed, faults, hist>>

ReadRaises(c) ==
    /\ pc[c] = "read"
    /\ CommandFails(c)
    /\ Goto(c, "loop")
    /\ UNCHANGED <<server, rows, closed, hist>>

(* The reply is lost: the entries are pending, and no ">" shows them again. *)
ReadLost(c) ==
    /\ pc[c] = "read"
    /\ CommandFails(c)
    /\ Deliver
    /\ dropped' = dropped \cup FirstBatch(New)
    /\ Goto(c, "loop")
    /\ UNCHANGED <<stream, malformed, group, rows, closed, handled, claimed, taken>>

(* StreamConsumer.claim_stale(): XAUTOCLAIM takes up to Count entries that *)
(* have been idle for long, which may be any; whoever had them may still   *)
(* be working on them.                                                     *)
ClaimStale(w, S) ==
    /\ w \in Workers
    /\ pc[w] = "loop"
    /\ S # {}
    /\ Cardinality(S) <= Count
    /\ rows' = [rows EXCEPT ![w] = S]
    /\ claimed' = claimed \cup S
    /\ Goto(w, "handle")
    /\ UNCHANGED <<server, closed, faults, handled, taken, dropped>>

-----------------------------------------------------------------------------
(* The loop over a batch. *)

(* json.loads raises outside the try block: subscribe() ends, with the     *)
(* rest of the batch undone.                                               *)
DecodeRaises(b, i) ==
    /\ b \in Buses
    /\ pc[b] = "handle"
    /\ NextRow(b, i)
    /\ i \in malformed
    /\ Goto(b, "dead")
    /\ rows' = [rows EXCEPT ![b] = {}]
    /\ dropped' = dropped \cup rows[b]
    /\ UNCHANGED <<server, closed, faults, handled, claimed, taken>>

HandlerReturns(c, i) ==
    /\ pc[c] = "handle"
    /\ NextRow(c, i)
    /\ c \in Buses => i \notin malformed
    /\ handled' = handled \cup {i}
    /\ Goto(c, "ack")
    /\ UNCHANGED <<server, rows, closed, faults, claimed, taken, dropped>>

HandlerRaisesAndAcks(c, i) ==
    /\ pc[c] = "handle"
    /\ NextRow(c, i)
    /\ c \in Buses => i \notin malformed
    /\ Fault
    /\ Goto(c, "ack")
    /\ UNCHANGED <<server, rows, closed, hist>>

HandlerRaisesAndBreaks(c, i) ==
    /\ pc[c] = "handle"
    /\ NextRow(c, i)
    /\ c \in Buses => i \notin malformed
    /\ Fault
    /\ rows' = [rows EXCEPT ![c] = {}]
    /\ dropped' = dropped \cup {i}
    /\ UNCHANGED <<server, pc, closed, handled, claimed, taken>>

(* The exception is swallowed and the entry stays pending. *)
HandlerRaises(c, i) ==
    /\ pc[c] = "handle"
    /\ NextRow(c, i)
    /\ c \in Buses => i \notin malformed
    /\ Fault
    /\ rows' = [rows EXCEPT ![c] = @ \ {i}]
    /\ dropped' = dropped \cup {i}
    /\ UNCHANGED <<server, pc, closed, handled, claimed, taken>>

Ack(c, i) ==
    /\ pc[c] = "ack"
    /\ NextRow(c, i)
    /\ pending' = pending \ {i}
    /\ rows' = [rows EXCEPT ![c] = @ \ {i}]
    /\ Goto(c, "handle")
    /\ UNCHANGED <<stream, malformed, group, delivered, closed, faults, hist>>

AckFails(c, i) ==
    /\ pc[c] = "ack"
    /\ NextRow(c, i)
    /\ CommandFails(c)
    /\ rows' = [rows EXCEPT ![c] = @ \ {i}]
    /\ Goto(c, "handle")
    /\ UNCHANGED <<server, closed, hist>>

BatchDone(c) ==
    /\ pc[c] = "handle"
    /\ rows[c] = {}
    /\ Goto(c, "loop")
    /\ UNCHANGED <<server, rows, closed, faults, hist>>

Close(b) ==
    /\ b \in Buses
    /\ ~closed[b]
    /\ closed' = [closed EXCEPT ![b] = TRUE]
    /\ UNCHANGED <<server, pc, rows, faults, hist>>

Crash(c) ==
    /\ pc[c] # "down"
    /\ Fault
    /\ Goto(c, "down")
    /\ rows' = [rows EXCEPT ![c] = {}]
    /\ closed' = [closed EXCEPT ![c] = FALSE]
    /\ dropped' = dropped \cup rows[c]
    /\ UNCHANGED <<server, handled, claimed, taken>>

-----------------------------------------------------------------------------
Progress(c) ==
    \/ Enter(c) \/ Return(c) \/ Read(c) \/ ReadEmpty(c) \/ BatchDone(c)
    \/ \E i \in Id : HandlerReturns(c, i) \/ DecodeRaises(c, i) \/ Ack(c, i)

Failure(c) ==
    \/ JoinFails(c) \/ ReadRaises(c) \/ ReadLost(c) \/ Crash(c)
    \/ \E i \in Id : HandlerRaises(c, i) \/ AckFails(c, i)

Next ==
    \/ Publish \/ Add
    \/ \E c \in Consumers : Join(c) \/ Progress(c) \/ Failure(c) \/ Close(c)
    \/ \E w \in Workers, S \in SUBSET pending : ClaimStale(w, S)

Spec == Init /\ [][Next]_vars

(* The event loop runs subscribe(); commands and handlers end.  Nothing is *)
(* assumed of the workers, and nobody has to subscribe.                    *)
FairSpec == Spec /\ \A b \in Buses : WF_vars(Progress(b))

-----------------------------------------------------------------------------
TypeOK ==
    /\ stream \subseteq Id
    /\ malformed \subseteq stream
    /\ group \in BOOLEAN
    /\ delivered \subseteq stream
    /\ pending \subseteq delivered
    /\ pc \in [Consumers -> {"down", "loop", "read", "handle", "ack", "dead",
                         "returned"}]
    /\ rows \in [Consumers -> SUBSET delivered]
    /\ closed \in [Consumers -> BOOLEAN]
    /\ faults \in 0 .. MaxFaults
    /\ handled \subseteq delivered
    /\ claimed \subseteq delivered
    /\ taken \subseteq delivered
    /\ dropped \subseteq delivered

(* An entry in the hands of a bus that somebody has already handled was    *)
(* claimed from it: subscribers of one group never share an entry, and a   *)
(* restart does not bring one back.                                        *)
HandledOnceUnlessClaimed ==
    \A b \in Buses : pc[b] = "handle" => rows[b] \cap handled \subseteq claimed

Over(b) == pc[b] \in {"down", "dead", "returned"}

(* An entry is handled, although publishers, subscribers and workers come  *)
(* and go, unless no subscriber is left running, the group was never       *)
(* created (subscribe() tries once), a worker has read it, or its delivery *)
(* has failed: the subscription reads new entries only, and so never       *)
(* repeats one whose handler raised, whose reply was lost, or that was in  *)
(* the batch when the process crashed or a malformed entry ended           *)
(* subscribe().  Nothing else may cost an entry, and a handler that raises *)
(* does not cost the rest of its batch.                                    *)
EventuallyHandled ==
    \A i \in Id :
        [](i \in stream =>
            \/ <>(i \in handled \cup taken \cup dropped)
            \/ <>[](~group \/ \A b \in Buses : Over(b)))

(* A closed bus ends its subscription, also when close() comes while a     *)
(* read is blocked or a handler runs, and also when the client fails from  *)
(* then on.  It may end otherwise before: by a crash ("down"), or because  *)
(* an entry is malformed ("dead").                                         *)
CloseEndsSubscription ==
    \A b \in Buses : closed[b] /\ pc[b] # "down" ~> Over(b)

(* The group settles an entry only after its handler has returned. *)
Delivery == INSTANCE AtLeastOnce WITH
    Event     <- Id,
    published <- stream,
    settled   <- delivered \ pending

DeliversAtLeastOnce == Delivery!Spec
=============================================================================
