------------------------- MODULE PostgresEventBus -------------------------
(***************************************************************************)
(* The polling event bus of omkit/eventbus.py: publishers insert rows into *)
(* the events table, and the subscribers of one consumer name poll it,     *)
(* hand each row to a handler and save the id of the last handled row as   *)
(* the offset of their topic.                                              *)
(*                                                                         *)
(* The id of a row is drawn from the BIGSERIAL sequence when the INSERT    *)
(* runs; the row becomes visible when its transaction commits, and an      *)
(* aborted transaction leaves a gap.  Several subscribers may be replicas: *)
(* processes that share the consumer name and topic, hence the offset row. *)
(***************************************************************************)
EXTENDS Naturals, FiniteSets

CONSTANTS
    MaxOpen,        \* callers that can be inside publish() at the same time
    Subscribers,    \* subscribe() calls, each in a process of its own
    Topics,
    Subscriptions,  \* the possible assignments of a topic to each subscriber
    BatchSize,      \* batch_size, the LIMIT of a poll
    MaxEvents,      \* bound: ids drawn from the sequence
    MaxCrashes      \* bound: crashes of subscriber processes

ASSUME SubscriptionsAssumption == Subscriptions \subseteq [Subscribers -> Topics]
ASSUME BoundsAssumption ==
    /\ BatchSize \in Nat \ {0}
    /\ MaxOpen \in Nat
    /\ MaxEvents \in Nat
    /\ MaxCrashes \in Nat

VARIABLES
    nextId,     \* next value of the id sequence
    open,       \* rows inserted by transactions that have not ended
    committed,  \* committed[t]: ids of the visible rows of topic t
    offset,     \* offset[t]: last_id of the consumer's event_offsets row
    subTopic,   \* subTopic[s]: the topic argument of subscribe()
    pc,         \* where each subscriber is in subscribe()
    rows,       \* rows[s]: fetched ids that s has not handled yet
    last,       \* last[s]: the local variable last_id of _poll_once
    closed,     \* closed[s]: the bus's _stop event is set
    crashes,    \* number of crashes so far
    handled,    \* history, handled[t]: ids whose handler has returned
    late        \* history, late[t]: ids committed after a higher id of t

dbVars  == <<nextId, open, committed, late>>
subVars == <<offset, subTopic, pc, rows, last, closed, crashes, handled>>
vars    == <<dbVars, subVars>>

Id == 1 .. MaxEvents

Row == [id : Id, topic : Topics]

(* The events of t that were committed in the order of their ids. *)
InOrder(t) == committed[t] \ late[t]

Replicas(t) == {s \in Subscribers : subTopic[s] = t}

Init ==
    /\ nextId = 1
    /\ open = {}
    /\ committed = [t \in Topics |-> {}]
    /\ late = [t \in Topics |-> {}]
    /\ offset = [t \in Topics |-> 0]
    /\ subTopic \in Subscriptions
    /\ pc = [s \in Subscribers |-> "down"]
    /\ rows = [s \in Subscribers |-> {}]
    /\ last = [s \in Subscribers |-> 0]
    /\ closed = [s \in Subscribers |-> FALSE]
    /\ crashes = 0
    /\ handled = [t \in Topics |-> {}]

-----------------------------------------------------------------------------
(* publish() and publish_tenant(): one transaction around one INSERT.      *)

Insert(t) ==
    /\ nextId <= MaxEvents
    /\ Cardinality(open) < MaxOpen
    /\ open' = open \cup {[id |-> nextId, topic |-> t]}
    /\ nextId' = nextId + 1
    /\ UNCHANGED <<committed, late, subVars>>

Commit(x) ==
    /\ x \in open
    /\ open' = open \ {x}
    /\ committed' = [committed EXCEPT ![x.topic] = @ \cup {x.id}]
    /\ late' = IF \E i \in committed[x.topic] : i > x.id
               THEN [late EXCEPT ![x.topic] = @ \cup {x.id}]
               ELSE late
    /\ UNCHANGED <<nextId, subVars>>

(* The transaction fails, or the publisher dies inside it. *)
Rollback(x) ==
    /\ x \in open
    /\ open' = open \ {x}
    /\ UNCHANGED <<nextId, committed, late, subVars>>

-----------------------------------------------------------------------------
(* subscribe(): create the offset row, drain once, then poll until closed. *)

(* A row that exists is kept (ON CONFLICT DO NOTHING); without one,        *)
(* offset[t] is already 0.  The first drain does not look at _stop.        *)
RegisteredOffset(t) == offset[t]

Subscribe(s) ==
    /\ pc[s] = "down"
    /\ pc' = [pc EXCEPT ![s] = "poll"]
    /\ offset' = [offset EXCEPT ![subTopic[s]] = RegisteredOffset(subTopic[s])]
    /\ UNCHANGED <<dbVars, subTopic, rows, last, closed, crashes, handled>>

(* WHERE topic = $1 AND id > last_id *)
Pending(t) == {i \in committed[t] : i > offset[t]}

(* ORDER BY id LIMIT BatchSize *)
FirstBatch(S) == {i \in S : Cardinality({j \in S : j < i}) < BatchSize}

Fetch(s) ==
    /\ pc[s] = "poll"
    /\ rows' = [rows EXCEPT ![s] = FirstBatch(Pending(subTopic[s]))]
    /\ pc' = [pc EXCEPT ![s] = "handle"]
    /\ UNCHANGED <<dbVars, offset, subTopic, last, closed, crashes, handled>>

(* The loop over the rows takes them in the order of their ids. *)
NextRow(s, i) == i \in rows[s] /\ \A j \in rows[s] : i <= j

HandlerReturns(s, i) ==
    /\ pc[s] = "handle"
    /\ NextRow(s, i)
    /\ handled' = [handled EXCEPT ![subTopic[s]] = @ \cup {i}]
    /\ rows' = [rows EXCEPT ![s] = @ \ {i}]
    /\ last' = [last EXCEPT ![s] = i]
    /\ UNCHANGED <<dbVars, offset, subTopic, pc, closed, crashes>>

UncheckedOffset(s) == last[s]

(* "if last_id:", an empty poll leaves the offset alone. *)
SavedOffset(s) == IF last[s] # 0 THEN last[s] ELSE offset[subTopic[s]]

SaveOffset(s) ==
    /\ pc[s] = "handle"
    /\ rows[s] = {}
    /\ offset' = [offset EXCEPT ![subTopic[s]] = SavedOffset(s)]
    /\ last' = [last EXCEPT ![s] = 0]
    /\ pc' = [pc EXCEPT ![s] = "wait"]
    /\ UNCHANGED <<dbVars, subTopic, rows, closed, crashes, handled>>

PollRaisesAndStops(s) ==
    /\ pc[s] \in {"poll", "handle"}
    /\ pc' = [pc EXCEPT ![s] = "returned"]
    /\ rows' = [rows EXCEPT ![s] = {}]
    /\ last' = [last EXCEPT ![s] = 0]
    /\ UNCHANGED <<dbVars, offset, subTopic, closed, crashes, handled>>

PollRaisesAndSaves(s) ==
    /\ pc[s] \in {"poll", "handle"}
    /\ pc' = [pc EXCEPT ![s] = "wait"]
    /\ offset' = [offset EXCEPT ![subTopic[s]] =
                      IF rows[s] = {} THEN @ ELSE CHOOSE i \in rows[s] : TRUE]
    /\ rows' = [rows EXCEPT ![s] = {}]
    /\ last' = [last EXCEPT ![s] = 0]
    /\ UNCHANGED <<dbVars, subTopic, closed, crashes, handled>>

(* The fetch, a handler or the UPDATE raises: subscribe() swallows it, the *)
(* rest of the batch is dropped and the offset stays where it was.         *)
PollRaises(s) ==
    /\ pc[s] \in {"poll", "handle"}
    /\ pc' = [pc EXCEPT ![s] = "wait"]
    /\ rows' = [rows EXCEPT ![s] = {}]
    /\ last' = [last EXCEPT ![s] = 0]
    /\ UNCHANGED <<dbVars, offset, subTopic, closed, crashes, handled>>

DeafToClose(s) == "poll"

(* wait_for(_stop.wait(), poll_interval), then the test of _stop. *)
AfterWait(s) == IF closed[s] THEN "returned" ELSE "poll"

Wait(s) ==
    /\ pc[s] = "wait"
    /\ pc' = [pc EXCEPT ![s] = AfterWait(s)]
    /\ UNCHANGED <<dbVars, offset, subTopic, rows, last, closed, crashes, handled>>

Close(s) ==
    /\ ~closed[s]
    /\ closed' = [closed EXCEPT ![s] = TRUE]
    /\ UNCHANGED <<dbVars, offset, subTopic, pc, rows, last, crashes, handled>>

(* The process of s dies; a new one has a bus of its own. *)
Crash(s) ==
    /\ pc[s] # "down"
    /\ crashes < MaxCrashes
    /\ crashes' = crashes + 1
    /\ pc' = [pc EXCEPT ![s] = "down"]
    /\ rows' = [rows EXCEPT ![s] = {}]
    /\ last' = [last EXCEPT ![s] = 0]
    /\ closed' = [closed EXCEPT ![s] = FALSE]
    /\ UNCHANGED <<dbVars, offset, subTopic, handled>>

-----------------------------------------------------------------------------
Publisher ==
    \/ \E t \in Topics : Insert(t)
    \/ \E x \in open : Commit(x) \/ Rollback(x)

Subscriber(s) ==
    \/ Subscribe(s)
    \/ Fetch(s)
    \/ \E i \in Id : HandlerReturns(s, i)
    \/ SaveOffset(s)
    \/ PollRaises(s)
    \/ Wait(s)
    \/ Close(s)
    \/ Crash(s)

Next == Publisher \/ \E s \in Subscribers : Subscriber(s)

Spec == Init /\ [][Next]_vars

(***************************************************************************)
(* The event loop keeps a subscription going, and what fails (the          *)
(* database, the handler of one event) does not fail for ever.  Fairness   *)
(* is per event: an event whose handler always raises blocks its topic.    *)
(***************************************************************************)
Fairness ==
    \A s \in Subscribers :
        /\ WF_vars(Wait(s))
        /\ SF_vars(Fetch(s))
        /\ SF_vars(SaveOffset(s))
        /\ \A i \in Id : SF_vars(HandlerReturns(s, i))

FairSpec == Spec /\ Fairness

-----------------------------------------------------------------------------
TypeOK ==
    /\ nextId \in 1 .. MaxEvents + 1
    /\ open \subseteq Row
    /\ committed \in [Topics -> SUBSET Id]
    /\ late \in [Topics -> SUBSET Id]
    /\ offset \in [Topics -> 0 .. MaxEvents]
    /\ subTopic \in [Subscribers -> Topics]
    /\ pc \in [Subscribers -> {"down", "poll", "handle", "wait", "returned"}]
    /\ rows \in [Subscribers -> SUBSET Id]
    /\ last \in [Subscribers -> 0 .. MaxEvents]
    /\ closed \in [Subscribers -> BOOLEAN]
    /\ crashes \in 0 .. MaxCrashes
    /\ handled \in [Topics -> SUBSET Id]

(* What the handlers have seen: only visible events of the topic they were *)
(* subscribed to (eventbus.py, the WHERE clause of _poll_once).            *)
OnlyVisibleHandled == \A t \in Topics : handled[t] \subseteq committed[t]

(* The offset never passes an event that no handler has returned from,     *)
(* through handler failures, crashes and the overlapping batches of        *)
(* replicas (_poll_once: the offset is the id of the last handled row).    *)
(* It can pass an event committed after a higher id.                       *)
PassedWasHandled ==
    \A t \in Topics : \A i \in InOrder(t) : i <= offset[t] => i \in handled[t]

(* The same for every committed event: "delivers them to subscribers by    *)
(* polling" (eventbus.py:5).                                               *)
NoEventSkipped ==
    \A t \in Topics : \A i \in committed[t] : i <= offset[t] => i \in handled[t]

(* Events of a topic are first handled in the order of their ids: at any   *)
(* time the handled events committed in order form a prefix.               *)
HandledInOrder ==
    \A t \in Topics : \A i \in handled[t], j \in InOrder(t) :
        j < i => j \in handled[t]

(* A topic with a single subscriber resumes where it stopped: no failure,  *)
(* restart or empty poll moves its offset back.  (Replicas can move it     *)
(* back: the UPDATE takes no maximum.)                                     *)
SoleSubscriberNeverRewinds ==
    [][\A t \in Topics :
         (\A r, s \in Replicas(t) : r = s) => offset'[t] >= offset[t]]_vars

(* Every event committed in order is handled, unless every subscriber of   *)
(* its topic is down or closed: no exception ends a subscription.          *)
EventuallyHandled ==
    \A t \in Topics, i \in Id :
        i \in InOrder(t) ~> \/ i \in handled[t]
                            \/ \A s \in Replicas(t) : pc[s] = "down" \/ closed[s]

(* A closed bus ends its subscription (close() only sets _stop). *)
CloseEndsSubscription ==
    \A s \in Subscribers :
        closed[s] /\ pc[s] # "down" ~> pc[s] \in {"down", "returned"}

(* The bus delivers at least once the events committed in order. *)
Delivery == INSTANCE AtLeastOnce WITH
    Event     <- Topics \X Id,
    published <- {e \in Topics \X Id : e[2] \in InOrder(e[1])},
    handled   <- {e \in Topics \X Id : e[2] \in InOrder(e[1]) \cap handled[e[1]]},
    settled   <- {e \in Topics \X Id : e[2] \in InOrder(e[1]) /\ e[2] <= offset[e[1]]}

DeliversAtLeastOnce == Delivery!Spec
=============================================================================
