---------------------- MODULE PostgresEventBusProofs ----------------------
(***************************************************************************)
(* What the polling event bus guarantees for every number of publishers,   *)
(* subscribers, topics and events, and for every batch size.               *)
(***************************************************************************)
EXTENDS PostgresEventBus, FiniteSetTheorems, TLAPS

(* The ids of open transactions are fresh: a row becomes visible once. *)
FreshIds ==
    /\ \A x \in open : x.id < nextId /\ x.id \notin committed[x.topic]
    /\ \A t \in Topics : \A i \in committed[t] : i < nextId

(* An offset is 0 or the id of a visible row. *)
OffsetVisible == \A t \in Topics : offset[t] = 0 \/ offset[t] \in committed[t]

(* While s works through a batch, an unhandled event that is not in what   *)
(* is left of the batch is above everything in the batch.                  *)
BatchIsPrefix(s) ==
    LET t == subTopic[s] IN
    /\ rows[s] \subseteq committed[t]
    /\ last[s] = 0 \/ last[s] \in committed[t]
    /\ \A i \in InOrder(t) \ handled[t] :
         i \notin rows[s] => last[s] < i /\ \A j \in rows[s] : j < i

(* Outside _poll_once its local variables hold nothing. *)
BatchesArePrefixes ==
    \A s \in Subscribers :
        IF pc[s] = "handle" THEN BatchIsPrefix(s) ELSE rows[s] = {} /\ last[s] = 0

IInv ==
    /\ TypeOK
    /\ FreshIds
    /\ OffsetVisible
    /\ OnlyVisibleHandled
    /\ PassedWasHandled
    /\ HandledInOrder
    /\ BatchesArePrefixes

-----------------------------------------------------------------------------
(* FirstBatch (ORDER BY id LIMIT) takes a prefix: with a row it takes      *)
(* every lower one.                                                        *)
LEMMA FirstBatchIsPrefix ==
    ASSUME NEW S \in SUBSET Id, NEW i \in S, NEW j \in FirstBatch(S), i <= j
    PROVE  i \in FirstBatch(S)
<1> DEFINE Below(k) == {m \in S : m < k}
<1>1. IsFiniteSet(S)
  <2>1. 1 \in Int /\ MaxEvents \in Int
    BY BoundsAssumption
  <2>2. IsFiniteSet(Id)
    BY <2>1, FS_Interval DEF Id
  <2> QED BY <2>2, FS_Subset
<1>2. IsFiniteSet(Below(i)) /\ IsFiniteSet(Below(j))
  <2>1. Below(i) \subseteq S /\ Below(j) \subseteq S
    OBVIOUS
  <2> QED BY <1>1, <2>1, FS_Subset
<1>3. Below(i) \subseteq Below(j)
  <2>1. \A k \in S : k \in Int
    BY BoundsAssumption DEF Id
  <2>2. j \in S
    BY DEF FirstBatch
  <2> QED BY <2>1, <2>2
<1>4. Cardinality(Below(i)) <= Cardinality(Below(j))
  <2> HIDE DEF Below
  <2> QED BY <1>2, <1>3, FS_Subset
<1>5. Cardinality(Below(j)) < BatchSize
  BY DEF FirstBatch
<1>6. Cardinality(Below(i)) \in Nat /\ Cardinality(Below(j)) \in Nat
  <2> HIDE DEF Below
  <2> QED BY <1>2, FS_CardinalityType
<1>7. Cardinality(Below(i)) < BatchSize
  <2> HIDE DEF Below
  <2> QED BY <1>4, <1>5, <1>6, BoundsAssumption
<1> QED BY <1>7 DEF FirstBatch

(* No event, no offset, nothing fetched: the invariant holds at the start. *)
LEMMA InitIInv == Init => IInv
  BY SubscriptionsAssumption, BoundsAssumption
  DEF Init, IInv, TypeOK, FreshIds, OffsetVisible, OnlyVisibleHandled,
      PassedWasHandled, HandledInOrder, BatchesArePrefixes, InOrder, Id, Row

(* Every step keeps the types. *)
LEMMA NextTypeOK == TypeOK /\ [Next]_vars => TypeOK'
<1> SUFFICES ASSUME TypeOK, [Next]_vars PROVE TypeOK'
  OBVIOUS
<1> USE BoundsAssumption DEF TypeOK, Id, Row, dbVars, subVars
<1>1. ASSUME NEW t \in Topics, Insert(t) PROVE TypeOK'
  BY <1>1 DEF Insert
<1>2. ASSUME NEW x \in open, Commit(x) PROVE TypeOK'
  BY <1>2 DEF Commit
<1>3. ASSUME NEW x \in open, Rollback(x) PROVE TypeOK'
  BY <1>3 DEF Rollback
<1>4. ASSUME NEW s \in Subscribers, Subscribe(s) PROVE TypeOK'
  BY <1>4 DEF Subscribe, RegisteredOffset
<1>5. ASSUME NEW s \in Subscribers, Fetch(s) PROVE TypeOK'
  BY <1>5 DEF Fetch, FirstBatch, Pending
<1>6. ASSUME NEW s \in Subscribers, NEW i \in Id, HandlerReturns(s, i) PROVE TypeOK'
  BY <1>6 DEF HandlerReturns, NextRow
<1>7. ASSUME NEW s \in Subscribers, SaveOffset(s) PROVE TypeOK'
  BY <1>7 DEF SaveOffset, SavedOffset
<1>8. ASSUME NEW s \in Subscribers, PollRaises(s) PROVE TypeOK'
  BY <1>8 DEF PollRaises
<1>9. ASSUME NEW s \in Subscribers, Wait(s) PROVE TypeOK'
  BY <1>9 DEF Wait, AfterWait
<1>10. ASSUME NEW s \in Subscribers, Close(s) PROVE TypeOK'
  BY <1>10 DEF Close
<1>11. ASSUME NEW s \in Subscribers, Crash(s) PROVE TypeOK'
  BY <1>11 DEF Crash
<1>12. CASE UNCHANGED vars
  BY <1>12 DEF vars
<1> QED
  BY <1>1, <1>2, <1>3, <1>4, <1>5, <1>6, <1>7, <1>8, <1>9, <1>10, <1>11, <1>12
  DEF Next, Publisher, Subscriber

(* Every step of a publisher or of a subscriber keeps the invariant. *)
LEMMA NextIInv == IInv /\ [Next]_vars => IInv'
<1> SUFFICES ASSUME IInv, [Next]_vars PROVE IInv'
  OBVIOUS
<1> USE BoundsAssumption
<1>0. TypeOK /\ TypeOK'
  BY NextTypeOK DEF IInv
<1> DEFINE Rest == /\ FreshIds /\ OffsetVisible /\ OnlyVisibleHandled
                   /\ PassedWasHandled /\ HandledInOrder
                   /\ BatchesArePrefixes
<1>a. Rest
  BY DEF IInv
<1> SUFFICES Rest'
  BY <1>0 DEF IInv
<1> USE <1>0, <1>a DEF TypeOK, FreshIds, OffsetVisible, OnlyVisibleHandled,
        PassedWasHandled, HandledInOrder, BatchesArePrefixes, BatchIsPrefix, InOrder, Id, Row,
        dbVars, subVars
<1>1. ASSUME NEW t \in Topics, Insert(t) PROVE Rest'
  BY <1>1 DEF Insert
<1>2. ASSUME NEW x \in open, Commit(x) PROVE Rest'
  <2> USE <1>2 DEF Commit
  <2> DEFINE u == x.topic
  <2>1. u \in Topics /\ x.id \in Id /\ x.id \notin committed[u]
    OBVIOUS
  <2>2. /\ committed'[u] = committed[u] \cup {x.id}
        /\ \A t \in Topics \ {u} : committed'[t] = committed[t] /\ late'[t] = late[t]
    BY <2>1
  <2>3. \A t \in Topics : InOrder(t)' \subseteq InOrder(t) \cup {x.id}
    BY <2>1, <2>2
  <2>4. \A i \in committed[u] : x.id \in InOrder(u)' => i < x.id
    <3> SUFFICES ASSUME NEW i \in committed[u], x.id \in InOrder(u)'
                 PROVE  i < x.id
      OBVIOUS
    <3>1. x.id \notin late'[u]
      OBVIOUS
    <3>2. ~ \E k \in committed[u] : k > x.id
      BY <2>1, <3>1
    <3>3. i \in Int /\ x.id \in Int /\ i # x.id
      BY <2>1
    <3>4. ~(i > x.id)
      BY <3>2
    <3> HIDE <1>0, <1>a, <1>2
    <3> QED BY <3>3, <3>4
  <2>5. FreshIds'
    BY <2>1, <2>2
  <2>6. OffsetVisible' /\ OnlyVisibleHandled'
    BY <2>1, <2>2
  <2>7. PassedWasHandled'
    BY <2>1, <2>2, <2>3, <2>4
  <2>8. HandledInOrder'
    BY <2>1, <2>2, <2>3, <2>4
  <2>9. ASSUME NEW s \in Subscribers, pc[s] = "handle" PROVE BatchIsPrefix(s)'
    BY <2>1, <2>2, <2>3, <2>4, <2>9
  <2> QED BY <2>5, <2>6, <2>7, <2>8, <2>9
<1>3. ASSUME NEW x \in open, Rollback(x) PROVE Rest'
  BY <1>3 DEF Rollback
<1>4. ASSUME NEW s \in Subscribers, Subscribe(s) PROVE Rest'
  BY <1>4 DEF Subscribe, RegisteredOffset
<1>5. ASSUME NEW s \in Subscribers, Fetch(s) PROVE Rest'
  <2> USE <1>5 DEF Fetch
  <2> DEFINE t == subTopic[s]
             P == Pending(t)
  <2>1. t \in Topics /\ P \in SUBSET Id /\ P \subseteq committed[t]
    BY DEF Pending
  <2>2. rows'[s] = FirstBatch(P) /\ FirstBatch(P) \subseteq P
    BY DEF FirstBatch
  <2>3. \A i \in InOrder(t) \ handled[t] : i \in P
    BY <2>1 DEF Pending
  <2>4. \A i \in P : i \notin FirstBatch(P) => \A j \in FirstBatch(P) : j < i
    <3> SUFFICES ASSUME NEW i \in P, i \notin FirstBatch(P),
                        NEW j \in FirstBatch(P), ~(j < i)
                 PROVE  FALSE
      OBVIOUS
    <3>1. i \in Int /\ j \in Int
      BY <2>1, <2>2
    <3> QED BY <3>1, <2>1, FirstBatchIsPrefix
  <2>5. BatchIsPrefix(s)'
    BY <2>1, <2>2, <2>3, <2>4
  <2>6. ASSUME NEW r \in Subscribers, r # s, pc[r] = "handle" PROVE BatchIsPrefix(r)'
    BY <2>6
  <2> QED BY <2>5, <2>6
<1>6. ASSUME NEW s \in Subscribers, NEW i \in Id, HandlerReturns(s, i) PROVE Rest'
  BY <1>6 DEF HandlerReturns, NextRow
<1>7. ASSUME NEW s \in Subscribers, SaveOffset(s) PROVE Rest'
  <2> USE <1>7 DEF SaveOffset, SavedOffset
  <2> DEFINE t == subTopic[s]
  <2>1. t \in Topics /\ BatchIsPrefix(s)
    OBVIOUS
  <2>2. \A i \in InOrder(t) : i <= last[s] => i \in handled[t]
    <3> SUFFICES ASSUME NEW i \in InOrder(t), i <= last[s], i \notin handled[t]
                 PROVE  FALSE
      OBVIOUS
    <3>1. last[s] < i
      BY <2>1
    <3> QED BY <3>1, <2>1
  <2>3. FreshIds' /\ OnlyVisibleHandled' /\ HandledInOrder'
    OBVIOUS
  <2>4. OffsetVisible'
    BY <2>1
  <2>5. PassedWasHandled'
    BY <2>1, <2>2
  <2>6. ASSUME NEW r \in Subscribers, r # s, pc[r] = "handle" PROVE BatchIsPrefix(r)'
    BY <2>6
  <2> QED BY <2>3, <2>4, <2>5, <2>6
<1>8. ASSUME NEW s \in Subscribers, PollRaises(s) PROVE Rest'
  BY <1>8 DEF PollRaises
<1>9. ASSUME NEW s \in Subscribers, Wait(s) PROVE Rest'
  BY <1>9 DEF Wait, AfterWait
<1>10. ASSUME NEW s \in Subscribers, Close(s) PROVE Rest'
  BY <1>10 DEF Close
<1>11. ASSUME NEW s \in Subscribers, Crash(s) PROVE Rest'
  BY <1>11 DEF Crash
<1>12. CASE UNCHANGED vars
  BY <1>12 DEF vars
<1> QED
  BY <1>1, <1>2, <1>3, <1>4, <1>5, <1>6, <1>7, <1>8, <1>9, <1>10, <1>11, <1>12
  DEF Next, Publisher, Subscriber

-----------------------------------------------------------------------------
(* The inductive invariant holds throughout every behaviour. *)
LEMMA SpecIInv == Spec => []IInv
  BY InitIInv, NextIInv, PTL DEF Spec

(* The state of publishers, offsets and subscribers stays well typed. *)
THEOREM TypeCorrect == Spec => []TypeOK
  BY SpecIInv, PTL DEF IInv

(* No offset passes an unhandled event committed in order, whatever fails. *)
THEOREM PassedWasHandledAlways == Spec => []PassedWasHandled
  BY SpecIInv, PTL DEF IInv

(* The events of a topic committed in order are handled as a prefix. *)
THEOREM HandledInOrderAlways == Spec => []HandledInOrder
  BY SpecIInv, PTL DEF IInv

-----------------------------------------------------------------------------
Sole(t) == \A r, s \in Replicas(t) : r = s

(* What a sole subscriber has fetched is above the offset it read. *)
SoleBatchAboveOffset ==
    \A s \in Subscribers :
        Sole(subTopic[s]) /\ pc[s] = "handle" =>
            /\ \A i \in rows[s] : i > offset[subTopic[s]]
            /\ last[s] # 0 => last[s] > offset[subTopic[s]]

NeverRewinds == \A t \in Topics : Sole(t) => offset'[t] >= offset[t]

(* While a topic has a single subscriber, the rows it has fetched and the  *)
(* last one it has handled are above the offset, so no step lowers it.     *)
LEMMA NextSole ==
    IInv /\ SoleBatchAboveOffset /\ [Next]_vars => SoleBatchAboveOffset' /\ NeverRewinds
<1> SUFFICES ASSUME IInv, SoleBatchAboveOffset, [Next]_vars
             PROVE  SoleBatchAboveOffset' /\ NeverRewinds
  OBVIOUS
<1>0. TypeOK
  BY DEF IInv
<1> USE <1>0, BoundsAssumption
        DEF TypeOK, Id, SoleBatchAboveOffset, NeverRewinds, Sole, Replicas, dbVars, subVars
<1>1. ASSUME NEW t \in Topics, Insert(t) PROVE SoleBatchAboveOffset' /\ NeverRewinds
  BY <1>1 DEF Insert
<1>2. ASSUME NEW x \in open, Commit(x) PROVE SoleBatchAboveOffset' /\ NeverRewinds
  BY <1>2 DEF Commit
<1>3. ASSUME NEW x \in open, Rollback(x) PROVE SoleBatchAboveOffset' /\ NeverRewinds
  BY <1>3 DEF Rollback
<1>4. ASSUME NEW s \in Subscribers, Subscribe(s) PROVE SoleBatchAboveOffset' /\ NeverRewinds
  BY <1>4 DEF Subscribe, RegisteredOffset
<1>5. ASSUME NEW s \in Subscribers, Fetch(s) PROVE SoleBatchAboveOffset' /\ NeverRewinds
  <2>1. last[s] = 0
    BY <1>5 DEF Fetch, IInv, BatchesArePrefixes
  <2> QED BY <1>5, <2>1 DEF Fetch, FirstBatch, Pending
<1>6. ASSUME NEW s \in Subscribers, NEW i \in Id, HandlerReturns(s, i)
      PROVE  SoleBatchAboveOffset' /\ NeverRewinds
  BY <1>6 DEF HandlerReturns, NextRow
<1>7. ASSUME NEW s \in Subscribers, SaveOffset(s) PROVE SoleBatchAboveOffset' /\ NeverRewinds
  BY <1>7 DEF SaveOffset, SavedOffset
<1>8. ASSUME NEW s \in Subscribers, PollRaises(s) PROVE SoleBatchAboveOffset' /\ NeverRewinds
  BY <1>8 DEF PollRaises
<1>9. ASSUME NEW s \in Subscribers, Wait(s) PROVE SoleBatchAboveOffset' /\ NeverRewinds
  BY <1>9 DEF Wait, AfterWait
<1>10. ASSUME NEW s \in Subscribers, Close(s) PROVE SoleBatchAboveOffset' /\ NeverRewinds
  BY <1>10 DEF Close
<1>11. ASSUME NEW s \in Subscribers, Crash(s) PROVE SoleBatchAboveOffset' /\ NeverRewinds
  BY <1>11 DEF Crash
<1>12. CASE UNCHANGED vars
  BY <1>12 DEF vars
<1> QED
  BY <1>1, <1>2, <1>3, <1>4, <1>5, <1>6, <1>7, <1>8, <1>9, <1>10, <1>11, <1>12
  DEF Next, Publisher, Subscriber

(* A subscription with no replica never moves its offset back. *)
THEOREM NoRewind == Spec => SoleSubscriberNeverRewinds
<1>1. Init => SoleBatchAboveOffset
  BY DEF Init, SoleBatchAboveOffset
<1>2. IInv /\ SoleBatchAboveOffset /\ [Next]_vars => SoleBatchAboveOffset'
  BY NextSole
<1>3. IInv /\ SoleBatchAboveOffset /\ [Next]_vars => [NeverRewinds]_vars
  BY NextSole
<1>4. Spec => [][NeverRewinds]_vars
  BY <1>1, <1>2, <1>3, SpecIInv, PTL DEF Spec
<1> QED BY <1>4 DEF SoleSubscriberNeverRewinds, NeverRewinds, Sole

-----------------------------------------------------------------------------
(* Refinement: each step of the bus is a step of AtLeastOnce, or none.     *)
Published == {e \in Topics \X Id : e[2] \in InOrder(e[1])}
Handled   == {e \in Topics \X Id : e[2] \in InOrder(e[1]) \cap handled[e[1]]}
Settled   == {e \in Topics \X Id : e[2] \in InOrder(e[1]) /\ e[2] <= offset[e[1]]}

(* Every step maps to a step of AtLeastOnce or leaves it unchanged. *)
LEMMA NextDelivery == IInv /\ IInv' /\ [Next]_vars => [Delivery!Next]_(Delivery!vars)
<1> SUFFICES ASSUME IInv, IInv', [Next]_vars PROVE [Delivery!Next]_(Delivery!vars)
  OBVIOUS
<1> DEFINE Same == Published' = Published /\ Handled' = Handled /\ Settled' = Settled
<1> USE BoundsAssumption
<1>0. TypeOK /\ TypeOK' /\ FreshIds /\ OffsetVisible /\ PassedWasHandled'
      /\ OnlyVisibleHandled
  BY DEF IInv
<1>s. Same => UNCHANGED Delivery!vars
  BY DEF Delivery!vars, Published, Handled, Settled
<1>1. ASSUME NEW t \in Topics, Insert(t) PROVE Same
  BY <1>1 DEF Insert, subVars, Published, Handled, Settled, InOrder
<1>2. ASSUME NEW x \in open, Commit(x) PROVE Delivery!Next \/ Same
  <2> DEFINE e == <<x.topic, x.id>>
  <2>1. x.topic \in Topics /\ x.id \in Id /\ x.id \notin committed[x.topic] /\ e \in Topics \X Id
    BY <1>0, <1>2 DEF TypeOK, Row, FreshIds
  <2>2. CASE \E i \in committed[x.topic] : i > x.id
    BY <1>0, <1>2, <2>1, <2>2
    DEF Commit, subVars, TypeOK, Published, Handled, Settled, InOrder
  <2>3. CASE ~ \E i \in committed[x.topic] : i > x.id
    <3>1. late' = late /\ offset' = offset /\ handled' = handled
      BY <1>2, <2>3 DEF Commit, subVars
    <3>2. committed' = [committed EXCEPT ![x.topic] = @ \cup {x.id}]
      BY <1>2 DEF Commit
    <3>3. CASE x.id \in late[x.topic]
      BY <1>0, <2>1, <3>1, <3>2, <3>3 DEF TypeOK, Published, Handled, Settled, InOrder
    <3>4. CASE x.id \notin late[x.topic]
      <4>1. Published' = Published \cup {e}
        BY <1>0, <2>1, <3>1, <3>2, <3>4 DEF TypeOK, Published, InOrder
      <4>2. Handled' = Handled
        BY <1>0, <2>1, <3>1, <3>2 DEF TypeOK, Handled, InOrder, OnlyVisibleHandled
      <4>3. ~(x.id <= offset[x.topic])
        <5>1. offset[x.topic] \in Int /\ x.id \in Int /\ x.id > 0
          BY <1>0, <2>1 DEF TypeOK, Id
        <5>2. CASE offset[x.topic] = 0
          BY <5>1, <5>2
        <5>3. CASE offset[x.topic] \in committed[x.topic]
          BY <5>1, <5>3, <2>1, <2>3
        <5> QED BY <1>0, <2>1, <5>2, <5>3 DEF OffsetVisible
      <4>4. Settled' = Settled
        BY <1>0, <2>1, <3>1, <3>2, <4>3 DEF TypeOK, Settled, InOrder
      <4>5. Delivery!Publish(e)
        BY <4>1, <4>2, <4>4 DEF Delivery!Publish, Published, Handled, Settled
      <4> QED BY <2>1, <4>5 DEF Delivery!Next
    <3> QED BY <3>3, <3>4
  <2> QED BY <2>2, <2>3
<1>3. ASSUME NEW x \in open, Rollback(x) PROVE Same
  BY <1>3 DEF Rollback, subVars, Published, Handled, Settled, InOrder
<1>4. ASSUME NEW s \in Subscribers, Subscribe(s) PROVE Same
  BY <1>0, <1>4 DEF TypeOK, Subscribe, RegisteredOffset, dbVars, Published, Handled, Settled, InOrder
<1>5. ASSUME NEW s \in Subscribers, Fetch(s) PROVE Same
  BY <1>5 DEF Fetch, dbVars, Published, Handled, Settled, InOrder
<1>6. ASSUME NEW s \in Subscribers, NEW i \in Id, HandlerReturns(s, i)
      PROVE  Delivery!Next \/ Same
  <2>1. PICK t \in Topics : t = subTopic[s]
    BY <1>0 DEF TypeOK
  <2> DEFINE e == <<t, i>>
  <2>2. Published' = Published /\ Settled' = Settled
    BY <1>6 DEF HandlerReturns, dbVars, Published, Settled, InOrder
  <2>3. handled' = [handled EXCEPT ![t] = @ \cup {i}]
    BY <1>6, <2>1 DEF HandlerReturns
  <2>4. committed' = committed /\ late' = late
    BY <1>6 DEF HandlerReturns, dbVars
  <2>5. CASE i \in InOrder(t)
    <3>1. Handled' = Handled \cup {e}
      BY <1>0, <2>3, <2>4, <2>5 DEF TypeOK, Handled, InOrder
    <3>2. Delivery!Deliver(e)
      BY <2>2, <2>5, <3>1 DEF Delivery!Deliver, Published, Handled, Settled
    <3> QED BY <3>2 DEF Delivery!Next
  <2>6. CASE i \notin InOrder(t)
    BY <1>0, <2>2, <2>3, <2>4, <2>6 DEF TypeOK, Handled, InOrder
  <2> QED BY <2>5, <2>6
<1>7. ASSUME NEW s \in Subscribers, SaveOffset(s) PROVE Delivery!Next
  <2>1. Published' = Published /\ Handled' = Handled
    BY <1>7 DEF SaveOffset, dbVars, Published, Handled, InOrder
  <2>2. Settled' \subseteq Handled'
    BY <1>0 DEF PassedWasHandled, Settled, Handled
  <2>3. Settled' \in SUBSET Handled
    BY <2>1, <2>2
  <2>4. \E S \in SUBSET Handled :
          Settled' = S /\ Published' = Published /\ Handled' = Handled
    BY <2>1, <2>3
  <2>5. \E S \in SUBSET Handled : Delivery!Settle(S)
    BY <2>4 DEF Delivery!Settle, Published, Handled, Settled
  <2> QED BY <2>5 DEF Delivery!Next, Handled
<1>8. ASSUME NEW s \in Subscribers, PollRaises(s) PROVE Same
  BY <1>8 DEF PollRaises, dbVars, Published, Handled, Settled, InOrder
<1>9. ASSUME NEW s \in Subscribers, Wait(s) PROVE Same
  BY <1>9 DEF Wait, dbVars, Published, Handled, Settled, InOrder
<1>10. ASSUME NEW s \in Subscribers, Close(s) PROVE Same
  BY <1>10 DEF Close, dbVars, Published, Handled, Settled, InOrder
<1>11. ASSUME NEW s \in Subscribers, Crash(s) PROVE Same
  BY <1>11 DEF Crash, dbVars, Published, Handled, Settled, InOrder
<1>12. CASE UNCHANGED vars
  <2>1. committed' = committed /\ late' = late /\ handled' = handled /\ offset' = offset
    BY <1>12 DEF vars, dbVars, subVars
  <2>2. Same
    BY <2>1 DEF Published, Handled, Settled, InOrder
  <2> QED BY <2>2, <1>s
<1> QED
  BY <1>s, <1>1, <1>2, <1>3, <1>4, <1>5, <1>6, <1>7, <1>8, <1>9, <1>10, <1>11, <1>12
  DEF Next, Publisher, Subscriber

(* The bus implements the at-least-once delivery of AtLeastOnce for the    *)
(* events committed in the order of their ids.                             *)
THEOREM Refinement == Spec => DeliversAtLeastOnce
<1>1. Init => Delivery!Init
  BY DEF Init, InOrder, Delivery!Init
<1> QED
  BY <1>1, SpecIInv, NextDelivery, PTL DEF Spec, Delivery!Spec, DeliversAtLeastOnce
=============================================================================
