------------------------ MODULE RedisEventBusProofs ------------------------
(***************************************************************************)
(* The Redis event bus for any number of subscribers, workers, entries and *)
(* faults.  At-least-once delivery rests on one fact about the server's    *)
(* pending list (Accounted) and one about the loop (AckAfterHandler);      *)
(* exclusive delivery on the consumers' batches being disjoint.            *)
(***************************************************************************)
EXTENDS RedisEventBus, TLAPS

(* Every delivered entry is pending or has been handled. *)
Accounted == delivered \subseteq pending \cup handled

(* A consumer that is about to acknowledge has handled the entry. *)
AckAfterHandler ==
    \A c \in Consumers : \A i \in rows[c] :
        pc[c] = "ack" /\ NextRow(c, i) => i \in handled

(* Two consumers share an entry only after a claim. *)
BatchesDisjoint ==
    \A c, d \in Consumers : c # d => rows[c] \cap rows[d] \subseteq claimed

(* What a consumer holds is unhandled, or claimed, or the entry it has     *)
(* just handled.                                                           *)
HeldUnhandled ==
    \A c \in Consumers : \A i \in rows[c] :
        i \in claimed \/ i \notin handled \/ (pc[c] = "ack" /\ NextRow(c, i))

IInv == TypeOK /\ Accounted /\ AckAfterHandler /\ BatchesDisjoint /\ HeldUnhandled

(* The empty stream satisfies the invariant. *)
LEMMA InitIInv == Init => IInv
<1> SUFFICES ASSUME Init PROVE IInv
  OBVIOUS
<1>1. group \in BOOLEAN /\ closed \in [Consumers -> BOOLEAN]
  BY DEF Init
<1>2. faults \in 0 .. MaxFaults
  BY BoundsAssumption DEF Init
<1>3. TypeOK
  BY <1>1, <1>2 DEF Init, TypeOK
<1> QED
  BY <1>3 DEF Init, IInv, Accounted, AckAfterHandler, BatchesDisjoint, HeldUnhandled

(* XREADGROUP hands out entries that nobody has seen and makes them pending. *)
LEMMA BatchIsNew == FirstBatch(New) \subseteq stream \ delivered
  BY DEF FirstBatch, New

(* Every step keeps the types. *)
LEMMA NextTypeOK == TypeOK /\ [Next]_vars => TypeOK'
<1> SUFFICES ASSUME TypeOK, [Next]_vars PROVE TypeOK'
  OBVIOUS
<1> USE BoundsAssumption DEF TypeOK, Goto, Fault, CommandFails, server, hist
<1>1. CASE Publish
  BY <1>1 DEF Publish
<1>2. CASE Add
  BY <1>2 DEF Add
<1>3. ASSUME NEW c \in Consumers, Join(c) PROVE TypeOK'
  BY <1>3 DEF Join
<1>4. ASSUME NEW c \in Consumers, JoinFails(c) PROVE TypeOK'
  BY <1>4 DEF JoinFails
<1>5. ASSUME NEW c \in Consumers, Read(c) PROVE TypeOK'
  BY <1>5, BatchIsNew DEF Read, Deliver
<1>6. ASSUME NEW c \in Consumers, ReadLost(c) PROVE TypeOK'
  BY <1>6, BatchIsNew DEF ReadLost, Deliver
<1>7. ASSUME NEW c \in Workers, NEW S \in SUBSET pending, ClaimStale(c, S) PROVE TypeOK'
  BY <1>7 DEF ClaimStale, Consumers
<1>8. ASSUME NEW c \in Consumers, NEW i \in Id, DecodeRaises(c, i) PROVE TypeOK'
  BY <1>8 DEF DecodeRaises
<1>9. ASSUME NEW c \in Consumers, NEW i \in Id, HandlerReturns(c, i) PROVE TypeOK'
  BY <1>9 DEF HandlerReturns, NextRow
<1>10. ASSUME NEW c \in Consumers, NEW i \in Id, HandlerRaises(c, i) PROVE TypeOK'
  BY <1>10 DEF HandlerRaises, NextRow
<1>11. ASSUME NEW c \in Consumers, NEW i \in Id, Ack(c, i) PROVE TypeOK'
  BY <1>11 DEF Ack
<1>12. ASSUME NEW c \in Consumers, NEW i \in Id, AckFails(c, i) PROVE TypeOK'
  BY <1>12 DEF AckFails
<1>13. ASSUME NEW c \in Consumers, BatchDone(c) PROVE TypeOK'
  BY <1>13 DEF BatchDone
<1>14. ASSUME NEW c \in Consumers, Return(c) PROVE TypeOK'
  BY <1>14 DEF Return
<1>15. ASSUME NEW c \in Consumers, Close(c) PROVE TypeOK'
  BY <1>15 DEF Close
<1>16. ASSUME NEW c \in Consumers, Crash(c) PROVE TypeOK'
  BY <1>16 DEF Crash
<1>17. ASSUME NEW c \in Consumers, Enter(c) PROVE TypeOK'
  BY <1>17 DEF Enter
<1>18. ASSUME NEW c \in Consumers, ReadEmpty(c) PROVE TypeOK'
  BY <1>18 DEF ReadEmpty
<1>19. ASSUME NEW c \in Consumers, ReadRaises(c) PROVE TypeOK'
  BY <1>19 DEF ReadRaises
<1>20. CASE UNCHANGED vars
  BY <1>20 DEF vars
<1> QED
  BY <1>1, <1>2, <1>3, <1>4, <1>5, <1>6, <1>7, <1>8, <1>9, <1>10, <1>11, <1>12, <1>13,
     <1>14, <1>15, <1>16, <1>17, <1>18, <1>19, <1>20 DEF Next, Progress, Failure

(* What the steps keep besides the types. *)
Inner == Accounted /\ AckAfterHandler /\ BatchesDisjoint /\ HeldUnhandled

(* The loop works on one entry of the batch at a time. *)
LEMMA OneNextRow ==
    ASSUME TypeOK, NEW c \in Consumers, NEW i, NEW j, NextRow(c, i), NextRow(c, j)
    PROVE  i = j
<1>1. i \in Nat /\ j \in Nat
  BY DEF TypeOK, NextRow, Id
<1>2. i <= j /\ j <= i
  BY DEF NextRow
<1> QED BY <1>1, <1>2

(* Dropping the entry just handled from the batch, acknowledged or not,    *)
(* leaves unhandled or claimed ones.                                       *)
LEMMA DropKeeps ==
    ASSUME IInv, NEW c \in Consumers, NEW i \in Id, pc[c] = "ack", NextRow(c, i),
           rows' = [rows EXCEPT ![c] = @ \ {i}], pc' = [pc EXCEPT ![c] = "handle"],
           UNCHANGED <<handled, claimed>>
    PROVE  AckAfterHandler' /\ BatchesDisjoint' /\ HeldUnhandled'
<1> USE DEF IInv, TypeOK
<1>1. /\ rows'[c] = rows[c] \ {i} /\ pc'[c] = "handle"
      /\ \A d \in Consumers : d # c => rows'[d] = rows[d] /\ pc'[d] = pc[d]
  OBVIOUS
<1>2. AckAfterHandler'
  BY <1>1 DEF AckAfterHandler, NextRow
<1>3. BatchesDisjoint'
  BY <1>1 DEF BatchesDisjoint
<1>4. ASSUME NEW d \in Consumers, NEW j \in rows'[d]
      PROVE  j \in claimed' \/ j \notin handled' \/ (pc'[d] = "ack" /\ NextRow(d, j)')
  <2>1. CASE d = c
    <3>1. j \in rows[c] /\ ~NextRow(c, j)
      BY <1>1, <1>4, <2>1, OneNextRow
    <3> QED BY <3>1 DEF HeldUnhandled
  <2>2. CASE d # c
    BY <1>1, <1>4, <2>2 DEF HeldUnhandled, NextRow
  <2> QED BY <2>1, <2>2
<1>5. HeldUnhandled'
  BY <1>4 DEF HeldUnhandled
<1> QED BY <1>2, <1>3, <1>5

(* Every step of producers, subscribers and workers keeps the invariant. *)
LEMMA NextIInv == IInv /\ [Next]_vars => IInv'
<1> SUFFICES ASSUME IInv, [Next]_vars PROVE Inner'
  BY NextTypeOK DEF IInv, Inner
<1> USE DEF IInv, Inner, TypeOK, Accounted, AckAfterHandler, BatchesDisjoint, HeldUnhandled,
            NextRow, Goto, server, hist
<1>1. CASE Publish
  BY <1>1 DEF Publish
<1>2. CASE Add
  BY <1>2 DEF Add
<1>3. ASSUME NEW c \in Consumers, Join(c) PROVE Inner'
  BY <1>3 DEF Join
<1>4. ASSUME NEW c \in Consumers, JoinFails(c) PROVE Inner'
  BY <1>4 DEF JoinFails
<1>5. ASSUME NEW c \in Consumers, Read(c) PROVE Inner'
  BY <1>5, BatchIsNew DEF Read, Deliver
<1>6. ASSUME NEW c \in Consumers, ReadLost(c) PROVE Inner'
  BY <1>6, BatchIsNew DEF ReadLost, Deliver
<1>7. ASSUME NEW c \in Workers, NEW S \in SUBSET pending, ClaimStale(c, S) PROVE Inner'
  BY <1>7 DEF ClaimStale, Consumers
<1>8. ASSUME NEW c \in Consumers, NEW i \in Id, DecodeRaises(c, i) PROVE Inner'
  BY <1>8 DEF DecodeRaises
<1>9. ASSUME NEW c \in Consumers, NEW i \in Id, HandlerReturns(c, i) PROVE Inner'
  <2>1. rows' = rows /\ claimed' = claimed /\ delivered' = delivered /\ pending' = pending
    BY <1>9 DEF HandlerReturns
  <2>2. handled' = handled \cup {i} /\ pc' = [pc EXCEPT ![c] = "ack"] /\ NextRow(c, i)
    BY <1>9 DEF HandlerReturns
  <2>3. Accounted' /\ BatchesDisjoint'
    BY <2>1, <2>2
  <2>4. AckAfterHandler'
    <3>1. ASSUME NEW d \in Consumers, NEW j \in rows'[d], pc'[d] = "ack", NextRow(d, j)'
          PROVE  j \in handled'
      <4>1. CASE d = c
        <5>1. NextRow(c, j)
          BY <2>1, <3>1, <4>1
        <5>2. j = i
          BY <2>2, <5>1, OneNextRow
        <5> QED BY <2>2, <5>2
      <4>2. CASE d # c
        BY <2>1, <2>2, <3>1, <4>2
      <4> QED BY <4>1, <4>2
    <3> QED BY <3>1
  <2>5. HeldUnhandled'
    <3>1. ASSUME NEW d \in Consumers, NEW j \in rows'[d]
          PROVE  j \in claimed' \/ j \notin handled' \/ (pc'[d] = "ack" /\ NextRow(d, j)')
      <4>1. CASE j = i
        BY <2>1, <2>2, <3>1, <4>1
      <4>2. CASE j # i /\ d = c
        <5>1. pc[c] = "handle"
          BY <1>9 DEF HandlerReturns
        <5> QED BY <2>1, <2>2, <3>1, <4>2, <5>1
      <4>3. CASE j # i /\ d # c
        BY <2>1, <2>2, <3>1, <4>3
      <4> QED BY <4>1, <4>2, <4>3
    <3> QED BY <3>1
  <2> QED BY <2>3, <2>4, <2>5
<1>10. ASSUME NEW c \in Consumers, NEW i \in Id, HandlerRaises(c, i) PROVE Inner'
  BY <1>10 DEF HandlerRaises
<1>11. ASSUME NEW c \in Consumers, NEW i \in Id, Ack(c, i) PROVE Inner'
  <2>1. AckAfterHandler' /\ BatchesDisjoint' /\ HeldUnhandled'
    BY <1>11, DropKeeps DEF Ack
  <2>2. i \in handled
    BY <1>11 DEF Ack
  <2>3. Accounted'
    BY <1>11, <2>2 DEF Ack
  <2> QED BY <2>1, <2>3
<1>12. ASSUME NEW c \in Consumers, NEW i \in Id, AckFails(c, i) PROVE Inner'
  <2>1. AckAfterHandler' /\ BatchesDisjoint' /\ HeldUnhandled'
    BY <1>12, DropKeeps DEF AckFails
  <2>2. i \in handled
    BY <1>12 DEF AckFails
  <2>3. Accounted'
    BY <1>12, <2>2 DEF AckFails
  <2> QED BY <2>1, <2>3
<1>13. ASSUME NEW c \in Consumers, BatchDone(c) PROVE Inner'
  BY <1>13 DEF BatchDone
<1>14. ASSUME NEW c \in Consumers, Return(c) PROVE Inner'
  BY <1>14 DEF Return
<1>15. ASSUME NEW c \in Consumers, Close(c) PROVE Inner'
  BY <1>15 DEF Close
<1>16. ASSUME NEW c \in Consumers, Crash(c) PROVE Inner'
  BY <1>16 DEF Crash
<1>17. ASSUME NEW c \in Consumers, Enter(c) PROVE Inner'
  BY <1>17 DEF Enter
<1>18. ASSUME NEW c \in Consumers, ReadEmpty(c) PROVE Inner'
  BY <1>18 DEF ReadEmpty
<1>19. ASSUME NEW c \in Consumers, ReadRaises(c) PROVE Inner'
  BY <1>19 DEF ReadRaises
<1>20. CASE UNCHANGED vars
  BY <1>20 DEF vars
<1> QED
  BY <1>1, <1>2, <1>3, <1>4, <1>5, <1>6, <1>7, <1>8, <1>9, <1>10, <1>11, <1>12, <1>13,
     <1>14, <1>15, <1>16, <1>17, <1>18, <1>19, <1>20 DEF Next, Progress, Failure

-----------------------------------------------------------------------------
(* The inductive invariant holds throughout every behaviour. *)
LEMMA SpecIInv == Spec => []IInv
  BY InitIInv, NextIInv, PTL DEF Spec

(* Stream, group and consumers stay well typed. *)
THEOREM TypeCorrect == Spec => []TypeOK
  BY SpecIInv, PTL DEF IInv

(* A subscriber is handed an entry that was handled before only after a    *)
(* worker has claimed it.                                                  *)
THEOREM HandledOnce == Spec => []HandledOnceUnlessClaimed
<1>1. IInv => HandledOnceUnlessClaimed
  BY DEF IInv, HeldUnhandled, HandledOnceUnlessClaimed, Consumers
<1> QED BY <1>1, SpecIInv, PTL

-----------------------------------------------------------------------------
(* Refinement: each step of the bus is a step of AtLeastOnce, or none.     *)
Settled == delivered \ pending

(* Every step maps to a step of AtLeastOnce or leaves it unchanged. *)
LEMMA NextDelivery == IInv /\ IInv' /\ [Next]_vars => [Delivery!Next]_(Delivery!vars)
<1> SUFFICES ASSUME IInv, IInv', [Next]_vars PROVE [Delivery!Next]_(Delivery!vars)
  OBVIOUS
<1> DEFINE Same == stream' = stream /\ handled' = handled /\ Settled' = Settled
<1> USE DEF IInv, TypeOK, server, hist, Settled
<1>s. Same => UNCHANGED Delivery!vars
  BY DEF Delivery!vars
<1>p. ASSUME Publish \/ Add PROVE Delivery!Next
  <2>1. PICK e \in Id : e = NextId
    BY <1>p DEF Publish, Add
  <2>2. Delivery!Publish(e)
    BY <1>p, <2>1 DEF Publish, Add, Delivery!Publish
  <2> QED BY <2>2 DEF Delivery!Next
<1>3. ASSUME NEW c \in Consumers, Join(c) PROVE Same
  BY <1>3 DEF Join
<1>4. ASSUME NEW c \in Consumers, JoinFails(c) PROVE Same
  BY <1>4 DEF JoinFails
<1>5. ASSUME NEW c \in Consumers, Read(c) PROVE Same
  BY <1>5, BatchIsNew DEF Read, Deliver
<1>6. ASSUME NEW c \in Consumers, ReadLost(c) PROVE Same
  BY <1>6, BatchIsNew DEF ReadLost, Deliver
<1>7. ASSUME NEW c \in Workers, NEW S \in SUBSET pending, ClaimStale(c, S) PROVE Same
  BY <1>7 DEF ClaimStale
<1>8. ASSUME NEW c \in Consumers, NEW i \in Id, DecodeRaises(c, i) PROVE Same
  BY <1>8 DEF DecodeRaises
<1>9. ASSUME NEW c \in Consumers, NEW i \in Id, HandlerReturns(c, i) PROVE Delivery!Next
  <2>1. i \in stream
    BY <1>9 DEF HandlerReturns, NextRow
  <2>2. Delivery!Deliver(i)
    BY <1>9, <2>1 DEF HandlerReturns, Delivery!Deliver
  <2> QED BY <2>2 DEF Delivery!Next
<1>10. ASSUME NEW c \in Consumers, NEW i \in Id, HandlerRaises(c, i) PROVE Same
  BY <1>10 DEF HandlerRaises
<1>11. ASSUME NEW c \in Consumers, NEW i \in Id, Ack(c, i) PROVE Delivery!Next
  <2>1. stream' = stream /\ handled' = handled
    BY <1>11 DEF Ack
  <2>2. Settled' \in SUBSET handled
    BY <2>1 DEF Accounted
  <2>3. \E S \in SUBSET handled : Settled' = S /\ stream' = stream /\ handled' = handled
    BY <2>1, <2>2
  <2>4. \E S \in SUBSET handled : Delivery!Settle(S)
    BY <2>3 DEF Delivery!Settle
  <2> QED BY <2>4 DEF Delivery!Next
<1>12. ASSUME NEW c \in Consumers, NEW i \in Id, AckFails(c, i) PROVE Same
  BY <1>12 DEF AckFails
<1>13. ASSUME NEW c \in Consumers, BatchDone(c) PROVE Same
  BY <1>13 DEF BatchDone
<1>14. ASSUME NEW c \in Consumers, Return(c) PROVE Same
  BY <1>14 DEF Return
<1>15. ASSUME NEW c \in Consumers, Close(c) PROVE Same
  BY <1>15 DEF Close
<1>16. ASSUME NEW c \in Consumers, Crash(c) PROVE Same
  BY <1>16 DEF Crash
<1>17. ASSUME NEW c \in Consumers, Enter(c) PROVE Same
  BY <1>17 DEF Enter
<1>18. ASSUME NEW c \in Consumers, ReadEmpty(c) PROVE Same
  BY <1>18 DEF ReadEmpty
<1>19. ASSUME NEW c \in Consumers, ReadRaises(c) PROVE Same
  BY <1>19 DEF ReadRaises
<1>20. CASE UNCHANGED vars
  BY <1>20, <1>s DEF vars
<1> QED
  BY <1>s, <1>p, <1>3, <1>4, <1>5, <1>6, <1>7, <1>8, <1>9, <1>10, <1>11, <1>12, <1>13,
     <1>14, <1>15, <1>16, <1>17, <1>18, <1>19, <1>20 DEF Next, Progress, Failure

(* The Redis bus implements the same at-least-once delivery as the         *)
(* Postgres one, for any mix of subscribers, workers, failures and claims. *)
THEOREM Refinement == Spec => DeliversAtLeastOnce
<1>1. Init => Delivery!Init
  BY DEF Init, Delivery!Init
<1> QED
  BY <1>1, SpecIInv, NextDelivery, PTL DEF Spec, Delivery!Spec, DeliversAtLeastOnce
=============================================================================
