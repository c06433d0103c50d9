---------------------------- MODULE AtLeastOnce ----------------------------
(***************************************************************************)
(* What an omkit event bus promises a consumer, whatever its backend       *)
(* (eventbus.py, class EventBus): an event that the bus has settled for    *)
(* the consumer, so that it will not be offered again on its own account,  *)
(* has been through the consumer's handler at least once.                  *)
(*                                                                         *)
(* Settling is not final: an acknowledgement may be lost or overwritten by *)
(* an older one, and then events are offered again.  Only what has been    *)
(* handled can ever be settled.                                            *)
(***************************************************************************)
CONSTANT Event

VARIABLES published, handled, settled

vars == <<published, handled, settled>>

Init ==
    /\ published = {}
    /\ handled = {}
    /\ settled = {}

Publish(e) ==
    /\ published' = published \cup {e}
    /\ UNCHANGED <<handled, settled>>

Deliver(e) ==
    /\ e \in published
    /\ handled' = handled \cup {e}
    /\ UNCHANGED <<published, settled>>

Settle(S) ==
    /\ settled' = S
    /\ UNCHANGED <<published, handled>>

Next ==
    \/ \E e \in Event : Publish(e) \/ Deliver(e)
    \/ \E S \in SUBSET handled : Settle(S)

Spec == Init /\ [][Next]_vars
=============================================================================
