------------------------ MODULE MCPostgresEventBus ------------------------
EXTENDS PostgresEventBus, TLC

CONSTANTS t1, t2, s1, s2

MCSole == {s1 :> t1}

MCReplicas == {(s1 :> t1) @@ (s2 :> t1)}

(* Two replicas of one subscription, or a subscription to each topic. *)
MCSubscriptions == MCReplicas \cup {(s1 :> t1) @@ (s2 :> t2)}
=============================================================================
