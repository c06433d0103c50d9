------------------------- MODULE AppSettingsCaches -------------------------
(***************************************************************************)
(* The two caches of app_settings over one table: a process uses a         *)
(* SettingsManager or a feature flag store.  They do not touch each other, *)
(* so a process with both behaves like one of each.                        *)
(***************************************************************************)
EXTENDS SettingsManager, FeatureFlags

CONSTANT Written    \* bound: Written[u], values that writers use while the process
                    \* uses u

ASSUME WrittenAssumption == \A u \in {"settings", "flags"} : Written[u] \subseteq Values

Seqs == INSTANCE SequencesExt

VARIABLES
    uses,       \* "settings" or "flags"
    untold,     \* untold[k]: what writers of k have committed, in this order,
                \* and not yet published
    crossed     \* history: keys with messages published out of that order

vars == <<tableVars, managerVars, flagVars, uses, untold, crossed>>

Init ==
    /\ TableInit
    /\ ManagerInit
    /\ FlagsInit
    /\ uses \in {"settings", "flags"}
    /\ \A k \in Keys : table[k].val \in Written[uses] \cup {NoValue}
    /\ uses = "flags" => backend = CHOOSE b \in Backends : TRUE
    /\ untold = [k \in Keys |-> <<>>]
    /\ crossed = {}

(* A writer changes the table, and publishes once it has committed. *)
Write ==
    \/ /\ \E k \in Keys, v \in Written[uses], s \in BOOLEAN : BeginWrite(k, v, s)
       /\ UNCHANGED <<managerVars, flagVars, uses, untold, crossed>>
    \/ \E k \in Keys :
         /\ uses = "settings"
         /\ CommitWrite(k) \/ DeleteRow(k)
         /\ untold' = [untold EXCEPT ![k] = Append(@, Announced(k)')]
         /\ UNCHANGED <<managerVars, flagVars, uses, crossed>>
    \/ \E k \in Keys :
         /\ uses = "flags"
         /\ CommitWrite(k) \/ DeleteRow(k)
         /\ Remembered(k)
         /\ UNCHANGED <<managerVars, uses, untold, crossed>>

(* Two writers of one key need not publish in the order of their commits. *)
Publish(k, i) ==
    /\ uses = "settings"
    /\ Published(k, untold[k][i])
    /\ untold' = [untold EXCEPT ![k] = Seqs!RemoveAt(@, i)]
    /\ crossed' = IF i = 1 THEN crossed ELSE crossed \cup {k}
    /\ UNCHANGED <<tableVars, flagVars, uses>>

Settings(A) ==
    uses = "settings" /\ A /\ UNCHANGED <<tableVars, flagVars, uses, untold, crossed>>

Flags(A) ==
    uses = "flags" /\ A /\ UNCHANGED <<tableVars, managerVars, uses, untold, crossed>>

Next ==
    \/ Write
    \/ \E k \in Keys : \E i \in DOMAIN untold[k] : Publish(k, i)
    \/ Settings(ManagerNext)
    \/ Flags(FlagsNext)

Spec == Init /\ [][Next]_vars

-----------------------------------------------------------------------------
(* Keys of which the subscriber has missed something, is still to be told, *)
(* or was told in the wrong order.                                         *)
Excused == lost \cup crossed \cup {k \in Keys : untold[k] # <<>>}

(* A subscriber with no message left to read has the settings of the       *)
(* table, unless a change fell into a gap of the subscription, its writer  *)
(* has still to publish, or two writers of the key published in another    *)
(* order than they committed.                                              *)
HeardIsCached ==
    \A k \in Keys :
        phase = "listening" /\ Plain(k) /\ k \notin Excused
            /\ (\A i \in 1 .. Len(chan) : chan[i].key # k)
                => cache[k] = table[k].val
=============================================================================
