---------------------------- MODULE AppSettings ----------------------------
(***************************************************************************)
(* The table app_settings, which omkit/settings.py and                     *)
(* omkit/featureflags/postgres.py cache, and the services that write it.   *)
(* They are outside this repository: a writer stamps updated_at when its   *)
(* transaction begins and the row is seen when it commits, so rows need    *)
(* not appear in the order of their stamps.                                *)
(***************************************************************************)
EXTENDS Naturals

CONSTANTS
    Keys,
    Values,     \* values of a setting
    NoValue,    \* no such key
    MaxWrites   \* bound: changes of the table

ASSUME SettingsAssumption ==
    /\ NoValue \notin Values
    /\ MaxWrites \in Nat

Row == [val : Values, secret : BOOLEAN, at : Nat]

NoRow == [val |-> NoValue, secret |-> FALSE, at |-> 0]

VARIABLES
    table,      \* table[k]: committed row
    open,       \* open[k]: row of the transaction that writes k, or NoRow
    clock,      \* last stamp given
    newest,     \* history: highest stamp committed so far
    late,       \* history: keys whose row was committed out of order
    writes      \* counter for the bound

tableVars == <<table, open, clock, newest, late, writes>>

(* Some keys have a row from long ago. *)
TableInit ==
    /\ \E v \in Values, K \in SUBSET Keys :
         table = [k \in Keys |->
            IF k \in K THEN [val |-> v, secret |-> FALSE, at |-> 1] ELSE NoRow]
    /\ open = [k \in Keys |-> NoRow]
    /\ clock = 1
    /\ newest = 1
    /\ late = {}
    /\ writes = 0

BeginWrite(k, v, secret) ==
    /\ writes < MaxWrites
    /\ open[k] = NoRow
    /\ \E d \in {0, 1} : clock' = clock + d
    /\ open' = [open EXCEPT ![k] = [val |-> v, secret |-> secret, at |-> clock']]
    /\ writes' = writes + 1
    /\ UNCHANGED <<table, newest, late>>

CommitWrite(k) ==
    /\ open[k] # NoRow
    /\ table' = [table EXCEPT ![k] = open[k]]
    /\ open' = [open EXCEPT ![k] = NoRow]
    /\ IF open[k].at > newest
       THEN newest' = open[k].at /\ late' = late \ {k}
       ELSE late' = late \cup {k} /\ UNCHANGED newest
    /\ UNCHANGED <<clock, writes>>

DeleteRow(k) ==
    /\ writes < MaxWrites
    /\ open[k] = NoRow
    /\ table[k] # NoRow
    /\ table' = [table EXCEPT ![k] = NoRow]
    /\ writes' = writes + 1
    /\ UNCHANGED <<open, clock, newest, late>>

TableTypeOK ==
    /\ table \in [Keys -> Row \cup {NoRow}]
    /\ open \in [Keys -> Row \cup {NoRow}]
    /\ clock \in Nat /\ newest \in Nat
    /\ late \subseteq Keys
    /\ writes \in 0 .. MaxWrites
=============================================================================
