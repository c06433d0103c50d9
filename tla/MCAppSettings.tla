--------------------------- MODULE MCAppSettings ---------------------------
EXTENDS AppSettingsCaches, TLC

CONSTANT malformed

(* A flag for administrators, and one with a role that does not exist. *)
MCFlag == [enabled |-> TRUE, roles |-> {"admin"}]
MCTypo == [enabled |-> TRUE, roles |-> {"admin", "typo"}]

MCValues == {MCFlag, MCTypo, malformed}

(* The settings manager does not look into values; two tell a change. *)
MCWritten == [settings |-> {MCFlag, malformed}, flags |-> MCValues]

MCGroupRole == ("omur-admin" :> {"admin"}) @@ ("other" :> {})

Symmetry == Permutations(Keys)
=============================================================================
