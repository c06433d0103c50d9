--------------------------- MODULE MCTenantPool ---------------------------
EXTENDS TenantPool, TLC

(* An upload that fills the storage, and one that claims to free some. *)
MCSizes == {-1, 1}

(* Tenants, slots, loops and connections are interchangeable. *)
Symmetry ==
    Permutations(Tenants) \cup Permutations(Slots) \cup Permutations(Loops)
        \cup Permutations(Conns)
=============================================================================
