-------------------------- MODULE MCSessionStore --------------------------
EXTENDS SessionStore, TLC

(* Clients, tokens and tenants are interchangeable. *)
Symmetry ==
    Permutations(Clients) \cup Permutations(Tokens) \cup Permutations(Tenants)
=============================================================================
