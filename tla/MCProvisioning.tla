--------------------------- MODULE MCProvisioning ---------------------------
(* Provisioning on a small instance for TLC. *)
EXTENDS Provisioning, TLC

Symmetry == Permutations(UserIds) \cup Permutations(Servers) \cup Permutations(Clients)

=============================================================================
