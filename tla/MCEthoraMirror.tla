--------------------------- MODULE MCEthoraMirror ---------------------------
(* EthoraMirror on a small instance for TLC. *)
EXTENDS EthoraMirror, TLC

Symmetry == Permutations(Ids) \cup Permutations(Deleters)

=============================================================================
