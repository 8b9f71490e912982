----------------------------- MODULE MCAccounts -----------------------------
(* Accounts on a small instance for TLC. *)
EXTENDS Accounts, TLC

Symmetry == Permutations(UserIds) \cup Permutations(Emails)
            \cup Permutations(Passwords) \cup Permutations(Requests)

=============================================================================
