------------------------------ MODULE MCChats ------------------------------
(* Chats on a small instance for TLC. *)
EXTENDS Chats, TLC

Symmetry == Permutations(UserIds) \cup Permutations(ChatIds) \cup Permutations(Requests)

=============================================================================
