----------------------------- MODULE MCClients -----------------------------
(* Clients with interchangeable workers and accounts. *)
EXTENDS Clients, TLC

Symmetry == Permutations(Workers) \cup Permutations(Accounts)

=============================================================================
