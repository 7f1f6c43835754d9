-------------------------- MODULE MCConnectionPool --------------------------
(* Symmetry for the TLC runs of ConnectionPool. *)
EXTENDS ConnectionPool, TLC

Symmetry == Permutations(Handlers) \cup Permutations(Wrappers)

=============================================================================
