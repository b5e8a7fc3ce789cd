----------------------------- MODULE MCThreads ------------------------------
(* A small instance of Threads for TLC. *)
EXTENDS Threads, TLC

\* Threads and names are only compared.
Symmetry == Permutations(Threads) \cup Permutations(Names)
=============================================================================
