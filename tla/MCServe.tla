------------------------------ MODULE MCServe ------------------------------
(***************************************************************************)
(* Instances of Serve for TLC: threads and inodes are interchangeable.     *)
(***************************************************************************)
EXTENDS Serve, TLC

Symmetry == Permutations(Threads) \cup Permutations(Files)

=============================================================================
