----------------------------- MODULE MCRefresh -----------------------------
(***************************************************************************)
(* Instances of Refresh for TLC.  Values of these sets are only compared   *)
(* for equality, so safety runs may identify states up to a permutation.   *)
(***************************************************************************)
EXTENDS RefreshInv, TLC

Symmetry == Permutations(Workers) \cup Permutations(Paths)
                \cup Permutations(Tags \ (Skipped \cup {Untagged}))

=============================================================================
