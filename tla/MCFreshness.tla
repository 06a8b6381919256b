---------------------------- MODULE MCFreshness ----------------------------
(***************************************************************************)
(* An instance of RefreshHistory for TLC.                                  *)
(***************************************************************************)
EXTENDS RefreshHistory, TLC

Symmetry == Permutations(Workers) \cup Permutations(Paths)
                \cup Permutations(Tags \ (Skipped \cup {Untagged}))

=============================================================================
