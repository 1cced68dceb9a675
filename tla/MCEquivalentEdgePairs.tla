----------------------- MODULE MCEquivalentEdgePairs -----------------------
(* Instances of EquivalentEdgePairs for TLC.                               *)
EXTENDS EquivalentEdgePairs, TLC

\* Nothing in the module orders the signatures.
Symmetry == Permutations(Sigs)
=============================================================================
