--------------------------- MODULE MCBEMBlock2018 ---------------------------
(***************************************************************************)
(* Two small blocks for TLC: one of two surfaces, computed by two threads, *)
(* and one of a surface with itself.  The latter has three edges, so that  *)
(* FillLower writes entries of a pair that the loop over pairs leaves out. *)
(***************************************************************************)
EXTENDS BEMBlock2018, TLC

\* Patterns that agree in C and differ in G: enough to tell the signs apart.
GSigns == { [k \in Kernels |-> k = "G" /\ b] : b \in BOOLEAN }

Symmetry == Permutations(Sigs)
=============================================================================
