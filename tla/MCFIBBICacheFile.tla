-------------------------- MODULE MCFIBBICacheFile --------------------------
(* Instances of FIBBICacheFile for TLC.                                    *)
EXTENDS FIBBICacheFile, TLC

Symmetry == Permutations(Keys)
=============================================================================
