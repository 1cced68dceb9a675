------------------------- MODULE MCCasimirIntegrand -------------------------
(***************************************************************************)
(* Three surfaces, the third a copy of the second.                         *)
(***************************************************************************)
EXTENDS CasimirIntegrand

MCMate == <<0, 0, 2>>

\* Any surfaces may be moved, also none: a line of the file that only names the
\* default geometry.
AllTransFiles == [1..NT -> SUBSET (1..NS)]
=============================================================================
