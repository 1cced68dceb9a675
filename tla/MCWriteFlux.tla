---------------------------- MODULE MCWriteFlux ----------------------------
(***************************************************************************)
(* Three bodies in vacuum: the second shares its mesh and material with    *)
(* the first, inside which it is not; the third is a perfect conductor in  *)
(* the interior of the first.                                              *)
(***************************************************************************)
EXTENDS WriteFlux

MCMate == <<0, 1, 0>>
MCRegions == {"vacuum", "first", "second"}
MCExterior == <<"vacuum", "vacuum", "first">>
MCInterior == <<"first", "second", None>>

\* Any surfaces may be moved, also none.
AllTransFiles == [1..NT -> SUBSET (1..NS)]
=============================================================================
