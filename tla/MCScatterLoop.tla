--------------------------- MODULE MCScatterLoop ---------------------------
(***************************************************************************)
(* Three surfaces, two of one mesh that may be of one material or not and  *)
(* one of another mesh with the same base name, of the same size or not,   *)
(* at three frequencies: two that are printed alike and an imaginary one.  *)
(***************************************************************************)
EXTENDS ScatterLoop

MCMeshes == {"sphere", "copy", "coarse"}
MCFileBase == [mesh \in MCMeshes |-> "sphere"]
MCNumBFs == [mesh \in MCMeshes |-> IF mesh = "coarse" THEN 1 ELSE 2]
MCMaterials == {"gold", "silver"}
MCScuffGeos == { [mesh     |-> <<"sphere", "sphere", "copy">>,
                  material |-> <<"gold", "gold", "gold">>, mate |-> <<0, 1, 0>>],
                 [mesh     |-> <<"sphere", "sphere", "coarse">>,
                  material |-> <<"gold", "silver", "gold">>, mate |-> <<0, 0, 0>>] }
MCPrinted == [k \in 0..2 |-> IF k = 2 THEN "I" ELSE "1"]
MCImagOmega == {2}

\* One or two transformations of none, the first or the first two surfaces.
MCTransFiles == UNION { [1..k -> {{}, {1}, {1, 2}}] : k \in 1..NT }
=============================================================================
