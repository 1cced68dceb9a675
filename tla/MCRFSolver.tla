----------------------------- MODULE MCRFSolver -----------------------------
(* Copies of a surface, in a row or not, with or without a surface of its  *)
(* own before them.                                                        *)
EXTENDS RFSolver, TLC

Copies(first) == [ns \in 0..4 |-> IF ns <= first THEN -1 ELSE first]
Row    == [ns \in 0..4 |-> 10 * ns]
\* The first two copies have changed places, so that the pair found for the last
\* two is flipped.
Changed == [Row EXCEPT ![1] = 20, ![2] = 10]
\* The last two have: the pair found for them is flipped and itself equivalent to
\* the pair of the first two.
Chain == [Row EXCEPT ![3] = 40, ![4] = 30]
MCGeometries == { [mate |-> Copies(1), pos |-> Row], [mate |-> Copies(1), pos |-> Changed],
                  [mate |-> Copies(0), pos |-> Chain] }
MCShifts == {1}
MCMovedSets == {{}, {2}}
MCPlaces == {0, 1}
MCIncFields == { [class |-> c, data |-> "E", Next |-> FALSE] : c \in {"PlaneWave", "PointSource"} }
MCLayers == {<< "surface", "eps" >>}

Symmetry == Permutations(Frequencies)
=============================================================================
