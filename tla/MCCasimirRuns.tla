--------------------------- MODULE MCCasimirRuns ---------------------------
(***************************************************************************)
(* Three surfaces, the third a copy of the second, two transformations and *)
(* two quantities; a sum, a sum at twice the temperature, and three lists  *)
(* of frequencies: two with other quantities, of which one has the tags the*)
(* other way round, and one with a tag that both transformations have.     *)
(***************************************************************************)
EXTENDS CasimirRuns

MCMate == <<0, 0, 2>>
MCTransFiles == { <<{1}, {2}>>, <<{2}, {}>>, <<{}, {1, 3}>> }
MCFrequencies == 0..6
MCSmallSets == { {}, {1}, {1, 2}, {3, 4}, {2, 3, 4}, {1, 2, 3, 4} }

Job(driver, xi, tags, quantity) ==
  [Driver |-> driver, Xi |-> xi, Tag |-> tags, Quantity |-> <<"energy", quantity>>]
MCJobs ==
  { Job("Matsubara", [k \in 0..3 |-> k],     <<"A", "B">>, "xforce"),
    Job("Matsubara", [k \in 0..3 |-> 2 * k], <<"A", "B">>, "xforce"),
    Job("XiPoints",  [k \in 0..3 |-> <<2, 2, 1, 0>>[k + 1]], <<"A", "B">>, "zforce"),
    Job("XiPoints",  [k \in 0..3 |-> <<0, 0, 3, 2>>[k + 1]], <<"A", "A">>, "xforce"),
    Job("XiPoints",  [k \in 0..3 |-> <<1, 2, 3, 0>>[k + 1]], <<"B", "A">>, "zforce") }
=============================================================================
