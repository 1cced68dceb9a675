--------------------------- MODULE MCScuffStatic ---------------------------
(***************************************************************************)
(* Small inputs for ScuffStatic and BMAccelerator: copies of one mesh at   *)
(* places on a line, all but the last of them in any order with one place  *)
(* to spare; and six of them whose equivalences chain.                     *)
(***************************************************************************)
EXTENDS ScuffStatic, FiniteSets

\* All surfaces are copies of one mesh, or two meshes have every other one.
Copies == [ns \in 1..NS |-> IF ns = 1 THEN 0 ELSE 1]
TwoMeshes == [ns \in 1..NS |-> IF ns <= 2 THEN 0 ELSE IF ns % 2 = 1 THEN 1 ELSE 2]

AnyOrder == { f \in [1..NS - 1 -> 0..NS - 1] : \A a, b \in 1..NS - 1 : f[a] = f[b] => a = b }
At(x) == [turned |-> FALSE, by |-> x]
Turned(x) == [turned |-> TRUE, by |-> x]
\* The pair 5, 6 is the pair 4, 3, and the pair 3, 4 is the pair 1, 3.
InAChain == [ns \in 1..NS |-> At(<<0, 4, 1, 2, 6, 5>>[ns])]
Layouts == { [ns \in 1..NS |-> At(Append(f, NS)[ns])] : f \in AnyOrder } \union {InAChain}
InARow == [ns \in 1..NS |-> At(ns)]
Same(k) == [ns \in 1..NS |-> k]
Other == [ns \in 1..NS |-> IF ns % 2 = 1 THEN "PEC" ELSE "DIELECTRIC"]

\* One transformation that moves at most one surface, or several that move the
\* first three, of which the third has the first one's mesh.
OneMove == { <<moved>> : moved \in { m \in SUBSET (1..NS) : Cardinality(m) <= 1 } }
NothingMoves == { <<{}>> }
TwoTransformations == [1..2 -> SUBSET (1..3)]
ThreeSingleMoves == [1..3 -> { moved \in SUBSET (1..3) : Cardinality(moved) <= 1 }]
Several == TwoTransformations \union ThreeSingleMoves
ManyMoves == { <<moved>> : moved \in SUBSET (1..4) }
AllFiles == OneMove \union Several \union ManyMoves

\* Transformation k displaces all surfaces alike or each by its own distance, or
\* turns all about one point or each about a point of its own, so that the search
\* places them alike.
Alike  == [k \in 1..NT |-> [ns \in 1..NS |-> At(10 * k)]]
Apart  == [k \in 1..NT |-> [ns \in 1..NS |-> At((10 * k) * ns)]]
Turn   == [k \in 1..NT |-> [ns \in 1..NS |-> Turned(10 * (k - 1))]]
OnSpot == [k \in 1..NT |-> [ns \in 1..NS |-> Turned(-ns)]]

\* One transformation and any places, or several or one of several surfaces and
\* one row.
AllInputs ==
  [GTCs : NothingMoves, Motion : {Alike}, Mate : {Copies}, Layout : Layouts,
   Kind : {Same("PEC"), Same("DIELECTRIC")}, Substrate : BOOLEAN]
  \union [GTCs : OneMove, Motion : {Alike}, Mate : {Copies}, Layout : Layouts,
          Kind : {Same("PEC")}, Substrate : {FALSE}]
  \union [GTCs : NothingMoves, Motion : {Alike}, Mate : {TwoMeshes}, Layout : Layouts,
          Kind : {Same("PEC"), Other}, Substrate : {FALSE}]
  \union [GTCs : ManyMoves, Motion : {Alike, Apart, Turn, OnSpot}, Mate : {Copies, TwoMeshes},
          Layout : {InARow}, Kind : {Same("PEC")}, Substrate : {FALSE}]
  \union [GTCs : Several, Motion : {Alike, Turn}, Mate : {Copies, TwoMeshes}, Layout : {InARow},
          Kind : {Same("PEC"), Same("DIELECTRIC")}, Substrate : BOOLEAN]
=============================================================================
