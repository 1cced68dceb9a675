---------------------------- MODULE SurfacePairs ----------------------------
(***************************************************************************)
(* The blocks of the system matrix that libscuffSolver assembles, and      *)
(* FindEquivalentSurfacePair (scuffSolver.cc), by which it recognises      *)
(* that two pairs of surfaces have the same block: the surfaces are copies *)
(* of the same ones (RWGGeometry::Mate) and displaced against each other   *)
(* in the same way.                                                        *)
(*                                                                         *)
(* The geometrical transformations are the translations along one axis: a  *)
(* place is an integer, pos[ns] is the place of surface ns.  Surfaces are  *)
(* numbered from 0 as in the code, whose loop over nsB starts from 1.      *)
(***************************************************************************)
EXTENDS Integers

CONSTANTS NS,    \* surfaces
          None

\* RWGGeometry::Mate: an earlier surface of the same mesh and material, or -1.
VARIABLE Mate

Surfaces   == 0..NS - 1
UpperPairs == { p \in Surfaces \X Surfaces : p[1] < p[2] }

ASSUME NSAssumption == NS \in Nat \ {0}

\* The mate of a surface is the first of its kind.
MateOK ==
  /\ Mate \in [Surfaces -> -1..NS - 1]
  /\ \A ns \in Surfaces : Mate[ns] < ns /\ (Mate[ns] # -1 => Mate[Mate[ns]] = -1)

\* The surface whose mesh it is.
Original(ns) == IF Mate[ns] = -1 THEN ns ELSE Mate[ns]

\* A block depends on the frequency, the substrate, the meshes and materials of
\* the two surfaces, and on how they lie to each other.
Interaction(freq, sub, pos, a, b) ==
  << freq, sub, Original(a), Original(b), pos[b] - pos[a] >>
Transposed(u) == << u[1], u[2], u[4], u[3], -u[5] >>

\* What the storage of the matrix held before: zeros, or parts of the factors of
\* the last matrix.
Leftover == << None, None, None, None, 0 >>

\* Mutant: the displacement is compared up to its sign.
MatchesEitherWay(pos, p) ==
  { q \in (0..p[1]) \X (1..p[2]) :
      /\ q # p
      /\ Original(q[1]) = Original(p[1]) /\ Original(q[2]) = Original(p[2])
      /\ pos[q[2]] - pos[q[1]] \in {pos[p[2]] - pos[p[1]], pos[p[1]] - pos[p[2]]} }

\* The pairs that the two loops look at and that are displaced as p is.
Matches(pos, p) ==
  { q \in (0..p[1]) \X (1..p[2]) :
      /\ q # p
      /\ Original(q[1]) = Original(p[1]) /\ Original(q[2]) = Original(p[2])
      /\ pos[q[2]] - pos[q[1]] = pos[p[2]] - pos[p[1]] }

Before(q, r) == q[1] < r[1] \/ (q[1] = r[1] /\ q[2] <= r[2])

HasEquivalent(pos, p) == (Mate[p[1]] # -1 \/ Mate[p[2]] # -1) /\ Matches(pos, p) # {}
FindEquivalentSurfacePair(pos, p) ==
  CHOOSE q \in Matches(pos, p) : \A r \in Matches(pos, p) : Before(q, r)

\* The pair found may have its surfaces in descending order; the block above the
\* diagonal is then that of the exchanged pair.
Flipped(q) == q[2] < q[1]
InOrder(q) == IF Flipped(q) THEN << q[2], q[1] >> ELSE q

\* The block of p made from that of its equivalent pair in a table of blocks.
FromParent(pos, p, table) ==
  LET q == FindEquivalentSurfacePair(pos, p)
  IN  IF Flipped(q) THEN Transposed(table[InOrder(q)]) ELSE table[q]

\* A matrix is given by its diagonal blocks and those above the diagonal; the
\* lower triangle is always the mirror image of the upper one.
BlockPlaces == { ab \in Surfaces \X Surfaces : ab[1] <= ab[2] }
Symmetric(diag(_), upper(_)) ==
  [ab \in BlockPlaces |-> IF ab[1] = ab[2] THEN diag(ab[1]) ELSE upper(ab)]

\* The diagonal blocks of copies are those of their originals.
DiagonalBlock(freq, sub, pos, ns) == Interaction(freq, sub, pos, Original(ns), Original(ns))

\* RWGGeometry::AssembleBEMMatrix (geometries without ports).
AssembleBEMMatrix(freq, sub, pos) ==
  Symmetric(LAMBDA ns : DiagonalBlock(freq, sub, pos, ns),
            LAMBDA p : Interaction(freq, sub, pos, p[1], p[2]))

\* AssembleMOIMatrix (geometries with ports): blocks of equivalent pairs are
\* copied within the matrix.  For a flipped pair the place copied from is below
\* the diagonal, which is filled in only at the end.  For any other it is a block
\* that was computed (ParentComputed in RFSolver_proof).
CopiedBlock(freq, sub, pos, q) ==
  IF Flipped(q) THEN Leftover ELSE Interaction(freq, sub, pos, q[1], q[2])
AssembleMOIMatrix(freq, sub, pos) ==
  Symmetric(LAMBDA ns : DiagonalBlock(freq, sub, pos, ns),
            LAMBDA p : IF HasEquivalent(pos, p)
                         THEN CopiedBlock(freq, sub, pos, FindEquivalentSurfacePair(pos, p))
                         ELSE Interaction(freq, sub, pos, p[1], p[2]))
=============================================================================
