--------------------------- MODULE BMAccelerator ---------------------------
(***************************************************************************)
(* scuff-static: the loop over the transformations of a .trans file and    *)
(* the accelerator that assembles the matrix of the electrostatics problem *)
(* from its blocks: diagonal blocks are assembled once, the others only if *)
(* a surface has moved and, when there is one transformation, only if no   *)
(* other pair of surfaces has the same block.                              *)
(*                                                                         *)
(* The surfaces lie on a line, on which they can be displaced and turned   *)
(* round; copies of one mesh differ by how they are placed.  Without a     *)
(* substrate the coupling of two surfaces depends on their meshes and on   *)
(* the one's place as seen from the other; above a substrate it depends on *)
(* their absolute places too.                                              *)
(***************************************************************************)
EXTENDS TransformedGeometry, Integers

CONSTANTS Inputs,       \* the files the program may be run with
          None

\* A geometrical transformation: to turn round about 0, or not, and then to
\* displace.  Compose(f, g) is g followed by f.
Motions == [turned : BOOLEAN, by : Int]
Still == [turned |-> FALSE, by |-> 0]
Image(f, x) == f.by + (IF f.turned THEN -x ELSE x)
Compose(f, g) == [turned |-> f.turned # g.turned, by |-> Image(f, g.by)]
Inverted(f) == [turned |-> f.turned, by |-> IF f.turned THEN f.by ELSE -f.by]

\* Where a surface is after a transformation that moves some, each by its motion.
Placed(moved, motion, start, ns) ==
  IF ns \in moved THEN Compose(motion[ns], start[ns]) ELSE start[ns]

ASSUME StaticAssumption ==
  /\ Inputs \subseteq
       [ GTCs : TransFiles,              \* the .trans file
         Mate : [Surfaces -> 0..NS],     \* an earlier surface with the same mesh and
                                         \* material, or 0
         Motion : [Transformations -> [Surfaces -> Motions]],
         Layout : [Surfaces -> Motions], \* where the .scuffgeo file puts the surfaces
         Kind : [Surfaces -> {"PEC", "LAMBDASURFACE", "DIELECTRIC"}],
         Substrate : BOOLEAN ]           \* is there one?
  /\ \A i \in Inputs, ns \in Surfaces :
       /\ i.Mate[ns] < ns
       /\ i.Mate[ns] # 0 => i.Mate[i.Mate[ns]] = 0 /\ i.Kind[ns] = i.Kind[i.Mate[ns]]
\* Transformations do not put copies of a mesh in one place.
ASSUME ApartAssumption ==
  \A i \in Inputs : \A a, b \in Surfaces :
    a < b /\ i.Mate[b] # 0 /\ i.Mate[b] \in {a, i.Mate[a]} =>
      \A k \in DOMAIN i.GTCs : Placed(i.GTCs[k], i.Motion[k], i.Layout, a)
                               # Placed(i.GTCs[k], i.Motion[k], i.Layout, b)

VARIABLES
  Motion, Mate, Layout, Kind, Substrate,
  Vertices,           \* where each surface is
  step, nt,      \* where the loop over the transformations is
  PairMatrix,    \* for each pair the equivalent one, and whether it is turned round
  TBlocks, UBlocks,   \* what each block was last assembled for
  M              \* the blocks stamped into the matrix

files == <<Motion, Mate, Layout, Kind, Substrate>>
vars == <<geometry, files, Vertices, step, nt, PairMatrix, TBlocks, UBlocks, M>>

\* A surface with a mate points to the mate's block.
Owner(ns) == IF Mate[ns] = 0 THEN ns ELSE Mate[ns]

\* Where transformation k puts a surface that was in its original place.
Position(ns, k) == Placed(GTCs[k], Motion[k], Layout, ns)

\* The block of two surfaces, given where each of them is.
Content(a, b, here, there) ==
  [row |-> Owner(a), col |-> Owner(b), seen |-> Compose(Inverted(here), there),
   place |-> IF Substrate THEN here ELSE Still]

Contents == [row : Surfaces, col : Surfaces, seen : Motions, place : Motions]
ASSUME NoneAssumption == None \notin Contents

ContentNow(a, b) == Content(a, b, Vertices[a], Vertices[b])

-----------------------------------------------------------------------------
(* Equivalent pairs.                                                       *)

\* How the search for them places a surface under transformation 1: as if the
\* motion came before the placement by the .scuffgeo file (GT before OTGT).
Told(ns) == IF ns \in GTCs[1] THEN Compose(Layout[ns], Motion[1][ns]) ELSE Layout[ns]
Seen(a, b) == Compose(Inverted(Told(a)), Told(b))

\* The pairs found equivalent to p, of either order, among those that are tried.
Equivalents(p) ==
  { q \in (1..p[1]) \X (2..p[2]) :
      q # p /\ Owner(q[1]) = Owner(p[1]) /\ Owner(q[2]) = Owner(p[2])
      /\ Seen(q[1], q[2]) = Seen(p[1], p[2]) }

\* OffDiagonalBlockIndex as a pair: the index of a pair k, k, which is found if its
\* search places p's surfaces alike, is that of the pair before k, k + 1.
Indexed(q) ==
  IF q[1] < q[2] THEN q ELSE IF q[2] < q[1] THEN <<q[2], q[1]>> ELSE <<q[1] - 1, NS>>

First(Q) == CHOOSE q \in Q : \A r \in Q : q[1] < r[1] \/ (q[1] = r[1] /\ q[2] <= r[2])

\* Mutant: a pair of the other order is not marked as turned round.
EquivalentToUnflipped(p) ==
  IF p[1] = 1 \/ (Mate[p[1]] = 0 /\ Mate[p[2]] = 0) \/ Equivalents(p) = {} THEN None
  ELSE LET q == First(Equivalents(p))
       IN  IF Indexed(q) = <<1, 2>> THEN None ELSE [pair |-> Indexed(q), flip |-> FALSE]

\* GetEquivalentPairMatrix: the first of them, as a pair above the diagonal.
\* The entry is the index of that pair with a sign, and 0 stands for none, so
\* that the very first pair is never taken.
EquivalentTo(p) ==
  IF p[1] = 1 \/ (Mate[p[1]] = 0 /\ Mate[p[2]] = 0) \/ Equivalents(p) = {} THEN None
  ELSE LET q == First(Equivalents(p))
       IN  IF Indexed(q) = <<1, 2>> THEN None
           ELSE [pair |-> Indexed(q), flip |-> q[2] < q[1]]

-----------------------------------------------------------------------------
Init ==
  /\ \E i \in Inputs : /\ GTCs = i.GTCs /\ Motion = i.Motion /\ Mate = i.Mate /\ Layout = i.Layout
                      /\ Kind = i.Kind /\ Substrate = i.Substrate
  /\ GT = Home /\ SurfaceMoved = {} /\ Vertices = Layout
  /\ step = "create" /\ nt = 1
  /\ PairMatrix = [p \in Pairs |-> None]
  /\ TBlocks = [ns \in Surfaces |-> None] /\ UBlocks = [p \in Pairs |-> None]
  /\ M = None

NumTransformations == Len(GTCs)

\* main looks for equivalent pairs if there is one transformation.
UsePairEquivalence == NumTransformations = 1

\* The geometry is transformed and restored for the matrix of pairs.
CreateBMAccelerator ==
  /\ step = "create" /\ step' = "transformation"
  /\ IF UsePairEquivalence
     THEN /\ PairMatrix' = [p \in Pairs |-> EquivalentTo(p)]
          /\ SurfaceMoved' = GTCs[1]
     ELSE UNCHANGED <<PairMatrix, SurfaceMoved>>
  /\ UNCHANGED <<GTCs, GT, files, Vertices, nt, TBlocks, UBlocks, M>>

ApplyTransformation ==
  /\ step = "transformation" /\ nt <= NumTransformations
  /\ Transform(nt)
  /\ Vertices' = [ns \in Surfaces |-> Placed(GTCs[nt], Motion[nt], Vertices, ns)]
  /\ step' = "reassemble"
  /\ UNCHANGED <<files, nt, PairMatrix, TBlocks, UBlocks, M>>

\* Mutant: blocks are assembled anew for moved surfaces only.
RecomputeMovedOnly(p) == p[1] \in SurfaceMoved \/ p[2] \in SurfaceMoved

Recompute(p) == nt = 1 \/ p[1] \in SurfaceMoved \/ p[2] \in SurfaceMoved

\* Mutant: the diagonal blocks of mates are assembled, those of the others not.
AssembleBlocksOfMates ==
  /\ step = "reassemble" /\ step' = "stamp"
  /\ TBlocks' = [ns \in Surfaces |->
       IF nt = 1 /\ Mate[ns] # 0 THEN ContentNow(ns, ns) ELSE TBlocks[ns]]
  /\ UBlocks' = [p \in Pairs |->
       IF PairMatrix[p] = None /\ Recompute(p) THEN ContentNow(p[1], p[2]) ELSE UBlocks[p]]
  /\ UNCHANGED <<geometry, files, Vertices, nt, PairMatrix, M>>

\* The first half of ReassembleBEMMatrix.
AssembleBlocks ==
  /\ step = "reassemble" /\ step' = "stamp"
  /\ TBlocks' = [ns \in Surfaces |->
       IF nt = 1 /\ Mate[ns] = 0 THEN ContentNow(ns, ns) ELSE TBlocks[ns]]
  /\ UBlocks' = [p \in Pairs |->
       IF PairMatrix[p] = None /\ Recompute(p) THEN ContentNow(p[1], p[2]) ELSE UBlocks[p]]
  /\ UNCHANGED <<geometry, files, Vertices, nt, PairMatrix, M>>

\* Which block stands for a pair, and whether it is that of the pair turned round.
Source(p) == IF PairMatrix[p] = None THEN [pair |-> p, flip |-> FALSE] ELSE PairMatrix[p]
Entry(block, transposed) == [block |-> block, transposed |-> transposed]

\* Mutant: the lower triangle repeats the upper one without transposing it.
StampBlocksUntransposed ==
  /\ step = "stamp" /\ step' = "solve"
  /\ M' = [ab \in Surfaces \X Surfaces |->
       LET a == ab[1]  b == ab[2]
       IN  IF a = b THEN Entry(TBlocks[Owner(a)], FALSE)
           ELSE IF a < b THEN Entry(UBlocks[Source(<<a, b>>).pair], Source(<<a, b>>).flip)
           ELSE Entry(UBlocks[Source(<<b, a>>).pair], Source(<<b, a>>).flip)]
  /\ UNCHANGED <<geometry, files, Vertices, nt, PairMatrix, TBlocks, UBlocks>>

\* The second half: each pair's block goes above the diagonal and its transpose
\* below, or the other way round.
StampBlocks ==
  /\ step = "stamp" /\ step' = "solve"
  /\ M' = [ab \in Surfaces \X Surfaces |->
       LET a == ab[1]  b == ab[2]
       IN  IF a = b THEN Entry(TBlocks[Owner(a)], FALSE)
           ELSE IF a < b THEN Entry(UBlocks[Source(<<a, b>>).pair], Source(<<a, b>>).flip)
           ELSE Entry(UBlocks[Source(<<b, a>>).pair], ~Source(<<b, a>>).flip)]
  /\ UNCHANGED <<geometry, files, Vertices, nt, PairMatrix, TBlocks, UBlocks>>

\* Mutant: the surfaces stay where the transformation put them.
EndTransformationNoUndo ==
  /\ nt' = nt + 1
  /\ step' = IF nt' <= NumTransformations THEN "transformation" ELSE "done"
  /\ UNCHANGED <<geometry, files, Vertices, PairMatrix, TBlocks, UBlocks, M>>

EndTransformation ==
  /\ nt' = nt + 1
  /\ step' = IF nt' <= NumTransformations THEN "transformation" ELSE "done"
  /\ UnTransform /\ Vertices' = Layout
  /\ UNCHANGED <<files, PairMatrix, TBlocks, UBlocks, M>>

\* The outputs for this transformation; then the geometry is restored.
Solve == step = "solve" /\ EndTransformation

Done == step = "done" /\ UNCHANGED vars

Next ==
  \/ CreateBMAccelerator \/ ApplyTransformation \/ AssembleBlocks \/ StampBlocks
  \/ Solve \/ Done

Spec == Init /\ [][Next]_vars

-----------------------------------------------------------------------------
\* The loop counts within its bounds, the geometry is at home between two
\* transformations, and a pair of surfaces is equivalent to an earlier one.
TypeOK ==
  /\ step \in {"create", "transformation", "reassemble", "stamp", "solve", "done"}
  /\ nt \in 1..NumTransformations + 1
  /\ step = "transformation" => nt <= NumTransformations /\ GT = Home /\ Vertices = Layout
  /\ \A p \in Pairs : PairMatrix[p] # None => PairMatrix[p].pair \in Pairs \ {p}

\* The block of two surfaces in the geometry of this transformation.
RightContent(a, b) == Content(a, b, Position(a, nt), Position(b, nt))

\* The kernel takes its kind from the surface of the row: transposing a block
\* gives that of the pair turned round only if both have one symmetric kind.
Symmetric(a, b) == Kind[a] = Kind[b] /\ Kind[a] # "DIELECTRIC"

IsBlockOf(entry, a, b) ==
  IF entry.transposed THEN Symmetric(a, b) /\ entry.block = RightContent(b, a)
  ELSE entry.block = RightContent(a, b)

\* The diagonal blocks the solver factorizes are those of the geometry at hand,
\* although they are assembled for one transformation and for one of the copies
\* of a mesh; unless there is a substrate.
DiagonalCorrect ==
  step = "solve" /\ ~Substrate =>
    \A a \in Surfaces : M[<<a, a>>] = Entry(RightContent(a, a), FALSE)

\* A pair takes its block from one that takes its own from a third one.
Chained(p) == PairMatrix[p] # None /\ PairMatrix[PairMatrix[p].pair] # None

\* The same, for the matrix of pairs the program will make.
SomeChain ==
  UsePairEquivalence /\ \E p \in Pairs :
    EquivalentTo(p) # None /\ EquivalentTo(EquivalentTo(p).pair) # None

\* A pair takes its block from one at other heights above the substrate.
AtOtherHeight(p) == Substrate /\ PairMatrix[p] # None

\* The search places a surface of the pair or of the one found for it elsewhere
\* than the transformation does, which rotations of displaced surfaces show.
OutOfOrder(p) ==
  /\ PairMatrix[p] # None
  /\ \E ns \in {p[1], p[2], PairMatrix[p].pair[1], PairMatrix[p].pair[2]} :
       Told(ns) # Position(ns, 1)

\* The blocks above the diagonal are those of the geometry at hand, whether they
\* were assembled for it, kept from the last transformation or taken from an
\* equivalent pair, and so are those below, which are never assembled themselves.
\* The exceptions are blocks that are transposed though the surfaces are not of
\* one symmetric kind, or left over, or taken from a wrong pair: by way of a third
\* one, above a substrate, or because the search misplaces surfaces.
OffDiagonalCorrect ==
  step = "solve" =>
    \A p \in Pairs :
      LET a == p[1]  b == p[2] IN
      \/ WentHome(p, nt) \/ Chained(p) \/ AtOtherHeight(p) \/ OutOfOrder(p)
      \/ /\ IsBlockOf(M[<<a, b>>], a, b) \/ (M[<<a, b>>].transposed /\ ~Symmetric(a, b))
         /\ IsBlockOf(M[<<b, a>>], b, a) \/ (M[<<b, a>>].transposed /\ ~Symmetric(a, b))
=============================================================================
