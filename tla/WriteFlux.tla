----------------------------- MODULE WriteFlux -----------------------------
(***************************************************************************)
(* scuff-neq: WriteFlux computes the fluxes between the bodies at one      *)
(* frequency, for each transformation of the .trans file.  It first        *)
(* assembles the diagonal blocks twice, once with every region but the     *)
(* exterior one of the surface switched off and once with every region but *)
(* the interior one (the sources of the fluxes are made of the latter),    *)
(* then loops over the transformations and assembles again only the other  *)
(* blocks whose surfaces the transformation moves.                         *)
(***************************************************************************)
EXTENDS TransformedGeometry

CONSTANTS Mate,         \* an earlier surface with the same diagonal block, or 0
          Regions,
          Exterior,     \* RegionIndices[0] of each surface
          Interior,     \* RegionIndices[1] of each surface, None if it is PEC
          MaxOmega,     \* the frequencies are 0 .. MaxOmega-1
          None

ASSUME FluxAssumption ==
  /\ TransFiles \subseteq [Transformations -> SUBSET Surfaces]
  /\ Mate \in [Surfaces -> 0..NS]
  /\ \A ns \in Surfaces : Mate[ns] < ns /\ (Mate[ns] # 0 => Mate[Mate[ns]] = 0)
  /\ \A ns \in Surfaces : Mate[ns] # 0 => (Interior[ns] = None <=> Interior[Mate[ns]] = None)
  /\ Exterior \in [Surfaces -> Regions]
  /\ Interior \in [Surfaces -> Regions \cup {None}]
  /\ \A ns \in Surfaces : Exterior[ns] # Interior[ns]
  /\ MaxOmega \in Nat \ {0}
  /\ None \notin Regions

VARIABLES
  step, n, nt,   \* where the loops are: frequency, transformation
  ns0,           \* the surface whose diagonal blocks are next
  Zeroed,        \* the regions that are switched off
  TExt, TInt,    \* what each diagonal block was last assembled for
  U,             \* the same for the blocks above the diagonal
  M              \* the blocks stamped into the matrix

vars == <<geometry, step, n, nt, ns0, Zeroed, TExt, TInt, U, M>>

IsPEC(ns) == Interior[ns] = None

\* The regions on the two sides of a surface; those two surfaces share.
Sides(ns) == {Exterior[ns], Interior[ns]} \ {None}
Common(p) == Sides(p[1]) \cap Sides(p[2])

\* A diagonal block is the sum of what the two sides contribute to it.
SelfBlock(freq, ext, int) == [freq |-> freq, exterior |-> ext, interior |-> int]
SelfBlockOf(ns, off) == LET on == Sides(ns) \ off
                        IN  SelfBlock(n, Exterior[ns] \in on, Interior[ns] \in on)
OffDiagonalBlock(block, on) == [block |-> block, regions |-> on]

Init ==
  /\ GeometryInit
  /\ step = "omega" /\ n = 0 /\ nt = 1 /\ ns0 = 1
  /\ Zeroed = {}
  /\ TExt = [ns \in Surfaces |-> None] /\ TInt = TExt
  /\ U = [p \in Pairs |-> None] /\ M = None

ZeroRegions ==
  /\ step = "omega" /\ step' = "self"
  /\ Zeroed' = Regions /\ ns0' = 1
  /\ UNCHANGED <<geometry, n, nt, TExt, TInt, U, M>>

\* A surface with a mate shares the mate's blocks.
Owner(ns) == IF Mate[ns] = 0 THEN ns ELSE Mate[ns]

SkipMate ==
  /\ step = "self" /\ ns0 <= NS /\ Mate[ns0] # 0
  /\ ns0' = ns0 + 1
  /\ UNCHANGED <<geometry, step, n, nt, Zeroed, TExt, TInt, U, M>>

\* Mutant: the interior region stays on while the exterior block is assembled.
AssembleSelfBothOn ==
  /\ step = "self" /\ ns0 <= NS /\ Mate[ns0] = 0
  /\ TInt' = IF IsPEC(ns0) THEN TInt
             ELSE [TInt EXCEPT ![ns0] = SelfBlockOf(ns0, Zeroed \ {Interior[ns0]})]
  /\ TExt' = [TExt EXCEPT ![ns0] = SelfBlockOf(ns0, Zeroed \ Sides(ns0))]
  /\ Zeroed' = Zeroed \cup Sides(ns0)
  /\ ns0' = ns0 + 1
  /\ UNCHANGED <<geometry, step, n, nt, U, M>>

\* Each side is switched on for its own block and off again.
AssembleSelf ==
  /\ step = "self" /\ ns0 <= NS /\ Mate[ns0] = 0
  /\ TInt' = IF IsPEC(ns0) THEN TInt
             ELSE [TInt EXCEPT ![ns0] = SelfBlockOf(ns0, Zeroed \ {Interior[ns0]})]
  /\ TExt' = [TExt EXCEPT ![ns0] = SelfBlockOf(ns0, Zeroed \ {Exterior[ns0]})]
  /\ Zeroed' = Zeroed \cup Sides(ns0)
  /\ ns0' = ns0 + 1
  /\ UNCHANGED <<geometry, step, n, nt, U, M>>

UnZeroRegions ==
  /\ step = "self" /\ ns0 > NS
  /\ Zeroed' = {}
  /\ step' = "transformation" /\ nt' = 1
  /\ UNCHANGED <<geometry, n, ns0, TExt, TInt, U, M>>

ApplyTransformation ==
  /\ step = "transformation" /\ nt <= NT
  /\ Transform(nt)
  /\ step' = "blocks"
  /\ UNCHANGED <<n, nt, ns0, Zeroed, TExt, TInt, U, M>>

\* Mutant: the first transformation is no exception.
RecomputeMovedOnly(p) == p[1] \in SurfaceMoved \/ p[2] \in SurfaceMoved

Recompute(p) == nt = 1 \/ p[1] \in SurfaceMoved \/ p[2] \in SurfaceMoved

AssembleU ==
  /\ step = "blocks" /\ step' = "factorize"
  /\ U' = [p \in Pairs |-> IF Recompute(p)
                           THEN OffDiagonalBlock(BlockAt(n, p), Common(p) \ Zeroed)
                           ELSE U[p]]
  /\ UNCHANGED <<geometry, n, nt, ns0, Zeroed, TExt, TInt, M>>

\* The diagonal blocks are the sums of two parts, of one part for a PEC surface.
Stamped(ns) == IF IsPEC(ns) THEN {TExt[Owner(ns)]} ELSE {TExt[Owner(ns)], TInt[Owner(ns)]}

Factorize ==
  /\ step = "factorize" /\ step' = "flux"
  /\ M' = [T |-> [ns \in Surfaces |-> Stamped(ns)], U |-> U]
  /\ UNCHANGED <<geometry, n, nt, ns0, Zeroed, TExt, TInt, U>>

\* The fluxes from every source are written; then the geometry is restored.
ComputeFlux ==
  /\ step = "flux" /\ step' = "transformation"
  /\ nt' = nt + 1
  /\ UnTransform
  /\ UNCHANGED <<n, ns0, Zeroed, TExt, TInt, U, M>>

\* Mutant: the loop runs to one frequency beyond the list.
NextOmegaInclusive ==
  /\ step = "transformation" /\ nt > NT
  /\ n' = n + 1
  /\ step' = IF n' <= MaxOmega THEN "omega" ELSE "done"
  /\ UNCHANGED <<geometry, nt, ns0, Zeroed, TExt, TInt, U, M>>

NextOmega ==
  /\ step = "transformation" /\ nt > NT
  /\ n' = n + 1
  /\ step' = IF n' < MaxOmega THEN "omega" ELSE "done"
  /\ UNCHANGED <<geometry, nt, ns0, Zeroed, TExt, TInt, U, M>>

Done == step = "done" /\ UNCHANGED vars

Next ==
  \/ ZeroRegions \/ SkipMate \/ AssembleSelf \/ UnZeroRegions
  \/ ApplyTransformation \/ AssembleU \/ Factorize \/ ComputeFlux
  \/ NextOmega \/ Done

Spec == Init /\ [][Next]_vars

-----------------------------------------------------------------------------
\* The state has the shape the code gives it: the loops count within their
\* bounds, only regions are switched off, and none is when the frequency is done.
TypeOK ==
  /\ step \in {"omega", "self", "transformation", "blocks", "factorize", "flux", "done"}
  /\ n \in 0..MaxOmega /\ nt \in 1..NT + 1 /\ ns0 \in 1..NS + 1
  /\ Zeroed \subseteq Regions
  /\ step # "self" => Zeroed = {}

\* While fluxes are computed the two parts of each diagonal block are apart:
\* the sources are made of the interior part alone, at this frequency, and the
\* matrix has both parts.  (Assembling them needs the materials of regions that
\* surfaces share switched on and off in the right order.)
SourcesRight ==
  step = "flux" =>
    \A ns \in Surfaces :
      /\ TExt[Owner(ns)] = SelfBlock(n, TRUE, FALSE)
      /\ ~IsPEC(ns) => TInt[Owner(ns)] = SelfBlock(n, FALSE, TRUE)
      /\ M.T[ns] = {SelfBlock(n, TRUE, FALSE)}
                     \cup (IF IsPEC(ns) THEN {} ELSE {SelfBlock(n, FALSE, TRUE)})

\* The block of two surfaces at this frequency, in the geometry that
\* transformation k gives when applied to the original state, with the materials
\* of all regions in place (doc/docs/reference/Transformations.md).
RightU(p, k) == OffDiagonalBlock(RightBlock(n, p, k), Common(p))

\* The matrix has the blocks of this frequency and transformation, unless both
\* surfaces went home.  The block of two surfaces with no region in common is
\* zero wherever they are.
MatrixCorrect ==
  step = "flux" =>
    \A p \in Pairs : Common(p) # {} => M.U[p] = RightU(p, nt) \/ WentHome(p, nt)
=============================================================================
