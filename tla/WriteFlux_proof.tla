-------------------------- MODULE WriteFlux_proof --------------------------
(***************************************************************************)
(* Proofs about WriteFlux: for any surfaces, regions and frequencies the   *)
(* two parts of each diagonal block stay apart, and for every .trans file  *)
(* the matrix is the right one but for surfaces that went home.            *)
(***************************************************************************)
EXTENDS WriteFlux, TLAPS

\* Inside the work for one transformation.
Working == step \in {"blocks", "factorize", "flux"}

-----------------------------------------------------------------------------
(* Counters, regions and types.                                            *)

\* What TypeOK rests on: the loops are inside their bounds while they run, and
\* all regions are off exactly while diagonal blocks are assembled.
LoopInv ==
  /\ Working => nt <= NT
  /\ step # "done" => n < MaxOmega
  /\ Zeroed = IF step = "self" THEN Regions ELSE {}

LEMMA TypeInit == Init => TypeOK /\ LoopInv
BY GeometryAssumption, FluxAssumption DEF Init, TypeOK, LoopInv, Working

LEMMA TypeStep ==
  ASSUME TypeOK, LoopInv, [Next]_vars
  PROVE  TypeOK' /\ LoopInv'
<1> USE GeometryAssumption, FluxAssumption DEF TypeOK, LoopInv, Working
<1>1. CASE ZeroRegions
  BY <1>1 DEF ZeroRegions
<1>2. CASE SkipMate
  BY <1>2 DEF SkipMate
<1>3. CASE AssembleSelf
  <2>1. Sides(ns0) \subseteq Regions
    BY <1>3 DEF AssembleSelf, Sides, Surfaces
  <2> QED BY <1>3, <2>1 DEF AssembleSelf
<1>4. CASE UnZeroRegions
  BY <1>4 DEF UnZeroRegions
<1>5. CASE ApplyTransformation
  BY <1>5 DEF ApplyTransformation
<1>6. CASE AssembleU
  BY <1>6 DEF AssembleU
<1>7. CASE Factorize
  BY <1>7 DEF Factorize
<1>8. CASE ComputeFlux
  BY <1>8 DEF ComputeFlux
<1>9. CASE NextOmega
  BY <1>9 DEF NextOmega
<1>10. CASE UNCHANGED vars
  BY <1>10 DEF vars
<1> QED BY <1>1, <1>2, <1>3, <1>4, <1>5, <1>6, <1>7, <1>8, <1>9, <1>10 DEF Next, Done

\* The loops count within their bounds and no region is left switched off.
THEOREM TypeCorrect == Spec => []TypeOK
<1>1. TypeOK /\ LoopInv /\ [Next]_vars => (TypeOK /\ LoopInv)'
  BY TypeStep
<1> QED BY TypeInit, <1>1, PTL DEF Spec

-----------------------------------------------------------------------------
(* The diagonal blocks.                                                    *)

\* The first k-1 surfaces have their two parts for this frequency.
SplitUpTo(k) ==
  \A ns \in Surfaces : ns < k /\ Mate[ns] = 0 =>
    /\ TExt[ns] = SelfBlock(n, TRUE, FALSE)
    /\ ~IsPEC(ns) => TInt[ns] = SelfBlock(n, FALSE, TRUE)

SplitInv ==
  /\ DOMAIN TExt = Surfaces /\ DOMAIN TInt = Surfaces
  /\ step = "self" => SplitUpTo(ns0)
  /\ step = "transformation" \/ Working => SplitUpTo(NS + 1)

StampInv == step = "flux" => \A ns \in Surfaces : M.T[ns] = Stamped(ns)

\* What a surface contributes with all regions off but one.
LEMMA OneSideOn ==
  ASSUME NEW ns \in Surfaces
  PROVE  /\ SelfBlockOf(ns, Regions \ {Exterior[ns]}) = SelfBlock(n, TRUE, FALSE)
         /\ ~IsPEC(ns) => SelfBlockOf(ns, Regions \ {Interior[ns]}) = SelfBlock(n, FALSE, TRUE)
<1>1. /\ Exterior[ns] \in Regions /\ Interior[ns] \in Regions \cup {None}
      /\ Exterior[ns] # Interior[ns] /\ None \notin Regions
  BY FluxAssumption
<1>2. Sides(ns) \ (Regions \ {Exterior[ns]}) = {Exterior[ns]}
  BY <1>1 DEF Sides
<1>3. ~IsPEC(ns) => Sides(ns) \ (Regions \ {Interior[ns]}) = {Interior[ns]}
  BY <1>1 DEF Sides, IsPEC
<1>4. /\ (Exterior[ns] \in {Exterior[ns]}) = TRUE /\ (Interior[ns] \in {Exterior[ns]}) = FALSE
      /\ (Interior[ns] \in {Interior[ns]}) = TRUE /\ (Exterior[ns] \in {Interior[ns]}) = FALSE
  BY <1>1
<1>5. SelfBlockOf(ns, Regions \ {Exterior[ns]}) = SelfBlock(n, TRUE, FALSE)
  BY <1>2, <1>4 DEF SelfBlockOf
<1>6. ~IsPEC(ns) => SelfBlockOf(ns, Regions \ {Interior[ns]}) = SelfBlock(n, FALSE, TRUE)
  BY <1>3, <1>4 DEF SelfBlockOf
<1> QED BY <1>5, <1>6

LEMMA SplitStep ==
  ASSUME TypeOK, LoopInv, SplitInv, [Next]_vars
  PROVE  SplitInv'
<1> USE DEF SplitInv, SplitUpTo, Working
<1>1. CASE ZeroRegions
  <2>1. \A ns \in Surfaces : ~(ns < 1)
    BY DEF Surfaces
  <2> QED BY <1>1, <2>1 DEF ZeroRegions
<1>2. CASE SkipMate
  <2>1. \A ns \in Surfaces : ns < ns0 + 1 /\ Mate[ns] = 0 => ns < ns0
    BY <1>2 DEF SkipMate, TypeOK, Surfaces
  <2> QED BY <1>2, <2>1 DEF SkipMate
<1>3. CASE AssembleSelf
  <2>1. ns0 \in Surfaces /\ Zeroed = Regions
    BY <1>3, GeometryAssumption DEF AssembleSelf, TypeOK, LoopInv, Surfaces
  <2>2. TExt' = [TExt EXCEPT ![ns0] = SelfBlock(n, TRUE, FALSE)]
    BY <1>3, <2>1, OneSideOn DEF AssembleSelf
  <2>3. /\ IsPEC(ns0) => TInt' = TInt
        /\ ~IsPEC(ns0) => TInt' = [TInt EXCEPT ![ns0] = SelfBlock(n, FALSE, TRUE)]
    BY <1>3, <2>1, OneSideOn DEF AssembleSelf
  <2>4. step = "self" /\ step' = step /\ n' = n /\ ns0' = ns0 + 1
    BY <1>3 DEF AssembleSelf
  <2>5. \A ns \in Surfaces : ns < ns0 + 1 => ns < ns0 \/ ns = ns0
    BY <2>1 DEF Surfaces
  <2>6. DOMAIN TExt' = Surfaces /\ DOMAIN TInt' = Surfaces
    BY <2>2, <2>3
  <2>7. SplitUpTo(ns0)
    BY <2>4
  <2>8. ASSUME NEW ns \in Surfaces, ns < ns0 + 1, Mate[ns] = 0
        PROVE  /\ TExt'[ns] = SelfBlock(n, TRUE, FALSE)
               /\ ~IsPEC(ns) => TInt'[ns] = SelfBlock(n, FALSE, TRUE)
    <3>1. CASE ns = ns0
      BY <3>1, <2>1, <2>2, <2>3
    <3>2. CASE ns < ns0
      <4>1. ns # ns0
        BY <3>2, <2>1 DEF Surfaces
      <4> QED BY <3>2, <4>1, <2>2, <2>3, <2>7, <2>8
    <3> QED BY <3>1, <3>2, <2>5, <2>8
  <2> QED BY <2>4, <2>6, <2>8 DEF SelfBlock, IsPEC
<1>4. CASE UnZeroRegions
  <2>1. \A ns \in Surfaces : ns < ns0
    BY <1>4, GeometryAssumption DEF UnZeroRegions, TypeOK, Surfaces
  <2> QED BY <1>4, <2>1 DEF UnZeroRegions
<1>5. CASE ApplyTransformation
  BY <1>5 DEF ApplyTransformation
<1>6. CASE AssembleU
  BY <1>6 DEF AssembleU
<1>7. CASE Factorize
  BY <1>7 DEF Factorize
<1>8. CASE ComputeFlux
  BY <1>8 DEF ComputeFlux
<1>9. CASE NextOmega
  BY <1>9 DEF NextOmega
<1>10. CASE UNCHANGED vars
  BY <1>10 DEF vars
<1> QED BY <1>1, <1>2, <1>3, <1>4, <1>5, <1>6, <1>7, <1>8, <1>9, <1>10 DEF Next, Done

LEMMA StampStep ==
  ASSUME StampInv, [Next]_vars
  PROVE  StampInv'
<1> USE DEF StampInv
<1>1. CASE Factorize
  BY <1>1 DEF Factorize, Stamped, IsPEC, Owner
<1>2. CASE UNCHANGED vars
  BY <1>2 DEF vars, Stamped
<1>3. CASE Next /\ ~Factorize /\ ~UNCHANGED vars
  <2>1. step' # "flux"
    BY <1>3 DEF Next, Done, ZeroRegions, SkipMate, AssembleSelf, UnZeroRegions,
                ApplyTransformation, AssembleU, ComputeFlux, NextOmega
  <2> QED BY <2>1
<1> QED BY <1>1, <1>2, <1>3

LEMMA SourcesFromInv ==
  ASSUME SplitInv, StampInv
  PROVE  SourcesRight
<1> SUFFICES ASSUME step = "flux", NEW ns \in Surfaces
             PROVE  /\ TExt[Owner(ns)] = SelfBlock(n, TRUE, FALSE)
                    /\ ~IsPEC(ns) => TInt[Owner(ns)] = SelfBlock(n, FALSE, TRUE)
                    /\ M.T[ns] = {SelfBlock(n, TRUE, FALSE)}
                         \cup (IF IsPEC(ns) THEN {} ELSE {SelfBlock(n, FALSE, TRUE)})
  BY DEF SourcesRight
<1>1. /\ Owner(ns) \in Surfaces /\ Mate[Owner(ns)] = 0 /\ Owner(ns) < NS + 1
      /\ IsPEC(Owner(ns)) <=> IsPEC(ns)
  <2>1. CASE Mate[ns] = 0
    BY <2>1, GeometryAssumption DEF Owner, Surfaces
  <2>2. CASE Mate[ns] # 0
    <3>1. Mate[ns] \in 0..NS /\ Mate[Mate[ns]] = 0
          /\ (Interior[ns] = None <=> Interior[Mate[ns]] = None)
      BY <2>2, FluxAssumption
    <3> QED BY <2>2, <3>1, GeometryAssumption DEF Owner, Surfaces, IsPEC
  <2> QED BY <2>1, <2>2
<1>2. /\ TExt[Owner(ns)] = SelfBlock(n, TRUE, FALSE)
      /\ ~IsPEC(ns) => TInt[Owner(ns)] = SelfBlock(n, FALSE, TRUE)
  BY <1>1 DEF SplitInv, SplitUpTo, Working
<1>3. M.T[ns] = Stamped(ns)
  BY DEF StampInv
<1>4. CASE IsPEC(ns)
  BY <1>2, <1>3, <1>4 DEF Stamped
<1>5. CASE ~IsPEC(ns)
  BY <1>2, <1>3, <1>5 DEF Stamped
<1> QED BY <1>4, <1>5, <1>2

\* Whatever the regions and their order, the sources of the fluxes are made of
\* the interior part of each surface's block and the matrix of both parts.
THEOREM SourcesAreRight == Spec => []SourcesRight
<1> DEFINE IInv == TypeOK /\ LoopInv /\ SplitInv /\ StampInv
<1>1. Init => SplitInv /\ StampInv
  BY DEF Init, SplitInv, StampInv, Working
<1>2. Init => IInv
  BY TypeInit, <1>1
<1>3. IInv /\ [Next]_vars => IInv'
  BY TypeStep, SplitStep, StampStep
<1>4. IInv => SourcesRight
  BY SourcesFromInv
<1> HIDE DEF IInv
<1> QED BY <1>2, <1>3, <1>4, PTL DEF Spec

-----------------------------------------------------------------------------
(* The blocks above the diagonal.                                          *)

\* The surfaces are where the transformation at hand puts them, and at home
\* between two transformations.
PlaceInv ==
  /\ GTCs \in TransFiles
  /\ GT = IF Working THEN [ns \in Surfaces |-> Place(ns, nt)] ELSE Home
  /\ step = "blocks" => SurfaceMoved = GTCs[nt]

\* The blocks follow the transformations with a delay of one step.
RightBut(p, k) == U[p] = RightU(p, k) \/ WentHome(p, k)
BlockInv ==
  /\ step \in {"transformation", "blocks"} /\ nt > 1 => \A p \in Pairs : RightBut(p, nt - 1)
  /\ step \in {"factorize", "flux"} => \A p \in Pairs : RightBut(p, nt)

MatrixInv == PlaceInv /\ BlockInv /\ MatrixCorrect

LEMMA PlaceStep ==
  ASSUME PlaceInv, [Next]_vars
  PROVE  PlaceInv'
<1> USE DEF PlaceInv, Working, geometry
<1>1. CASE ZeroRegions
  BY <1>1 DEF ZeroRegions
<1>2. CASE SkipMate
  BY <1>2 DEF SkipMate
<1>3. CASE AssembleSelf
  BY <1>3 DEF AssembleSelf
<1>4. CASE UnZeroRegions
  BY <1>4 DEF UnZeroRegions
<1>5. CASE ApplyTransformation
  <2>1. GT = Home /\ GTCs' = GTCs /\ nt' = nt /\ step' = "blocks"
    BY <1>5 DEF ApplyTransformation, Transform
  <2>2. GT' = [ns \in Surfaces |-> IF ns \in GTCs[nt] THEN Append(<<>>, nt) ELSE <<>>]
    BY <1>5, <2>1 DEF ApplyTransformation, Transform, Home
  <2>3. Append(<<>>, nt) = <<nt>>
    OBVIOUS
  <2>4. GT' = [ns \in Surfaces |-> Place(ns, nt)']
    BY <2>1, <2>2, <2>3 DEF Place
  <2>5. SurfaceMoved' = GTCs'[nt']
    BY <1>5, <2>1 DEF ApplyTransformation, Transform
  <2> QED BY <2>1, <2>4, <2>5
<1>6. CASE AssembleU
  BY <1>6 DEF AssembleU, Place
<1>7. CASE Factorize
  BY <1>7 DEF Factorize, Place
<1>8. CASE ComputeFlux
  BY <1>8 DEF ComputeFlux, UnTransform
<1>9. CASE NextOmega
  BY <1>9 DEF NextOmega
<1>10. CASE UNCHANGED vars
  BY <1>10 DEF vars, Place
<1> QED BY <1>1, <1>2, <1>3, <1>4, <1>5, <1>6, <1>7, <1>8, <1>9, <1>10 DEF Next, Done

\* A block that is not assembled again is right for this transformation, if it
\* was right for the last one and its surfaces were at home then.
LEMMA Kept ==
  ASSUME TypeOK, LoopInv, PlaceInv, BlockInv, step = "blocks",
         NEW p \in Pairs, ~Recompute(p)
  PROVE  RightBut(p, nt)
<1>1. nt > 1 /\ nt \in Nat /\ p[1] \notin GTCs[nt] /\ p[2] \notin GTCs[nt]
  BY GeometryAssumption DEF Recompute, PlaceInv, TypeOK
<1>2. RightBut(p, nt - 1)
  BY <1>1 DEF BlockInv
<1>3. CASE \E j \in 1..(nt - 1) : p[1] \in GTCs[j] \/ p[2] \in GTCs[j]
  BY <1>1, <1>3 DEF RightBut, WentHome
<1>4. CASE ~\E j \in 1..(nt - 1) : p[1] \in GTCs[j] \/ p[2] \in GTCs[j]
  <2>1. nt - 1 \in 1..(nt - 1) /\ 1..((nt - 1) - 1) \subseteq 1..(nt - 1)
    BY <1>1
  <2>2. p[1] \notin GTCs[nt - 1] /\ p[2] \notin GTCs[nt - 1]
    BY <1>4, <2>1
  <2>3. Place(p[1], nt - 1) = Place(p[1], nt) /\ Place(p[2], nt - 1) = Place(p[2], nt)
    BY <1>1, <2>2 DEF Place
  <2>4. ~WentHome(p, nt - 1)
    BY <1>4, <2>1 DEF WentHome
  <2> QED BY <1>2, <2>3, <2>4 DEF RightBut, RightU, RightBlock
<1> QED BY <1>3, <1>4

LEMMA BlockStep ==
  ASSUME TypeOK, LoopInv, PlaceInv, BlockInv, [Next]_vars
  PROVE  BlockInv'
<1> USE DEF BlockInv
<1>1. CASE ZeroRegions
  BY <1>1 DEF ZeroRegions
<1>2. CASE SkipMate
  BY <1>2 DEF SkipMate
<1>3. CASE AssembleSelf
  BY <1>3 DEF AssembleSelf
<1>4. CASE UnZeroRegions
  BY <1>4 DEF UnZeroRegions
<1>5. CASE ApplyTransformation
  BY <1>5 DEF ApplyTransformation, Transform, RightBut, WentHome, RightU, RightBlock, Place
<1>6. CASE AssembleU
  <2>1. ASSUME NEW p \in Pairs PROVE U'[p] = RightU(p, nt) \/ WentHome(p, nt)
    <3>1. CASE Recompute(p)
      <4>1. U'[p] = OffDiagonalBlock(BlockAt(n, p), Common(p) \ Zeroed)
        BY <1>6, <3>1 DEF AssembleU
      <4>2. Common(p) \ Zeroed = Common(p)
        BY <1>6 DEF AssembleU, LoopInv
      <4>3. p[1] \in Surfaces /\ p[2] \in Surfaces
        BY DEF Pairs
      <4>4. BlockAt(n, p) = RightBlock(n, p, nt)
        BY <1>6, <4>3 DEF AssembleU, PlaceInv, Working, BlockAt, RightBlock
      <4> QED BY <4>1, <4>2, <4>4 DEF RightU
    <3>2. CASE ~Recompute(p)
      BY <1>6, <3>2, Kept DEF AssembleU, RightBut
    <3> QED BY <3>1, <3>2
  <2> QED BY <1>6, <2>1 DEF AssembleU, RightBut, WentHome, RightU, RightBlock, Place, geometry
<1>7. CASE Factorize
  BY <1>7 DEF Factorize, RightBut, WentHome, RightU, RightBlock, Place, geometry
<1>8. CASE ComputeFlux
  <2>1. nt' - 1 = nt
    BY <1>8 DEF ComputeFlux, TypeOK
  <2> QED BY <1>8, <2>1 DEF ComputeFlux, UnTransform, RightBut, WentHome, RightU, RightBlock, Place
<1>9. CASE NextOmega
  BY <1>9, GeometryAssumption DEF NextOmega
<1>10. CASE UNCHANGED vars
  BY <1>10 DEF vars, RightBut, WentHome, RightU, RightBlock, Place, geometry
<1> QED BY <1>1, <1>2, <1>3, <1>4, <1>5, <1>6, <1>7, <1>8, <1>9, <1>10 DEF Next, Done

LEMMA MatrixStep ==
  ASSUME BlockInv, MatrixCorrect, [Next]_vars
  PROVE  MatrixCorrect'
<1> USE DEF MatrixCorrect
<1>1. CASE Factorize
  BY <1>1 DEF Factorize, BlockInv, RightBut, WentHome, RightU, RightBlock, Place, geometry
<1>2. CASE UNCHANGED vars
  BY <1>2 DEF vars, WentHome, RightU, RightBlock, Place, geometry
<1>3. CASE Next /\ ~Factorize /\ ~UNCHANGED vars
  <2>1. step' # "flux"
    BY <1>3 DEF Next, Done, ZeroRegions, SkipMate, AssembleSelf, UnZeroRegions,
                ApplyTransformation, AssembleU, ComputeFlux, NextOmega
  <2> QED BY <2>1
<1> QED BY <1>1, <1>2, <1>3

\* For every .trans file, the fluxes are computed from the matrix of their own
\* frequency and transformation, but for blocks whose surfaces went home.
THEOREM MatrixIsCorrect == Spec => []MatrixCorrect
<1> DEFINE IInv == TypeOK /\ LoopInv /\ MatrixInv
<1>1. Init => MatrixInv
  BY DEF Init, GeometryInit, MatrixInv, PlaceInv, BlockInv, MatrixCorrect, Working
<1>2. Init => IInv
  BY TypeInit, <1>1
<1>3. IInv /\ [Next]_vars => IInv'
  BY TypeStep, PlaceStep, BlockStep, MatrixStep DEF MatrixInv
<1>4. IInv => MatrixCorrect
  BY DEF MatrixInv
<1> HIDE DEF IInv
<1> QED BY <1>2, <1>3, <1>4, PTL DEF Spec
=============================================================================
