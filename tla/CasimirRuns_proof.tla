-------------------------- MODULE CasimirRuns_proof --------------------------
(***************************************************************************)
(* Proofs about CasimirIntegrand, for any number of surfaces,              *)
(* transformations, quantities and frequencies, and about CasimirRuns:     *)
(* what holds of one run holds of any number of runs that take values from *)
(* the .byXi file, and both the values read and the Matsubara sums are     *)
(* right whatever jobs wrote to it.                                        *)
(***************************************************************************)
EXTENDS CasimirRuns, Integers, TLAPS

\* Inside the work for one transformation.
Working == step \in {"blocks", "factorize", "quantities"}

-----------------------------------------------------------------------------
(* Counters and types.                                                     *)

\* What TypeOK rests on: the slots already filled are those of the earlier
\* transformations, and a sum has converged when its counter says so.
CountInv ==
  /\ ntnq = (nt - 1) * NumQuantities
  /\ Working => nt <= NT
  /\ step # "done" => n < MaxXiPoints
  /\ XiConverged = { i \in Slots : ConvergedIters[i] >= 2 }

\* The slots of the first k transformations are among all the slots.
LEMMA SlotBounds ==
  ASSUME NEW k \in Nat, k >= 1, k <= NT
  PROVE  /\ (k - 1) * NumQuantities + NumQuantities = k * NumQuantities
         /\ k * NumQuantities \in 0..NTNQ
<1>1. NT \in Nat /\ NumQuantities \in Nat
  BY GeometryAssumption, CasimirAssumption
<1>2. PICK d \in Nat : NT = k + d
  BY <1>1 
<1>3. NT * NumQuantities = k * NumQuantities + d * NumQuantities
  BY <1>1, <1>2
<1>4. k * NumQuantities \in Nat /\ d * NumQuantities \in Nat
  BY <1>1
<1>5. (k - 1) * NumQuantities + NumQuantities = k * NumQuantities
  BY <1>1
<1> QED BY <1>1, <1>3, <1>4, <1>5 DEF NTNQ

LEMMA TypeInit == Init => TypeOK /\ CountInv
<1> SUFFICES ASSUME Init PROVE TypeOK /\ CountInv
  OBVIOUS
<1>1. NT \in Nat \ {0} /\ NumQuantities \in Nat \ {0} /\ MaxXiPoints \in Nat \ {0}
  BY GeometryAssumption, CasimirAssumption
<1>2. NTNQ \in Nat
  BY <1>1 DEF NTNQ
<1> QED BY <1>1, <1>2 DEF Init, TypeOK, CountInv, Working

LEMMA TypeStep ==
  ASSUME TypeOK, CountInv, [Next]_vars
  PROVE  TypeOK' /\ CountInv'
<1> USE GeometryAssumption, CasimirAssumption DEF TypeOK, CountInv, Working, blocks, sums
<1>0. NT \in Nat /\ NumQuantities \in Nat /\ NTNQ \in Nat /\ nt \in Nat
  BY DEF NTNQ
<1>1. CASE AssembleT
  <2>1. (1 - 1) * NumQuantities = 0 /\ 0 \in 0..NTNQ
    BY <1>0
  <2> QED BY <1>1, <1>0, <2>1 DEF AssembleT
<1>2. CASE SkipTransformation
  <2>1. ntnq' = (nt' - 1) * NumQuantities /\ ntnq' \in 0..NTNQ
    BY <1>2, <1>0, SlotBounds DEF SkipTransformation
  <2> QED BY <1>2, <1>0, <2>1 DEF SkipTransformation
<1>3. CASE ApplyTransformation
  BY <1>3, <1>0 DEF ApplyTransformation
<1>4. CASE AssembleU
  <2>1. \A p \in Pairs : UBlocks'[p] # None => UBlocks'[p].freq \in 0..n
    BY <1>4, <1>0 DEF AssembleU, BlockAt, Block
  <2> QED BY <1>4, <1>0, <2>1 DEF AssembleU
<1>5. CASE Factorize
  BY <1>5, <1>0 DEF Factorize
<1>6. CASE ComputeQuantities
  <2>1. ntnq' = (nt' - 1) * NumQuantities /\ ntnq' \in 0..NTNQ
    BY <1>6, <1>0, SlotBounds DEF ComputeQuantities
  <2>2. /\ step = "quantities" /\ step' = "transformation" /\ n' = n /\ nt' = nt + 1 /\ nt <= NT
        /\ UNCHANGED <<TBlocks, UBlocks, SurfaceNeverMoved, ConvergedIters, XiConverged>>
    BY <1>6 DEF ComputeQuantities
  <2>3. nt' \in 1..NT + 1
    BY <1>0, <2>2
  <2>4. TypeOK'
    BY <2>1, <2>2, <2>3
  <2> QED BY <2>1, <2>2, <2>4
<1>7. CASE NextXiPoint
  BY <1>7, <1>0 DEF NextXiPoint, EndTransformations
<1>8. CASE Accumulate
  <2>1. PICK small \in SUBSET MayBeSmall :
          /\ ConvergedIters' = [i \in Slots |->
               IF i \in XiConverged THEN ConvergedIters[i]
               ELSE IF i \in small THEN ConvergedIters[i] + 1 ELSE 0]
          /\ XiConverged' = { i \in Slots : ConvergedIters'[i] >= 2 }
    BY <1>8 DEF Accumulate
  <2>2. ConvergedIters' \in [Slots -> 0..2]
    BY <2>1
  <2>3. n' \in 0..MaxXiPoints /\ n <= n' /\ step' \in {"frequency", "done"}
        /\ (step' # "done" => n' < MaxXiPoints)
    <3>1. n \in Nat /\ n < MaxXiPoints /\ MaxXiPoints \in Nat
      BY <1>8 DEF Accumulate, EndTransformations
    <3>2. \/ n' = n /\ step' = "done"
          \/ n' = n + 1 /\ step' = (IF n' < MaxXiPoints THEN "frequency" ELSE "done")
      BY <1>8, Zenon DEF Accumulate
    <3> QED BY <3>1, <3>2
  <2> QED BY <1>8, <1>0, <2>1, <2>2, <2>3 DEF Accumulate
<1>9. CASE UNCHANGED vars
  BY <1>9 DEF vars
<1> QED BY <1>1, <1>2, <1>3, <1>4, <1>5, <1>6, <1>7, <1>8, <1>9 DEF Next, Done

\* The loops, blocks and convergence counters keep their types and bounds,
\* for every geometry, .trans file and number of quantities and frequencies.
THEOREM TypeCorrect == Spec => []TypeOK
<1>1. TypeOK /\ CountInv /\ [Next]_vars => (TypeOK /\ CountInv)'
  BY TypeStep
<1> QED BY TypeInit, <1>1, PTL DEF Spec

-----------------------------------------------------------------------------
(* The matrix.                                                             *)

\* The surfaces are where the transformation at hand puts them, and at home
\* between two transformations.
PlaceInv ==
  /\ GTCs \in TransFiles
  /\ GT = IF Working THEN [ns \in Surfaces |-> Place(ns, nt)] ELSE Home

\* As long as there are transformations to come, the diagonal blocks belong to
\* this frequency.
DiagonalInv ==
  (step = "transformation" /\ nt <= NT) \/ Working => \A ns \in Surfaces : TBlocks[Owner(ns)] = n

\* A surface that has not moved at this frequency is not moved by the
\* transformation at hand.
MovedInv == Working => SurfaceNeverMoved \cap GTCs[nt] = {}

\* After the first transformation, the block of two surfaces that have not
\* moved belongs to this frequency and to their original places.
Original(p) == Block(n, <<>>, <<>>)
ReuseInv ==
  step \in {"transformation", "blocks"} /\ nt \in 2..NT /\ ~FirstConverged =>
    \A p \in Pairs : p[1] \in SurfaceNeverMoved /\ p[2] \in SurfaceNeverMoved
                     => UBlocks[p] = Original(p)

\* Once assembled or reused, every block belongs to the transformation at hand
\* or is left over.
BlockInv ==
  step \in {"factorize", "quantities"} =>
    \A p \in Pairs : UBlocks[p] = RightBlock(n, p, nt) \/ LeftOver(p)

MatrixInv == PlaceInv /\ DiagonalInv /\ MovedInv /\ ReuseInv /\ BlockInv /\ MatrixCorrect

LEMMA MatrixInit == Init => MatrixInv
<1> SUFFICES ASSUME Init PROVE MatrixInv
  OBVIOUS
<1>1. XiConverged = {} /\ step = "frequency" /\ GTCs \in TransFiles /\ GT = Home
  BY DEF Init, GeometryInit
<1> QED BY <1>1 DEF MatrixInv, PlaceInv, DiagonalInv, MovedInv, ReuseInv, BlockInv,
                    MatrixCorrect, Working

LEMMA PlaceStep ==
  ASSUME CountInv, PlaceInv, MovedInv, [Next]_vars
  PROVE  PlaceInv' /\ MovedInv'
<1> USE DEF PlaceInv, MovedInv, Working, geometry
<1>1. CASE AssembleT
  BY <1>1 DEF AssembleT
<1>2. CASE SkipTransformation
  BY <1>2 DEF SkipTransformation
<1>3. CASE ApplyTransformation
  <2>1. GT = Home /\ GTCs' = GTCs /\ nt' = nt /\ step' = "blocks"
    BY <1>3 DEF ApplyTransformation, Transform
  <2>2. GT' = [ns \in Surfaces |-> IF ns \in GTCs[nt] THEN Append(<<>>, nt) ELSE <<>>]
    BY <1>3, <2>1 DEF ApplyTransformation, Transform, Home
  <2>3. Append(<<>>, nt) = <<nt>>
    OBVIOUS
  <2>4. GT' = [ns \in Surfaces |-> Place(ns, nt)']
    BY <2>1, <2>2, <2>3 DEF Place
  <2>5. SurfaceNeverMoved' \cap GTCs'[nt'] = {}
    BY <1>3, <2>1 DEF ApplyTransformation
  <2> QED BY <2>1, <2>4, <2>5
<1>4. CASE AssembleU
  BY <1>4 DEF AssembleU, Place
<1>5. CASE Factorize
  BY <1>5 DEF Factorize, Place
<1>6. CASE ComputeQuantities
  BY <1>6 DEF ComputeQuantities, UnTransform
<1>7. CASE NextXiPoint
  BY <1>7 DEF NextXiPoint, EndTransformations
<1>8. CASE Accumulate
  BY <1>8 DEF Accumulate, EndTransformations
<1>9. CASE UNCHANGED vars
  BY <1>9 DEF vars, Place
<1> QED BY <1>1, <1>2, <1>3, <1>4, <1>5, <1>6, <1>7, <1>8, <1>9 DEF Next, Done

LEMMA DiagonalStep ==
  ASSUME DiagonalInv, [Next]_vars
  PROVE  DiagonalInv'
<1> USE DEF DiagonalInv, Working, blocks
<1>1. CASE AssembleT
  <2>1. \A ns \in Surfaces : Owner(ns) \in Surfaces /\ Mate[Owner(ns)] = 0
    BY GeometryAssumption, CasimirAssumption DEF Owner, Surfaces
  <2> QED BY <1>1, <2>1 DEF AssembleT
<1>2. CASE SkipTransformation
  BY <1>2 DEF SkipTransformation
<1>3. CASE ApplyTransformation
  BY <1>3 DEF ApplyTransformation
<1>4. CASE AssembleU
  BY <1>4 DEF AssembleU
<1>5. CASE Factorize
  BY <1>5 DEF Factorize
<1>6. CASE ComputeQuantities
  BY <1>6 DEF ComputeQuantities
<1>7. CASE NextXiPoint
  BY <1>7 DEF NextXiPoint
<1>8. CASE Accumulate
  BY <1>8 DEF Accumulate
<1>9. CASE UNCHANGED vars
  BY <1>9 DEF vars
<1> QED BY <1>1, <1>2, <1>3, <1>4, <1>5, <1>6, <1>7, <1>8, <1>9 DEF Next, Done

\* A block assembled now belongs to the transformation at hand.
LEMMA Assembled ==
  ASSUME PlaceInv, Working, NEW p \in Pairs
  PROVE  BlockAt(n, p) = RightBlock(n, p, nt)
<1>1. p[1] \in Surfaces /\ p[2] \in Surfaces
  BY DEF Pairs
<1> QED BY <1>1 DEF PlaceInv, BlockAt, RightBlock

\* And so does one reused from an earlier transformation.
LEMMA Reused ==
  ASSUME TypeOK, CountInv, MovedInv, ReuseInv, step = "blocks", NEW p \in Pairs, Reusable(p)
  PROVE  UBlocks[p] = RightBlock(n, p, nt) \/ LeftOver(p)
<1>1. nt > 1 /\ p[1] \in SurfaceNeverMoved /\ p[2] \in SurfaceNeverMoved
  BY DEF Reusable
<1>2. p[1] \notin GTCs[nt] /\ p[2] \notin GTCs[nt]
  BY <1>1 DEF MovedInv, Working
<1>3. CASE FirstConverged
  BY <1>1, <1>3 DEF LeftOver
<1>4. CASE ~FirstConverged
  <2>1. UBlocks[p] = Original(p)
    BY <1>1, <1>4, GeometryAssumption DEF ReuseInv, TypeOK, CountInv, Working
  <2> QED BY <1>2, <2>1 DEF Original, RightBlock, Place
<1> QED BY <1>3, <1>4

LEMMA BlockStep ==
  ASSUME TypeOK, CountInv, PlaceInv, MovedInv, ReuseInv, BlockInv, [Next]_vars
  PROVE  BlockInv'
<1> USE DEF BlockInv, LeftOver, FirstConverged
<1>1. CASE AssembleT
  BY <1>1 DEF AssembleT
<1>2. CASE SkipTransformation
  BY <1>2 DEF SkipTransformation
<1>3. CASE ApplyTransformation
  BY <1>3 DEF ApplyTransformation
<1>4. CASE AssembleU
  <2>1. ASSUME NEW p \in Pairs
        PROVE  UBlocks'[p] = RightBlock(n, p, nt) \/ LeftOver(p)
    <3>1. CASE Reusable(p)
      BY <1>4, <3>1, Reused DEF AssembleU
    <3>2. CASE ~Reusable(p)
      BY <1>4, <3>2, Assembled DEF AssembleU, Working
    <3> QED BY <3>1, <3>2
  <2> QED BY <1>4, <2>1 DEF AssembleU, RightBlock, Place, geometry, sums
<1>5. CASE Factorize
  BY <1>5 DEF Factorize, RightBlock, Place, geometry, sums
<1>6. CASE ComputeQuantities
  BY <1>6 DEF ComputeQuantities
<1>7. CASE NextXiPoint
  BY <1>7 DEF NextXiPoint
<1>8. CASE Accumulate
  BY <1>8 DEF Accumulate
<1>9. CASE UNCHANGED vars
  BY <1>9 DEF vars, RightBlock, Place, geometry
<1> QED BY <1>1, <1>2, <1>3, <1>4, <1>5, <1>6, <1>7, <1>8, <1>9 DEF Next, Done

LEMMA ReuseStep ==
  ASSUME TypeOK, CountInv, PlaceInv, MovedInv, ReuseInv, BlockInv, [Next]_vars
  PROVE  ReuseInv'
<1> USE DEF ReuseInv, FirstConverged, blocks, sums
<1>1. CASE AssembleT
  BY <1>1 DEF AssembleT
<1>2. CASE SkipTransformation
  <2>1. CASE nt = 1
    <3>1. ntnq = 0
      BY <2>1, CasimirAssumption DEF CountInv
    <3>2. \A nq \in 1..NumQuantities : SlotOf(1, nq) = ntnq + nq
      BY <3>1, CasimirAssumption DEF SlotOf
    <3>3. FirstConverged
      BY <1>2, <3>2 DEF SkipTransformation, AllConverged
    <3> QED BY <1>2, <3>3 DEF SkipTransformation
  <2>2. CASE nt > 1
    <3>1. nt' \in 2..NT => nt \in 2..NT
      BY <1>2, <2>2, GeometryAssumption DEF SkipTransformation, TypeOK
    <3> QED BY <1>2, <2>2, <3>1 DEF SkipTransformation, Original
  <2>3. nt >= 1 /\ nt \in Nat
    BY DEF TypeOK
  <2> QED BY <2>1, <2>2, <2>3
<1>3. CASE ApplyTransformation
  BY <1>3 DEF ApplyTransformation, Original
<1>4. CASE AssembleU
  BY <1>4 DEF AssembleU
<1>5. CASE Factorize
  BY <1>5 DEF Factorize
<1>6. CASE ComputeQuantities
  <2>1. ASSUME ~FirstConverged,
               NEW p \in Pairs, p[1] \in SurfaceNeverMoved, p[2] \in SurfaceNeverMoved
        PROVE  UBlocks[p] = Original(p)
    <3>1. p[1] \notin GTCs[nt] /\ p[2] \notin GTCs[nt]
      BY <1>6, <2>1 DEF ComputeQuantities, MovedInv, Working
    <3> QED BY <1>6, <2>1, <3>1 DEF ComputeQuantities, BlockInv, LeftOver, RightBlock, Place, Original
  <2> QED BY <1>6, <2>1 DEF ComputeQuantities, Original
<1>7. CASE NextXiPoint
  BY <1>7 DEF NextXiPoint
<1>8. CASE Accumulate
  BY <1>8 DEF Accumulate
<1>9. CASE UNCHANGED vars
  BY <1>9 DEF vars, Original
<1> QED BY <1>1, <1>2, <1>3, <1>4, <1>5, <1>6, <1>7, <1>8, <1>9 DEF Next, Done

LEMMA MatrixStep ==
  ASSUME DiagonalInv, BlockInv, MatrixCorrect, [Next]_vars
  PROVE  MatrixCorrect'
<1> USE DEF MatrixCorrect, LeftOver, FirstConverged
<1>1. CASE Factorize
  <2>1. \A ns \in Surfaces : M'.T[ns] = n
    BY <1>1 DEF Factorize, DiagonalInv, Working
  <2>2. \A p \in Pairs : M'.U[p] = RightBlock(n, p, nt) \/ LeftOver(p)
    BY <1>1 DEF Factorize, BlockInv
  <2> QED BY <1>1, <2>1, <2>2 DEF Factorize, RightBlock, Place, geometry, sums
<1>2. CASE UNCHANGED vars
  BY <1>2 DEF vars, RightBlock, Place, geometry
<1>3. CASE Next /\ ~Factorize /\ ~UNCHANGED vars
  <2>1. step' # "quantities"
    BY <1>3 DEF Next, Done, AssembleT, SkipTransformation, ApplyTransformation, AssembleU,
                ComputeQuantities, NextXiPoint, Accumulate
  <2> QED BY <2>1
<1> QED BY <1>1, <1>2, <1>3

\* Whatever converges and is skipped, the quantities are computed from the
\* matrix of their own frequency and transformation; the only other blocks it
\* may hold are those left over when the first transformation is skipped.
THEOREM MatrixIsCorrect == Spec => []MatrixCorrect
<1> DEFINE IInv == TypeOK /\ CountInv /\ MatrixInv
<1>1. Init => IInv
  BY TypeInit, MatrixInit
<1>2. IInv /\ [Next]_vars => IInv'
  BY TypeStep, PlaceStep, DiagonalStep, BlockStep, ReuseStep, MatrixStep DEF MatrixInv
<1>3. IInv => MatrixCorrect
  BY DEF MatrixInv
<1> HIDE DEF IInv
<1> QED BY <1>1, <1>2, <1>3, PTL DEF Spec

-----------------------------------------------------------------------------
(* What holds of one run, carried over to several.                         *)

IInv == TypeOK /\ CountInv /\ MatrixInv

LEMMA IInit == Init => IInv
BY TypeInit, MatrixInit DEF IInv

LEMMA IStep == IInv /\ [Next]_vars => IInv'
BY TypeStep, PlaceStep, DiagonalStep, BlockStep, ReuseStep, MatrixStep DEF IInv, MatrixInv

\* Every step within a run is one of CasimirIntegrand, except those that read a
\* dataset or end the run.
LEMMA StepsWithin ==
  RunsNext => [Next]_vars \/ RunAgain \/ CacheRead \/ KilledWhileAppending
<1>1. Compute => Next
  BY DEF Compute, Next
<1>2. GoOn => Next
  BY DEF GoOn, Next
<1>3. AppendDataset \/ Finished => UNCHANGED vars
  BY DEF AppendDataset, Finished, runVars
<1> QED BY <1>1, <1>2, <1>3 DEF RunsNext

\* A new run starts where any run does.
LEMMA Restart == RunAgain /\ IInv => Init'
<1> SUFFICES ASSUME RunAgain, IInv PROVE Init'
  OBVIOUS
<1>1. GTCs' \in TransFiles
  BY DEF RunAgain, StartRun, IInv, MatrixInv, PlaceInv
<1>2. Driver' \in {"XiPoints", "Matsubara"}
  BY RunsAssumption DEF RunAgain, StartRun
<1>3. Home' = Home /\ Slots' = Slots
  BY DEF Home, Slots
<1> QED BY <1>1, <1>2, <1>3 DEF RunAgain, StartRun, Init, GeometryInit

LEMMA ReadKeepsIInv == CacheRead /\ IInv => IInv'
<1> SUFFICES ASSUME CacheRead, IInv PROVE IInv'
  OBVIOUS
<1> USE GeometryAssumption, CasimirAssumption
<1>1. NT \in Nat /\ NumQuantities \in Nat /\ NTNQ \in Nat
  BY DEF NTNQ
<1>2. /\ step = "frequency" /\ step' = "transformation" /\ nt' = NT + 1 /\ ntnq' = NTNQ /\ n' = n
      /\ UNCHANGED <<geometry, blocks, SurfaceNeverMoved, sums>>
  BY DEF CacheRead
<1>3. ntnq' = (nt' - 1) * NumQuantities /\ ntnq' \in 0..NTNQ /\ nt' \in 1..NT + 1
  BY <1>1, <1>2 DEF NTNQ
<1>4. TypeOK'
  BY <1>2, <1>3 DEF IInv, TypeOK, blocks, sums
<1>5. CountInv'
  BY <1>2, <1>3 DEF IInv, CountInv, Working, sums
<1>6. nt' > NT
  BY <1>1, <1>2
<1>7. MatrixInv'
  BY <1>2, <1>6 DEF IInv, MatrixInv, PlaceInv, DiagonalInv, MovedInv, ReuseInv, BlockInv,
                    MatrixCorrect, Working, geometry
<1> QED BY <1>4, <1>5, <1>7 DEF IInv

LEMMA KillKeepsIInv == KilledWhileAppending /\ IInv => IInv'
<1> SUFFICES ASSUME KilledWhileAppending, IInv PROVE IInv'
  OBVIOUS
<1>1. /\ step = "transformation" /\ step' = "done"
      /\ UNCHANGED <<geometry, Driver, n, nt, ntnq, blocks, SurfaceNeverMoved, sums>>
  BY DEF KilledWhileAppending, EndTransformations
<1>2. TypeOK'
  BY <1>1 DEF IInv, TypeOK, blocks, sums
<1>3. CountInv'
  BY <1>1 DEF IInv, CountInv, Working, sums
<1>4. MatrixInv'
  BY <1>1 DEF IInv, MatrixInv, PlaceInv, DiagonalInv, MovedInv, ReuseInv, BlockInv,
              MatrixCorrect, Working, geometry
<1> QED BY <1>2, <1>3, <1>4 DEF IInv

LEMMA RunsStep == IInv /\ [RunsNext]_runVars => IInv'
<1>1. UNCHANGED runVars => UNCHANGED vars
  BY DEF runVars
<1>2. IInv /\ [Next]_vars => IInv'
  BY IStep
<1>3. RunAgain /\ IInv => IInv'
  <2>1. (Init => IInv)'
    BY IInit, PTL
  <2> QED BY <2>1, Restart
<1> QED BY <1>1, <1>2, <1>3, StepsWithin, ReadKeepsIInv, KillKeepsIInv

\* Types and bounds hold through any number of runs, reads and kills.
THEOREM RunsTypeCorrect == RunsSpec => []TypeOK
<1>1. RunsInit => IInv
  BY IInit DEF RunsInit
<1>2. IInv => TypeOK
  BY DEF IInv
<1> QED BY <1>1, <1>2, RunsStep, PTL DEF RunsSpec

\* Frequencies whose integrands are read do not disturb the blocks of those that
\* are computed: the matrix is right as it is without a file.
THEOREM RunsMatrixIsCorrect == RunsSpec => []MatrixCorrect
<1>1. RunsInit => IInv
  BY IInit DEF RunsInit
<1>2. IInv => MatrixCorrect
  BY DEF IInv, MatrixInv
<1> QED BY <1>1, <1>2, RunsStep, PTL DEF RunsSpec

-----------------------------------------------------------------------------
(* The slots of the integrands.                                            *)

\* A slot computed at this frequency.
Good(i) == dEFT[i] = Wanted(i) \/ (dEFT[i] = {} /\ i \in XiConverged)

SlotInv ==
  /\ step = "transformation" \/ Working => read \/ \A i \in 1..ntnq : Good(i)
  /\ read \/ written => step \in {"transformation", "done"}
  /\ (read \/ written) /\ step = "transformation" => nt > NT
  /\ Driver \in {"XiPoints", "Matsubara"}

LEMMA DivMod ==
  ASSUME NEW a \in Nat, NEW b \in Nat \ {0}, NEW r \in 0..b - 1
  PROVE  (a * b + r) \div b = a /\ (a * b + r) % b = r
<1>1. a * b \in Nat /\ r \in Nat /\ a * b + r \in Nat
  OBVIOUS
<1> DEFINE q == (a * b + r) \div b
           m == (a * b + r) % b
<1>2. q \in Int /\ m \in 0..b - 1 /\ a * b + r = b * q + m
  BY <1>1
<1> HIDE DEF q, m
<1>3. b * (q - a) = r - m
  BY <1>2
<1>4. q - a < 1
  <2> SUFFICES ASSUME q - a >= 1 PROVE FALSE
    BY <1>2
  <2>1. b * (q - a) >= b
    BY <1>2
  <2> QED BY <2>1, <1>2, <1>3
<1>5. q - a > -1
  <2> SUFFICES ASSUME q - a <= -1 PROVE FALSE
    BY <1>2
  <2>1. b * (q - a) <= -b
    BY <1>2
  <2> QED BY <2>1, <1>2, <1>3
<1>6. q = a
  BY <1>2, <1>4, <1>5
<1>7. m = r
  BY <1>2, <1>3, <1>6
<1> QED BY <1>6, <1>7 DEF q, m

\* The slots that a transformation fills are those of its integrands.
LEMMA FilledSlot ==
  ASSUME NEW k \in 1..NT, NEW i \in (k - 1) * NumQuantities + 1 .. (k - 1) * NumQuantities + NumQuantities,
         NEW freq
  PROVE  SlotIntegrand(freq, i) = Integrand(freq, k, i - (k - 1) * NumQuantities)
<1>1. NT \in Nat /\ NumQuantities \in Nat \ {0}
  BY GeometryAssumption, CasimirAssumption
<1> DEFINE r == i - 1 - (k - 1) * NumQuantities
<1>2. (k - 1) * NumQuantities \in Nat /\ i \in Nat /\ k - 1 \in Nat
  BY <1>1
<1>3. r \in 0..NumQuantities - 1 /\ i - 1 = (k - 1) * NumQuantities + r
  BY <1>1, <1>2
<1> HIDE DEF r
<1>4. (i - 1) \div NumQuantities = k - 1 /\ (i - 1) % NumQuantities = r
  <2>1. /\ ((k - 1) * NumQuantities + r) \div NumQuantities = k - 1
        /\ ((k - 1) * NumQuantities + r) % NumQuantities = r
    BY <1>1, <1>2, <1>3, DivMod
  <2> QED BY <1>3, <2>1
<1>5. ((i - 1) \div NumQuantities) + 1 = k
  BY <1>1, <1>4
<1>6. ((i - 1) % NumQuantities) + 1 = i - (k - 1) * NumQuantities
  BY <1>1, <1>2, <1>3, <1>4
<1> QED BY <1>5, <1>6 DEF SlotIntegrand

LEMMA SlotInit == RunsInit => SlotInv
<1> SUFFICES ASSUME RunsInit PROVE SlotInv
  OBVIOUS
<1>1. step = "frequency" /\ ~read /\ ~written /\ Driver \in {"XiPoints", "Matsubara"}
  BY DEF RunsInit, Init
<1> QED BY <1>1 DEF SlotInv, Working

\* The quantities of the transformation at hand go to the slots after those
\* filled so far.
LEMMA SlotCompute ==
  ASSUME IInv, SlotInv, Compute
  PROVE  SlotInv'
<1> USE GeometryAssumption, CasimirAssumption
<1>0. NT \in Nat /\ NumQuantities \in Nat \ {0} /\ NTNQ \in Nat /\ nt \in 1..NT + 1
      /\ ntnq \in 0..NTNQ /\ ntnq = (nt - 1) * NumQuantities
  BY DEF NTNQ, IInv, TypeOK, CountInv
<1>00. UNCHANGED <<Driver, read, written>>
  BY DEF Compute, fileVars
<1>1. CASE AssembleT
  <2>1. step = "frequency" /\ step' = "transformation" /\ ntnq' = 0
    BY <1>1 DEF AssembleT
  <2> QED BY <2>1, <1>00 DEF SlotInv
<1>2. ASSUME nt <= NT, nt \in 1..NT,
             \A i \in 1..ntnq : Good(i)
      PROVE  /\ ntnq + NumQuantities <= NTNQ
             /\ \A i \in 1..ntnq + NumQuantities : i \in Slots
             /\ \A i \in ntnq + 1..ntnq + NumQuantities :
                  SlotIntegrand(n, i) = Integrand(n, nt, i - ntnq)
  <2>1. (nt - 1) * NumQuantities + NumQuantities = nt * NumQuantities /\ nt * NumQuantities \in 0..NTNQ
    BY <1>0, <1>2, SlotBounds
  <2>2. \A i \in ntnq + 1..ntnq + NumQuantities : SlotIntegrand(n, i) = Integrand(n, nt, i - ntnq)
    BY <1>0, <1>2, FilledSlot
  <2> QED BY <1>0, <2>1, <2>2 DEF Slots
<1>3. CASE SkipTransformation
  <2>1. /\ step = "transformation" /\ step' = "transformation" /\ nt <= NT /\ ~read /\ ~written
        /\ n' = n /\ ntnq' = ntnq + NumQuantities /\ XiConverged' = XiConverged
        /\ dEFT' = [i \in Slots |-> IF i \in ntnq + 1 .. ntnq + NumQuantities THEN {} ELSE dEFT[i]]
    BY <1>3, <1>0 DEF SkipTransformation, sums, SlotInv
  <2>2. \A nq \in 1..NumQuantities : ntnq + nq \in XiConverged
    BY <1>3 DEF SkipTransformation, AllConverged
  <2>3. \A i \in 1..ntnq : Good(i)
    BY <2>1 DEF SlotInv
  <2>4. ASSUME NEW i \in 1..ntnq + NumQuantities PROVE Good(i)'
    <3>1. i \in Slots
      BY <1>0, <1>2, <2>1, <2>3
    <3>2. CASE i \in 1..ntnq
      BY <1>0, <2>1, <2>3, <3>1, <3>2 DEF Good, Wanted
    <3>3. CASE i \in ntnq + 1..ntnq + NumQuantities
      <4>1. i - ntnq \in 1..NumQuantities /\ ntnq + (i - ntnq) = i
        BY <1>0, <3>3
      <4> QED BY <2>1, <2>2, <3>1, <3>3, <4>1 DEF Good
    <3> QED BY <1>0, <3>2, <3>3
  <2> QED BY <1>00, <2>1, <2>4 DEF SlotInv, Working
<1>4. CASE ComputeQuantities
  <2>1. /\ step = "quantities" /\ step' = "transformation" /\ ~read /\ ~written
        /\ n' = n /\ ntnq' = ntnq + NumQuantities /\ XiConverged' = XiConverged
        /\ dEFT' = [i \in Slots |-> IF i \in ntnq + 1 .. ntnq + NumQuantities
                                    THEN {Integrand(n, nt, i - ntnq)} ELSE dEFT[i]]
    BY <1>4 DEF ComputeQuantities, sums, SlotInv
  <2>2. nt <= NT
    BY <2>1 DEF IInv, CountInv, Working
  <2>3. \A i \in 1..ntnq : Good(i)
    BY <2>1 DEF SlotInv, Working
  <2>4. ASSUME NEW i \in 1..ntnq + NumQuantities PROVE Good(i)'
    <3>1. i \in Slots
      BY <1>0, <1>2, <2>2, <2>3
    <3>2. CASE i \in 1..ntnq
      BY <1>0, <2>1, <2>3, <3>1, <3>2 DEF Good, Wanted
    <3>3. CASE i \in ntnq + 1..ntnq + NumQuantities
      <4>1. SlotIntegrand(n, i) = Integrand(n, nt, i - ntnq)
        BY <1>0, <1>2, <2>2, <2>3, <3>3
      <4> QED BY <2>1, <3>1, <3>3, <4>1 DEF Good, Wanted
    <3> QED BY <1>0, <3>2, <3>3
  <2> QED BY <1>00, <2>1, <2>4 DEF SlotInv, Working
<1>5. CASE ApplyTransformation \/ AssembleU \/ Factorize
  <2>1. /\ step = "transformation" \/ Working
        /\ step' \in {"blocks", "factorize", "quantities"}
        /\ step = "transformation" => nt <= NT
        /\ UNCHANGED <<n, nt, ntnq, dEFT, XiConverged>>
    BY <1>5 DEF ApplyTransformation, AssembleU, Factorize, Working, sums
  <2>2. ~read /\ ~written
    BY <1>0, <2>1 DEF SlotInv, Working
  <2> QED BY <1>00, <2>1, <2>2 DEF SlotInv, Working, Good, Wanted
<1> QED BY <1>1, <1>3, <1>4, <1>5 DEF Compute

\* The other steps leave the slots alone, read them from the file or end the frequency.
LEMMA SlotStep == IInv /\ SlotInv /\ [RunsNext]_runVars => SlotInv'
<1> SUFFICES ASSUME IInv, SlotInv, [RunsNext]_runVars PROVE SlotInv'
  OBVIOUS
<1> USE GeometryAssumption, CasimirAssumption
<1>1. CASE RunAgain
  <2>1. step' = "frequency" /\ ~read' /\ ~written' /\ Driver' \in {"XiPoints", "Matsubara"}
    BY <1>1, RunsAssumption DEF RunAgain, StartRun
  <2> QED BY <2>1 DEF SlotInv, Working
<1>2. CASE CacheRead
  <2>1. step' = "transformation" /\ nt' = NT + 1 /\ read' /\ UNCHANGED Driver
    BY <1>2 DEF CacheRead
  <2> QED BY <2>1 DEF SlotInv, Working
<1>3. CASE Compute
  BY <1>3, SlotCompute
<1>4. CASE AppendDataset
  <2>1. /\ step = "transformation" /\ nt > NT
        /\ UNCHANGED <<Driver, step, n, nt, ntnq, dEFT, XiConverged, read>>
    BY <1>4 DEF AppendDataset, EndTransformations, vars
  <2> QED BY <2>1 DEF SlotInv, Working, Good, Wanted
<1>5. CASE KilledWhileAppending
  <2>1. step' = "done" /\ UNCHANGED Driver
    BY <1>5 DEF KilledWhileAppending
  <2> QED BY <2>1 DEF SlotInv, Working
<1>6. CASE GoOn
  <2>1. ~read' /\ ~written' /\ UNCHANGED Driver
    BY <1>6 DEF GoOn
  <2>2. step' \in {"frequency", "done"}
    BY <1>6 DEF GoOn, NextXiPoint, Accumulate
  <2> QED BY <2>1, <2>2 DEF SlotInv, Working
<1>7. CASE UNCHANGED runVars
  BY <1>7 DEF SlotInv, Working, Good, Wanted, runVars, vars, fileVars
<1>8. Finished => UNCHANGED runVars
  BY DEF Finished
<1> QED BY <1>1, <1>2, <1>3, <1>4, <1>5, <1>6, <1>7, <1>8 DEF RunsNext

-----------------------------------------------------------------------------
(* The sums.                                                               *)

\* A change is counted as small from the second term on.
EarlyInv == \A i \in Slots \ XiConverged : ConvergedIters[i] = 0 \/ ConvergedIters[i] < n

SumInv ==
  Driver = "Matsubara" =>
    /\ EarlyInv
    /\ \A i \in Slots \ gaps :
         IF i \in XiConverged THEN Terms(i, 3) \subseteq EFT[i] /\ EFT[i] \subseteq Terms(i, n + 1)
                              ELSE EFT[i] = Terms(i, n)

LEMMA NoTerms == ASSUME NEW i PROVE Terms(i, 0) = {}
<1>1. 0..0 - 1 = {}
  OBVIOUS
<1> QED BY <1>1 DEF Terms

LEMMA OneMoreTerm ==
  ASSUME NEW i, NEW m \in Nat
  PROVE  Terms(i, m + 1) = Terms(i, m) \cup {SlotIntegrand(m, i)}
<1>1. 0..(m + 1) - 1 = (0..m - 1) \cup {m}
  OBVIOUS
<1> QED BY <1>1 DEF Terms

LEMMA MoreTerms ==
  ASSUME NEW i, NEW m \in Nat, NEW k \in Nat, m <= k
  PROVE  Terms(i, m) \subseteq Terms(i, k)
<1>1. 0..m - 1 \subseteq 0..k - 1
  OBVIOUS
<1> QED BY <1>1 DEF Terms

LEMMA SumInit == RunsInit => SumInv
<1> SUFFICES ASSUME RunsInit PROVE SumInv
  OBVIOUS
<1>1. /\ n = 0 /\ gaps = {} /\ XiConverged = {}
      /\ EFT = [i \in Slots |-> {}] /\ ConvergedIters = [i \in Slots |-> 0]
  BY DEF RunsInit, Init
<1> QED BY <1>1, NoTerms DEF SumInv, EarlyInv

\* At the end of the transformations all slots are filled.
LEMMA ComputedAtEnd ==
  ASSUME IInv, SlotInv, EndTransformations, ~read, NEW i \in Slots
  PROVE  Good(i)
<1>1. NT \in Nat /\ NumQuantities \in Nat \ {0} /\ nt \in 1..NT + 1 /\ ntnq = (nt - 1) * NumQuantities
  BY GeometryAssumption, CasimirAssumption DEF IInv, TypeOK, CountInv
<1>2. nt - 1 = NT
  BY <1>1 DEF EndTransformations
<1>3. ntnq = NTNQ
  BY <1>1, <1>2 DEF NTNQ
<1> QED BY <1>3 DEF SlotInv, Slots, EndTransformations

\* A slot that got no wrong value holds the term of this frequency when it is
\* added, or zero if its sum has converged.
LEMMA AddedTerm ==
  ASSUME IInv, SlotInv, GoOn, NEW i \in Slots, i \notin gaps'
  PROVE  Good(i) /\ i \notin gaps
<1>1. step = "transformation" /\ nt > NT
  BY DEF GoOn, NextXiPoint, Accumulate, EndTransformations
<1>2. i \notin gaps /\ (read => Good(i))
  BY DEF GoOn, Good
<1>3. ~read => Good(i)
  BY <1>1, ComputedAtEnd DEF EndTransformations
<1> QED BY <1>2, <1>3

LEMMA SumAccumulate ==
  ASSUME IInv, SlotInv, SumInv, GoOn, Driver = "Matsubara"
  PROVE  SumInv'
<1> USE GeometryAssumption, CasimirAssumption
<1>1. /\ Accumulate /\ UNCHANGED Driver
  BY DEF GoOn, NextXiPoint
<1>2. PICK small \in SUBSET MayBeSmall :
        /\ ConvergedIters' = [i \in Slots |->
             IF i \in XiConverged THEN ConvergedIters[i]
             ELSE IF i \in small THEN ConvergedIters[i] + 1 ELSE 0]
        /\ XiConverged' = { i \in Slots : ConvergedIters'[i] >= 2 }
  BY <1>1 DEF Accumulate
<1>3. n \in Nat /\ MaxXiPoints \in Nat /\ ConvergedIters \in [Slots -> 0..2]
  BY DEF IInv, TypeOK
<1>4. n' \in {n, n + 1} /\ (XiConverged' # Slots => n' = n + 1)
      /\ EFT' = [i \in Slots |-> EFT[i] \cup dEFT[i]]
  BY <1>1 DEF Accumulate
<1>5. XiConverged = { i \in Slots : ConvergedIters[i] >= 2 }
  BY DEF IInv, CountInv
<1>6. XiConverged' \subseteq Slots
  BY <1>2
<1>7. ASSUME NEW i \in Slots, i \notin XiConverged'
      PROVE  n' = n + 1 /\ i \notin XiConverged
  <2>1. n' = n + 1
    BY <1>4, <1>7
  <2>2. i \in XiConverged => ConvergedIters'[i] = ConvergedIters[i] /\ ConvergedIters[i] >= 2
    BY <1>2, <1>5
  <2> QED BY <1>2, <1>7, <2>1, <2>2
<1>8. ASSUME NEW i \in small, i \notin XiConverged
      PROVE  n >= 1 /\ i \in Slots /\ ConvergedIters'[i] = ConvergedIters[i] + 1
             /\ (ConvergedIters[i] = 0 \/ ConvergedIters[i] < n)
  <2>1. n # 0 /\ i \in Slots
    BY <1>8 DEF MayBeSmall
  <2> QED BY <1>2, <1>3, <1>8, <2>1 DEF SumInv, EarlyInv
<1>9. EarlyInv'
  <2> SUFFICES ASSUME NEW i \in Slots, i \notin XiConverged'
               PROVE  ConvergedIters'[i] = 0 \/ ConvergedIters'[i] < n'
    BY DEF EarlyInv, Slots
  <2>1. n' = n + 1 /\ i \notin XiConverged
    BY <1>7
  <2>2. CASE i \in small
    BY <1>3, <1>8, <2>1, <2>2
  <2>3. CASE i \notin small
    BY <1>2, <2>1, <2>3
  <2> QED BY <2>2, <2>3
<1>10. ASSUME NEW i \in Slots, i \notin gaps'
       PROVE  IF i \in XiConverged'
                THEN Terms(i, 3) \subseteq EFT'[i] /\ EFT'[i] \subseteq Terms(i, n' + 1)
                ELSE EFT'[i] = Terms(i, n')
  <2>1. Good(i) /\ i \notin gaps
    BY <1>10, AddedTerm
  <2>2. EFT'[i] = EFT[i] \cup dEFT[i]
    BY <1>4
  <2>3. Terms(i, n + 1) = Terms(i, n) \cup Wanted(i)
    BY <1>3, OneMoreTerm DEF Wanted
  <2>4. Terms(i, n + 1) \subseteq Terms(i, n' + 1)
    BY <1>3, <1>4, MoreTerms
  <2>5. CASE i \in XiConverged
    <3>1. Terms(i, 3) \subseteq EFT[i] /\ EFT[i] \subseteq Terms(i, n + 1)
      BY <2>1, <2>5 DEF SumInv
    <3>2. i \in XiConverged'
      BY <1>7, <2>5
    <3> QED BY <2>1, <2>2, <2>3, <2>4, <3>1, <3>2 DEF Good
  <2>6. CASE i \notin XiConverged
    <3>1. EFT'[i] = Terms(i, n + 1)
      BY <2>1, <2>2, <2>3, <2>6 DEF SumInv, Good
    <3>2. CASE i \notin XiConverged'
      BY <1>4, <3>1, <3>2
    <3>3. CASE i \in XiConverged'
      <4>1. ConvergedIters'[i] >= 2 /\ ConvergedIters[i] < 2
        BY <1>2, <1>3, <1>5, <2>6, <3>3
      <4>2. i \in small
        BY <1>2, <2>6, <4>1
      <4>3. n >= 2
        BY <1>3, <1>8, <2>6, <4>1, <4>2
      <4>4. Terms(i, 3) \subseteq Terms(i, n + 1)
        BY <1>3, <4>3, MoreTerms
      <4> QED BY <2>4, <3>1, <3>3, <4>4
    <3> QED BY <3>2, <3>3
  <2> QED BY <2>5, <2>6
<1> QED BY <1>9, <1>10 DEF SumInv, Slots, Terms, SlotIntegrand

\* All other steps leave the sums alone or start them anew.
LEMMA SumStep == IInv /\ SlotInv /\ SumInv /\ [RunsNext]_runVars => SumInv'
<1> SUFFICES ASSUME IInv, SlotInv, SumInv, [RunsNext]_runVars PROVE SumInv'
  OBVIOUS
<1>1. CASE RunAgain
  <2>1. /\ n' = 0 /\ gaps' = {} /\ XiConverged' = {}
        /\ EFT' = [i \in Slots |-> {}] /\ ConvergedIters' = [i \in Slots |-> 0]
    BY <1>1 DEF RunAgain, StartRun
  <2> QED BY <2>1, NoTerms DEF SumInv, EarlyInv, Slots, Terms, SlotIntegrand
<1>2. CASE GoOn
  <2>1. CASE Driver = "Matsubara"
    BY <1>2, <2>1, SumAccumulate
  <2>2. CASE Driver # "Matsubara"
    BY <1>2, <2>2 DEF GoOn, SumInv
  <2> QED BY <2>1, <2>2
<1>3. CASE UNCHANGED <<Driver, n, gaps, sums>>
  BY <1>3 DEF SumInv, EarlyInv, Terms, SlotIntegrand, sums
<1>4. CacheRead \/ KilledWhileAppending => UNCHANGED <<Driver, n, gaps, sums>>
  BY DEF CacheRead, KilledWhileAppending
<1>5. Compute => UNCHANGED <<Driver, n, gaps, sums>>
  BY DEF Compute, fileVars, AssembleT, SkipTransformation, ApplyTransformation, AssembleU,
         Factorize, ComputeQuantities
<1>6. AppendDataset \/ Finished \/ UNCHANGED runVars => UNCHANGED <<Driver, n, gaps, sums>>
  BY DEF AppendDataset, Finished, runVars, vars, fileVars, sums
<1> QED BY <1>1, <1>2, <1>3, <1>4, <1>5, <1>6 DEF RunsNext

\* The Matsubara sums have no holes and no terms that are not theirs, whatever
\* jobs wrote to the file, in any number of runs killed anywhere.
THEOREM RunsSumsHaveNoHoles == RunsSpec => []RunSumGapFree
<1> DEFINE I == IInv /\ SlotInv /\ SumInv
<1>1. RunsInit => I
  BY IInit, SlotInit, SumInit DEF RunsInit
<1>2. I /\ [RunsNext]_runVars => I'
  BY RunsStep, SlotStep, SumStep
<1>3. I => RunSumGapFree
  BY DEF SumInv, RunSumGapFree
<1> QED BY <1>1, <1>2, <1>3, PTL DEF RunsSpec
-----------------------------------------------------------------------------
(* The lines of the .byXi file.                                            *)

\* Who has written to the file, what a job asks for, and what is kept of earlier
\* sums.
Writers == earlier \cup {job}

JobInv ==
  /\ job \in Jobs /\ earlier \subseteq Jobs /\ Driver = job.Driver
  /\ XiConverged # {} => Driver = "Matsubara"
  /\ \E S : byXi \in Seq(S)

\* The tag stands at a later transformation of a job that has another one first.
Moved(tag) == \E jb \in Writers : \E k \in Transformations : jb.Tag[k] = tag /\ jb.Tag[1] # tag

\* A line that can match at all.
Usable(i) == i \in DOMAIN byXi /\ Len(byXi[i].values) = NumQuantities

\* The integrand recorded for a quantity is that of the job, or zero, or taken from
\* lines of other transformations.
IsLine(i, jb, m, k) ==
  /\ byXi[i].tag = jb.Tag[k] /\ byXi[i].xi = jb.Xi[m]
  /\ \A nq \in 1..NumQuantities :
       \/ byXi[i].values[nq] = {[xi |-> jb.Xi[m], nt |-> k, quantity |-> jb.Quantity[nq]]}
       \/ byXi[i].values[nq] = {} /\ ZeroOfEarlierSum
       \/ Moved(jb.Tag[1])

\* The dataset that begins with a line: its lines follow one another up to the first
\* that cannot match.
DatasetAt(s, jb, m) ==
  \A k \in Transformations : (\A j \in s..s + k - 1 : Usable(j)) => IsLine(s + k - 1, jb, m, k)

\* No line that is appended can belong to it.
Closed(s) == s + NT - 1 <= Len(byXi) \/ \E j \in s..Len(byXi) : ~Usable(j)

\* A usable line belongs to a dataset, which is open only if the run was killed
\* while appending it.
InDataset(i) ==
  \E s \in 1..i : \E jb \in Writers : \E m \in 0..MaxXiPoints - 1 :
    /\ i < s + NT /\ \A j \in s..i : Usable(j)
    /\ DatasetAt(s, jb, m)
    /\ step = "done" \/ Closed(s)

LinesInv == ~OtherQuantities /\ ~WasCut => \A i \in DOMAIN byXi : Usable(i) => InDataset(i)

\* What was read is as right as the lines it was read from.
RightOrZero(i) == dEFT[i] = Wanted(i) \/ (dEFT[i] = {} /\ ZeroOfEarlierSum) \/ FirstTagMoved

ReadInv ==
  read /\ step = "transformation" /\ ~OtherQuantities /\ ~WasCut => \A i \in Slots : RightOrZero(i)

LEMMA JobInit == RunsInit => JobInv
<1> SUFFICES ASSUME RunsInit PROVE JobInv
  OBVIOUS
<1>1. byXi \in Seq({Preamble})
  BY DEF RunsInit
<1> QED BY <1>1 DEF JobInv, RunsInit, Init

\* The file only gets longer, and nobody leaves the directory.
Extends ==
  /\ Len(byXi) \in Nat /\ DOMAIN byXi = 1..Len(byXi)
  /\ Len(byXi') \in Nat /\ DOMAIN byXi' = 1..Len(byXi')
  /\ Len(byXi) <= Len(byXi') /\ \A i \in 1..Len(byXi) : byXi'[i] = byXi[i]
  /\ Writers \subseteq Writers'
  /\ OtherQuantities => OtherQuantities'

LEMMA AppendFacts ==
  ASSUME NEW S, NEW s \in Seq(S), NEW x
  PROVE  /\ Append(s, x) \in Seq(S \cup {x}) /\ Len(Append(s, x)) = Len(s) + 1
         /\ \A i \in 1..Len(s) : Append(s, x)[i] = s[i]
         /\ Append(s, x)[Len(s) + 1] = x
<1>1. s \in Seq(S \cup {x})
  OBVIOUS
<1> QED BY <1>1

LEMMA ConcatFacts ==
  ASSUME NEW S, NEW T, NEW s \in Seq(S), NEW t \in Seq(T)
  PROVE  /\ s \o t \in Seq(S \cup T) /\ Len(s \o t) = Len(s) + Len(t)
         /\ \A i \in 1..Len(s) : (s \o t)[i] = s[i]
         /\ \A i \in 1..Len(t) : (s \o t)[Len(s) + i] = t[i]
<1>1. s \in Seq(S \cup T) /\ t \in Seq(S \cup T)
  OBVIOUS
<1> QED BY <1>1

Lines == { Line(k) : k \in Transformations }

\* The dataset of this frequency is appended, up to a line that cannot match.
AppendsPart(d) ==
  /\ Len(byXi') \in Len(byXi) .. Len(byXi) + NT
  /\ ~WasCut' =>
       \A i \in Len(byXi) + 1 .. Len(byXi') :
         Usable(i)' => \A j \in Len(byXi) + 1 .. i : byXi'[j] = Line(j - Len(byXi))
  /\ d => Len(byXi') = Len(byXi) + NT

LEMMA StartFacts ==
  ASSUME JobInv, RunAgain
  PROVE  /\ Extends /\ JobInv' /\ Len(byXi') = Len(byXi) + 1
         /\ \A i \in Len(byXi) + 1 .. Len(byXi') : ~Usable(i)'
<1>1. PICK S : byXi \in Seq(S)
  BY DEF JobInv
<1>2. byXi' = Append(byXi, Preamble)
  BY DEF RunAgain, StartRun
<1>3. /\ byXi' \in Seq(S \cup {Preamble}) /\ Len(byXi') = Len(byXi) + 1
      /\ \A i \in 1..Len(byXi) : byXi'[i] = byXi[i]
      /\ byXi'[Len(byXi) + 1] = Preamble
  BY <1>1, <1>2, AppendFacts
<1>4. earlier' = earlier \cup {job} /\ job' \in Jobs /\ Driver' = job'.Driver /\ XiConverged' = {}
  BY DEF RunAgain, StartRun
<1>5. OtherQuantities => OtherQuantities'
  BY <1>4 DEF OtherQuantities
<1>6. Extends
  BY <1>1, <1>3, <1>4, <1>5 DEF Extends, Writers
<1>7. JobInv'
  <2>1. \E R : byXi' \in Seq(R)
    BY <1>3
  <2> QED BY <1>4, <2>1 DEF JobInv
<1>8. ASSUME NEW i \in Len(byXi) + 1 .. Len(byXi') PROVE ~Usable(i)'
  <2>1. i = Len(byXi) + 1
    BY <1>1, <1>3
  <2>2. byXi'[i].values = <<>>
    BY <1>3, <2>1 DEF Preamble
  <2>3. Len(byXi'[i].values) = 0 /\ NumQuantities # 0
    BY <2>2, CasimirAssumption
  <2> QED BY <2>3 DEF Usable
<1> QED BY <1>3, <1>6, <1>7, <1>8

LEMMA AppendStep ==
  ASSUME JobInv, AppendDataset
  PROVE  Extends /\ JobInv' /\ AppendsPart(TRUE)
<1>0. NT \in Nat /\ Transformations = 1..NT
  BY GeometryAssumption DEF Transformations
<1>1. PICK S : byXi \in Seq(S)
  BY DEF JobInv
<1>2. Dataset \in Seq(Lines) /\ Len(Dataset) = NT
  BY <1>0 DEF Dataset, Lines
<1>3. byXi' = byXi \o Dataset /\ UNCHANGED <<earlier, job, Driver, XiConverged>>
  BY DEF AppendDataset, vars
<1>4. /\ byXi' \in Seq(S \cup Lines) /\ Len(byXi') = Len(byXi) + NT
      /\ \A i \in 1..Len(byXi) : byXi'[i] = byXi[i]
      /\ \A k \in 1..NT : byXi'[Len(byXi) + k] = Dataset[k]
  <2>1. /\ byXi \o Dataset \in Seq(S \cup Lines) /\ Len(byXi \o Dataset) = Len(byXi) + Len(Dataset)
        /\ \A i \in 1..Len(byXi) : (byXi \o Dataset)[i] = byXi[i]
        /\ \A k \in 1..Len(Dataset) : (byXi \o Dataset)[Len(byXi) + k] = Dataset[k]
    <3>1. byXi \in Seq(S) /\ Dataset \in Seq(Lines)
      BY <1>1, <1>2
    <3> QED BY <3>1, ConcatFacts
  <2> QED BY <1>2, <1>3, <2>1, Zenon
<1>5. Extends
  BY <1>0, <1>1, <1>3, <1>4 DEF Extends, Writers, OtherQuantities
<1>6. JobInv'
  <2>1. \E R : byXi' \in Seq(R)
    BY <1>4
  <2> QED BY <1>3, <2>1 DEF JobInv
<1>7. ASSUME NEW i \in Len(byXi) + 1 .. Len(byXi'), NEW j \in Len(byXi) + 1 .. i
      PROVE  byXi'[j] = Line(j - Len(byXi))
  <2>1. j - Len(byXi) \in 1..NT /\ j = Len(byXi) + (j - Len(byXi))
    BY <1>0, <1>1, <1>4
  <2>2. byXi'[j] = Dataset[j - Len(byXi)]
    BY <1>4, <2>1
  <2> QED BY <1>0, <2>1, <2>2 DEF Dataset
<1>8. Len(byXi') \in Len(byXi) .. Len(byXi) + NT /\ Len(byXi') = Len(byXi) + NT
  <2>1. Len(byXi) \in Nat
    BY <1>1
  <2> QED BY <1>0, <1>4, <2>1
<1>9. \A i \in Len(byXi) + 1 .. Len(byXi') :
        Usable(i)' => \A j \in Len(byXi) + 1 .. i : byXi'[j] = Line(j - Len(byXi))
  BY <1>7, Zenon
<1>10. AppendsPart(TRUE)
  BY <1>8, <1>9 DEF AppendsPart
<1> QED BY <1>5, <1>6, <1>10

\* A line that was cut is too short or shows where.
LEMMA CutFacts ==
  ASSUME NEW k \in Transformations, NEW l \in CutLines(k)
  PROVE  \/ Len(l.values) # NumQuantities
         \/ \E nq \in DOMAIN l.values : l.values[nq] = {NoIntegrand}
<1>1. NumQuantities \in Nat \ {0}
  BY CasimirAssumption
<1> DEFINE v == [nq \in 1..NumQuantities |-> Recorded(dEFT[SlotOf(k, nq)])]
           V == { Recorded(dEFT[SlotOf(k, nq)]) : nq \in 1..NumQuantities }
<1>2. v \in Seq(V) /\ Len(v) = NumQuantities
  BY <1>1
<1>3. Line(k).values = v
  BY DEF Line
<1> HIDE DEF v, V
<1>4. PICK nq \in 0..NumQuantities - 1 :
        l.values = SubSeq(v, 1, nq) \/ l.values = Append(SubSeq(v, 1, nq), {NoIntegrand})
  BY <1>3 DEF CutLines, Line
<1>5. SubSeq(v, 1, nq) \in Seq(V) /\ Len(SubSeq(v, 1, nq)) = nq
  BY <1>1, <1>2, <1>4
<1>6. CASE l.values = SubSeq(v, 1, nq)
  BY <1>1, <1>4, <1>5, <1>6
<1>7. CASE l.values = Append(SubSeq(v, 1, nq), {NoIntegrand})
  <2>1. Append(SubSeq(v, 1, nq), {NoIntegrand}) \in Seq(V \cup {{NoIntegrand}})
        /\ Len(Append(SubSeq(v, 1, nq), {NoIntegrand})) = nq + 1
        /\ Append(SubSeq(v, 1, nq), {NoIntegrand})[nq + 1] = {NoIntegrand}
    BY <1>5, AppendFacts
  <2>2. nq + 1 \in DOMAIN l.values
    BY <1>7, <2>1
  <2> QED BY <1>7, <2>1, <2>2
<1> QED BY <1>4, <1>6, <1>7

LEMMA KillStep ==
  ASSUME JobInv, KilledWhileAppending
  PROVE  Extends /\ JobInv' /\ AppendsPart(FALSE)
<1>0. NT \in Nat /\ Transformations = 1..NT
  BY GeometryAssumption DEF Transformations
<1>1. PICK S : byXi \in Seq(S)
  BY DEF JobInv
<1>2. PICK k \in Transformations : \E last \in {<<>>} \cup { <<l>> : l \in CutLines(k) } :
        byXi' = byXi \o SubSeq(Dataset, 1, k - 1) \o last
  BY DEF KilledWhileAppending
<1>22. PICK last \in {<<>>} \cup { <<l>> : l \in CutLines(k) } :
        byXi' = byXi \o SubSeq(Dataset, 1, k - 1) \o last
  BY <1>2
<1>3. UNCHANGED <<earlier, job, Driver, XiConverged>>
  BY DEF KilledWhileAppending, sums
<1> DEFINE whole == SubSeq(Dataset, 1, k - 1)
<1>4. Dataset \in Seq(Lines) /\ Len(Dataset) = NT
  BY <1>0 DEF Dataset, Lines
<1>5. whole \in Seq(Lines) /\ Len(whole) = k - 1 /\ \A j \in 1..k - 1 : whole[j] = Dataset[j]
  BY <1>0, <1>4
<1>6. last \in Seq(CutLines(k)) /\ Len(last) \in {0, 1}
      /\ (Len(last) = 1 => last[1] \in CutLines(k))
  <2>1. CASE last = <<>>
    BY <2>1
  <2>2. CASE last # <<>>
    <3>1. PICK l \in CutLines(k) : last = <<l>>
      BY <1>22, <2>2
    <3> QED BY <3>1
  <2> QED BY <2>1, <2>2
<1> HIDE DEF whole
<1>7. /\ byXi \o whole \in Seq(S \cup Lines) /\ Len(byXi \o whole) = Len(byXi) + (k - 1)
      /\ \A i \in 1..Len(byXi) : (byXi \o whole)[i] = byXi[i]
      /\ \A j \in 1..k - 1 : (byXi \o whole)[Len(byXi) + j] = whole[j]
  <2>1. /\ byXi \o whole \in Seq(S \cup Lines) /\ Len(byXi \o whole) = Len(byXi) + Len(whole)
        /\ \A i \in 1..Len(byXi) : (byXi \o whole)[i] = byXi[i]
        /\ \A j \in 1..Len(whole) : (byXi \o whole)[Len(byXi) + j] = whole[j]
    <3>1. byXi \in Seq(S) /\ whole \in Seq(Lines)
      BY <1>1, <1>5
    <3> QED BY <3>1, ConcatFacts
  <2> QED BY <1>5, <2>1, Zenon
<1>8. /\ byXi' \in Seq((S \cup Lines) \cup CutLines(k))
      /\ Len(byXi') = Len(byXi \o whole) + Len(last)
      /\ \A i \in 1..Len(byXi \o whole) : byXi'[i] = (byXi \o whole)[i]
      /\ \A i \in 1..Len(last) : byXi'[Len(byXi \o whole) + i] = last[i]
  <2>1. byXi' = (byXi \o whole) \o last
    <3>1. byXi \o SubSeq(Dataset, 1, k - 1) \o last = (byXi \o SubSeq(Dataset, 1, k - 1)) \o last
      OBVIOUS
    <3> QED BY <1>22, <3>1, Zenon DEF whole
  <2>2. /\ (byXi \o whole) \o last \in Seq((S \cup Lines) \cup CutLines(k))
        /\ Len((byXi \o whole) \o last) = Len(byXi \o whole) + Len(last)
        /\ \A i \in 1..Len(byXi \o whole) : ((byXi \o whole) \o last)[i] = (byXi \o whole)[i]
        /\ \A i \in 1..Len(last) : ((byXi \o whole) \o last)[Len(byXi \o whole) + i] = last[i]
    BY <1>6, <1>7, ConcatFacts, SMT
  <2> QED BY <2>1, <2>2, Zenon
<1> DEFINE most == Len(byXi \o whole)
<1>9. /\ Len(byXi) \in Nat /\ k \in 1..NT /\ most \in Nat /\ most = Len(byXi) + (k - 1)
      /\ Len(byXi') \in Nat /\ Len(byXi') = most + Len(last)
  BY <1>0, <1>1, <1>7, <1>8
<1>10. Extends
  <2>1. ASSUME NEW i \in 1..Len(byXi) PROVE byXi'[i] = byXi[i]
    <3>1. i \in 1..most
      BY <1>9
    <3> QED BY <1>7, <1>8, <3>1
  <2> QED BY <1>1, <1>3, <1>6, <1>8, <1>9, <2>1 DEF Extends, Writers, OtherQuantities
<1>11. JobInv'
  <2>1. \E R : byXi' \in Seq(R)
    BY <1>8
  <2> QED BY <1>3, <2>1 DEF JobInv
<1>12. ASSUME NEW i \in Len(byXi) + 1 .. Len(byXi'), Usable(i)', ~WasCut',
              NEW j \in Len(byXi) + 1 .. i
       PROVE  byXi'[j] = Line(j - Len(byXi))
  <2>1. CASE i <= Len(byXi) + (k - 1)
    <3>1. j - Len(byXi) \in 1..k - 1 /\ j = Len(byXi) + (j - Len(byXi))
          /\ j \in 1..most
      <4> HIDE DEF most
      <4> QED BY <1>9, <2>1
    <3>2. byXi'[j] = Dataset[j - Len(byXi)]
      BY <1>5, <1>7, <1>8, <3>1
    <3> QED BY <1>0, <1>9, <3>1, <3>2 DEF Dataset
  <2>2. CASE i > Len(byXi) + (k - 1)
    <3>1. Len(last) = 1 /\ i = most + 1
      <4>1. i \in Nat /\ i <= most + Len(last)
        BY <1>9
      <4>2. i > most /\ most \in Nat
        BY <1>9, <2>2
      <4>3. Len(last) = 0 \/ Len(last) = 1
        BY <1>6
      <4>4. \A e, l \in Nat : i \in Nat /\ i <= e + l /\ i > e /\ (l = 0 \/ l = 1) => l = 1 /\ i = e + 1
        OBVIOUS
      <4> HIDE DEF most
      <4> QED BY <4>1, <4>2, <4>3, <4>4
    <3>2. byXi'[i] \in CutLines(k)
      BY <1>6, <1>8, <3>1
    <3>3. \A nq \in DOMAIN byXi'[i].values : byXi'[i].values[nq] # {NoIntegrand}
      BY <1>12 DEF Usable, WasCut
    <3>4. Len(byXi'[i].values) = NumQuantities
      BY <1>12 DEF Usable
    <3> QED BY <3>2, <3>3, <3>4, CutFacts
  <2> QED BY <1>9, <2>1, <2>2
<1>13. Len(byXi') \in Len(byXi) .. Len(byXi) + NT
  <2>1. Len(last) <= 1 /\ Len(last) >= 0
    BY <1>6
  <2> HIDE DEF most
  <2> QED BY <1>0, <1>9, <2>1
<1> QED BY <1>10, <1>11, <1>12, <1>13 DEF AppendsPart

\* What has been recorded stays, with what is said of it.
LEMMA StaysWritten ==
  ASSUME Extends
  PROVE  /\ WasCut => WasCut'
         /\ ZeroOfEarlierSum => ZeroOfEarlierSum'
         /\ \A tag : Moved(tag) => Moved(tag)'
         /\ \A i \in 1..Len(byXi) : Usable(i)' <=> Usable(i)
         /\ \A i : Usable(i)' => i \in 1..Len(byXi')
<1>1. WasCut => WasCut'
  BY DEF Extends, WasCut, NoIntegrand
<1>2. ZeroOfEarlierSum => ZeroOfEarlierSum'
  BY DEF Extends, ZeroOfEarlierSum, Writers
<1>3. \A tag : Moved(tag) => Moved(tag)'
  BY DEF Extends, Moved
<1>4. \A i \in 1..Len(byXi) : Usable(i)' <=> Usable(i)
  BY DEF Extends, Usable
<1>5. \A i : Usable(i)' => i \in 1..Len(byXi')
  BY DEF Extends, Usable
<1> QED BY <1>1, <1>2, <1>3, <1>4, <1>5

LEMMA LineStays ==
  ASSUME Extends, NEW i \in 1..Len(byXi), NEW jb, NEW m, NEW k, IsLine(i, jb, m, k)
  PROVE  IsLine(i, jb, m, k)'
<1>1. byXi'[i] = byXi[i]
  BY DEF Extends
<1> QED BY <1>1, StaysWritten DEF IsLine

\* The datasets in the file stay what they are, unless one that was left open is
\* followed by a line that could belong to it.
LEMMA DatasetStays ==
  ASSUME Extends, NEW i \in 1..Len(byXi), InDataset(i),
         \/ step # "done"
         \/ /\ \A l \in {Len(byXi) + 1} : ~Usable(l)'
            /\ step' = "done" \/ Len(byXi) < Len(byXi')
  PROVE  InDataset(i)'
<1>0. NT \in Nat /\ Transformations = 1..NT
  BY GeometryAssumption DEF Transformations
<1>1. Len(byXi) \in Nat /\ Len(byXi') \in Nat /\ Len(byXi) <= Len(byXi')
      /\ \A j \in 1..Len(byXi) : Usable(j)' <=> Usable(j)
  BY StaysWritten DEF Extends
<1>2. PICK s \in 1..i, jb \in Writers, m \in 0..MaxXiPoints - 1 :
        /\ i < s + NT /\ \A j \in s..i : Usable(j)
        /\ DatasetAt(s, jb, m)
        /\ step = "done" \/ Closed(s)
  BY DEF InDataset
<1>3. jb \in Writers'
  BY DEF Extends
<1>4. \A j \in s..i : Usable(j)'
  BY <1>1, <1>2
<1>5. ASSUME NEW k \in Transformations, \A j \in s..s + k - 1 : Usable(j)'
      PROVE  IsLine(s + k - 1, jb, m, k)'
  <2>1. CASE s + k - 1 <= Len(byXi)
    <3>1. \A j \in s..s + k - 1 : Usable(j) /\ j \in 1..Len(byXi)
      BY <1>0, <1>1, <1>5, <2>1
    <3>2. IsLine(s + k - 1, jb, m, k) /\ s + k - 1 \in 1..Len(byXi)
      BY <1>0, <1>1, <1>2, <2>1, <3>1 DEF DatasetAt
    <3> QED BY <3>2, LineStays
  <2>2. CASE s + k - 1 > Len(byXi)
    <3>1. \A j \in s..Len(byXi) : Usable(j)
      BY <1>0, <1>1, <1>5, <2>2
    <3>2. ~Closed(s)
      BY <1>0, <1>1, <2>2, <3>1 DEF Closed
    <3>3. \A l \in {Len(byXi) + 1} : Usable(l)'
      BY <1>0, <1>1, <1>5, <2>2
    <3> QED BY <1>2, <3>2, <3>3
  <2> QED BY <1>0, <1>1, <2>1, <2>2
<1>6. DatasetAt(s, jb, m)'
  BY <1>5 DEF DatasetAt, Transformations
<1>7. step' = "done" \/ Closed(s)'
  <2>1. CASE Closed(s)
    <3>1. CASE s + NT - 1 <= Len(byXi)
      BY <1>0, <1>1, <3>1 DEF Closed
    <3>2. CASE \E j \in s..Len(byXi) : ~Usable(j)
      BY <1>1, <3>2 DEF Closed
    <3> QED BY <2>1, <3>1, <3>2 DEF Closed
  <2>2. CASE ~Closed(s) /\ step' # "done"
    BY <1>1, <1>2, <2>2 DEF Closed
  <2> QED BY <2>1, <2>2
<1> QED BY <1>2, <1>3, <1>4, <1>6, <1>7 DEF InDataset

-----------------------------------------------------------------------------
(* The values.                                                             *)

LEMMA FirstTagFacts == FirstTagMoved <=> Moved(job.Tag[1])
BY DEF FirstTagMoved, Moved, Writers

\* At the end of the transformations all slots are filled, with what was computed or
\* with what was read.
LEMMA RightAtEnd ==
  ASSUME IInv, SlotInv, JobInv, ReadInv, EndTransformations, ~OtherQuantities, ~WasCut,
         NEW i \in Slots
  PROVE  RightOrZero(i)
<1>1. CASE read
  BY <1>1 DEF ReadInv, EndTransformations
<1>2. CASE ~read
  <2>1. i \in XiConverged => ZeroOfEarlierSum
    BY DEF JobInv, ZeroOfEarlierSum
  <2> QED BY <1>2, <2>1, ComputedAtEnd DEF Good, RightOrZero
<1> QED BY <1>1, <1>2

\* The slot of a quantity at a transformation.
LEMMA SlotOfFacts ==
  ASSUME NEW k \in Transformations, NEW nq \in 1..NumQuantities, NEW freq
  PROVE  /\ SlotOf(k, nq) \in Slots
         /\ SlotIntegrand(freq, SlotOf(k, nq)) = Integrand(freq, k, nq)
<1>1. NT \in Nat /\ NumQuantities \in Nat \ {0} /\ k \in 1..NT
  BY GeometryAssumption, CasimirAssumption DEF Transformations
<1>2. (k - 1) * NumQuantities + NumQuantities = k * NumQuantities /\ k * NumQuantities \in 0..NTNQ
  BY <1>1, SlotBounds
<1>3. (k - 1) * NumQuantities \in Nat /\ NTNQ \in Nat
  BY <1>1 DEF NTNQ
<1>4. SlotOf(k, nq) \in (k - 1) * NumQuantities + 1 .. (k - 1) * NumQuantities + NumQuantities
  BY <1>1, <1>3 DEF SlotOf
<1>5. SlotOf(k, nq) \in Slots
  BY <1>1, <1>2, <1>3 DEF SlotOf, Slots
<1>6. SlotOf(k, nq) - (k - 1) * NumQuantities = nq
  BY <1>1, <1>3 DEF SlotOf
<1>7. SlotIntegrand(freq, SlotOf(k, nq)) = Integrand(freq, k, SlotOf(k, nq) - (k - 1) * NumQuantities)
  BY <1>1, <1>4, FilledSlot
<1> QED BY <1>5, <1>6, <1>7

\* What is appended is as right as the slots.
LEMMA RecordedIsRight ==
  ASSUME IInv, SlotInv, JobInv, ReadInv, EndTransformations, ~OtherQuantities, ~WasCut,
         NEW k \in Transformations, NEW nq \in 1..NumQuantities
  PROVE  \/ Recorded(dEFT[SlotOf(k, nq)]) = {[xi |-> Xi, nt |-> k, quantity |-> job.Quantity[nq]]}
         \/ Recorded(dEFT[SlotOf(k, nq)]) = {} /\ ZeroOfEarlierSum
         \/ Moved(job.Tag[1])
<1> DEFINE i == SlotOf(k, nq)
<1>1. i \in Slots /\ SlotIntegrand(n, i) = Integrand(n, k, nq)
  BY SlotOfFacts
<1>2. RightOrZero(i)
  BY <1>1, RightAtEnd
<1>3. CASE dEFT[i] = Wanted(i)
  <2>1. dEFT[i] = {Integrand(n, k, nq)}
    BY <1>1, <1>3 DEF Wanted
  <2>2. n # None /\ nq # 0
    BY CasimirAssumption DEF IInv, TypeOK
  <2>3. Recorded({Integrand(n, k, nq)}) = {[xi |-> Xi, nt |-> k, quantity |-> job.Quantity[nq]]}
    BY <2>2 DEF Recorded, Integrand, Xi
  <2> QED BY <2>1, <2>3
<1>4. CASE dEFT[i] = {} /\ ZeroOfEarlierSum
  BY <1>4 DEF Recorded
<1>5. CASE FirstTagMoved
  BY <1>5, FirstTagFacts
<1> QED BY <1>2, <1>3, <1>4, <1>5 DEF RightOrZero

LEMMA LineFacts ==
  ASSUME NEW k
  PROVE  /\ Line(k).tag = job.Tag[k] /\ Line(k).xi = Xi
         /\ Len(Line(k).values) = NumQuantities
         /\ \A nq \in 1..NumQuantities : Line(k).values[nq] = Recorded(dEFT[SlotOf(k, nq)])
<1>1. NumQuantities \in Nat
  BY CasimirAssumption
<1> DEFINE v == [nq \in 1..NumQuantities |-> Recorded(dEFT[SlotOf(k, nq)])]
           V == { Recorded(dEFT[SlotOf(k, nq)]) : nq \in 1..NumQuantities }
<1>2. v \in Seq(V) /\ Len(v) = NumQuantities
  BY <1>1
<1> QED BY <1>2 DEF Line

\* The new lines are a dataset of this run.
LEMMA AppendKeepsLines ==
  ASSUME IInv, SlotInv, JobInv, ReadInv, LinesInv, EndTransformations,
         NEW d \in BOOLEAN, Extends, AppendsPart(d), d \/ step' = "done",
         UNCHANGED <<earlier, job, n>>
  PROVE  LinesInv'
<1> SUFFICES ASSUME ~OtherQuantities', ~WasCut',
                    NEW i \in 1..Len(byXi'), Usable(i)'
             PROVE  InDataset(i)'
  BY DEF LinesInv, Extends
<1>0. NT \in Nat /\ Transformations = 1..NT /\ NumQuantities \in Nat
  BY GeometryAssumption, CasimirAssumption DEF Transformations
<1>1. ~OtherQuantities /\ ~WasCut
  BY StaysWritten DEF Extends
<1>2. /\ Len(byXi) \in Nat /\ Len(byXi') \in Nat
      /\ \A j \in 1..Len(byXi) : Usable(j)' <=> Usable(j)
  BY StaysWritten DEF Extends
<1>3. CASE i <= Len(byXi)
  <2>1. i \in 1..Len(byXi) /\ Usable(i)
    BY <1>2, <1>3
  <2>2. InDataset(i)
    BY <1>1, <2>1 DEF LinesInv, Extends
  <2>3. step # "done"
    BY DEF EndTransformations
  <2> QED BY <2>1, <2>2, <2>3, DatasetStays
<1>4. CASE i > Len(byXi)
  <2>0. PICK jb \in Jobs, m \in 0..MaxXiPoints - 1 : jb = job /\ m = n
    BY CasimirAssumption DEF JobInv, IInv, TypeOK, CountInv, EndTransformations
  <2>1. PICK len \in Nat : len = Len(byXi)
    BY <1>2
  <2>2. i \in len + 1 .. Len(byXi') /\ Len(byXi') \in len .. len + NT
        /\ (d => Len(byXi') = len + NT)
    BY <1>2, <1>4, <2>1 DEF AppendsPart
  <2>3. ASSUME NEW l \in len + 1 .. Len(byXi'), Usable(l)', NEW j \in len + 1 .. l
        PROVE  byXi'[j] = Line(j - len)
    BY <2>1, <2>3 DEF AppendsPart
  <2>4. ASSUME NEW j \in len + 1 .. i PROVE Usable(j)'
    <3>1. Len(byXi'[j].values) = NumQuantities
      BY <2>2, <2>3, <2>4, LineFacts
    <3>2. j \in DOMAIN byXi'
      BY <1>2, <2>1, <2>2, <2>4 DEF Extends
    <3> QED BY <3>1, <3>2 DEF Usable
  <2>5. ASSUME NEW k \in Transformations, \A j \in len + 1 .. len + 1 + k - 1 : Usable(j)'
        PROVE  IsLine(len + 1 + k - 1, jb, m, k)'
    <3>1. PICK l \in Nat : l = len + k
      BY <1>0
    <3>2. Usable(l)' /\ l \in len + 1 .. Len(byXi') /\ l - len = k
      BY <1>0, <1>2, <2>1, <2>5, <3>1, StaysWritten
    <3>3. byXi'[l] = Line(k)
      BY <2>3, <3>2
    <3>4. /\ Line(k).tag = jb.Tag[k] /\ Line(k).xi = jb.Xi[m]
          /\ \A nq \in 1..NumQuantities : Line(k).values[nq] = Recorded(dEFT[SlotOf(k, nq)])
      BY <2>0, LineFacts DEF Xi
    <3>5. ASSUME NEW nq \in 1..NumQuantities
          PROVE  \/ Line(k).values[nq] = {[xi |-> jb.Xi[m], nt |-> k, quantity |-> jb.Quantity[nq]]}
                 \/ Line(k).values[nq] = {} /\ ZeroOfEarlierSum'
                 \/ Moved(jb.Tag[1])'
      <4>1. \/ Line(k).values[nq] = {[xi |-> jb.Xi[m], nt |-> k, quantity |-> jb.Quantity[nq]]}
            \/ Line(k).values[nq] = {} /\ ZeroOfEarlierSum
            \/ Moved(jb.Tag[1])
        BY <1>1, <2>0, <3>4, RecordedIsRight DEF Xi
      <4> QED BY <4>1, StaysWritten
    <3>6. IsLine(l, jb, m, k)'
      BY <3>3, <3>4, <3>5 DEF IsLine
    <3>7. len + 1 + k - 1 = l
      BY <1>0, <3>1
    <3> QED BY <3>6, <3>7
  <2>6. DatasetAt(len + 1, jb, m)'
    BY <2>5 DEF DatasetAt, Transformations
  <2>7. step' = "done" \/ Closed(len + 1)'
    BY <1>0, <2>2 DEF Closed
  <2>8. jb \in Writers'
    BY <2>0 DEF Writers
  <2>9. len + 1 \in 1..i /\ i < (len + 1) + NT
    BY <1>0, <1>2, <2>2
  <2> QED BY <2>4, <2>6, <2>7, <2>8, <2>9 DEF InDataset
<1> QED BY <1>2, <1>3, <1>4

\* Every slot is that of a quantity at a transformation.
LEMMA SlotParts ==
  ASSUME NEW i \in Slots
  PROVE  LET k == ((i - 1) \div NumQuantities) + 1
             nq == i - ((k - 1) * NumQuantities)
         IN  k \in Transformations /\ nq \in 1..NumQuantities /\ i = SlotOf(k, nq)
<1>1. NT \in Nat /\ NumQuantities \in Nat \ {0} /\ Transformations = 1..NT
  BY GeometryAssumption, CasimirAssumption DEF Transformations
<1>2. i \in Nat /\ i >= 1 /\ i <= NT * NumQuantities
  BY <1>1 DEF Slots, NTNQ
<1> DEFINE q == (i - 1) \div NumQuantities
           r == (i - 1) % NumQuantities
<1>3. q \in Int /\ r \in 0..NumQuantities - 1 /\ i - 1 = NumQuantities * q + r
  BY <1>1, <1>2
<1> HIDE DEF q, r
<1>4. q >= 0
  <2> SUFFICES ASSUME q <= -1 PROVE FALSE
    BY <1>3
  <2>1. NumQuantities * q <= -NumQuantities
    BY <1>1, <1>3
  <2> QED BY <1>1, <1>2, <1>3, <2>1
<1>5. q <= NT - 1
  <2> SUFFICES ASSUME q >= NT PROVE FALSE
    BY <1>1, <1>3
  <2>1. NumQuantities * q >= NumQuantities * NT
    BY <1>1, <1>3
  <2>2. NumQuantities * NT = NT * NumQuantities
    BY <1>1
  <2> QED BY <1>1, <1>2, <1>3, <2>1, <2>2
<1>6. (q + 1) - 1 = q /\ q * NumQuantities = NumQuantities * q
  BY <1>1, <1>3
<1>7. i - (q * NumQuantities) = r + 1
  BY <1>1, <1>2, <1>3, <1>6
<1>8. /\ q + 1 \in Transformations
      /\ i - (((q + 1) - 1) * NumQuantities) \in 1..NumQuantities
      /\ i = ((q + 1) - 1) * NumQuantities + (i - (((q + 1) - 1) * NumQuantities))
  <2>1. q + 1 \in Transformations
    BY <1>1, <1>3, <1>4, <1>5
  <2>2. q * NumQuantities \in Int
    BY <1>1, <1>3
  <2> QED BY <1>1, <1>2, <1>3, <1>6, <1>7, <2>1, <2>2
<1> QED BY <1>8 DEF SlotOf, q

\* A run finds the quantity that was recorded where it has it itself.
LEMMA PositionFacts ==
  ASSUME JobInv, NEW nq \in 1..NumQuantities
  PROVE  Position(job.Quantity[nq]) = nq
<1>1. \A p, q \in 1..NumQuantities : job.Quantity[p] = job.Quantity[q] => p = q
  BY RunsAssumption DEF JobInv
<1>2. { p \in 1..NumQuantities : job.Quantity[p] = job.Quantity[nq] } = {nq}
  BY <1>1
<1> QED BY <1>2 DEF Position

\* The lines that are read are a whole dataset, and the first tag stands where it
\* begins.
LEMMA ReadFacts ==
  ASSUME JobInv, LinesInv, CacheRead, ~OtherQuantities, ~WasCut, ~FirstTagMoved
  PROVE  \E f \in FirstMatch : \E jb \in Writers : \E m \in 0..MaxXiPoints - 1 :
           /\ dEFT' = TakenSlots(f) /\ jb.Xi[m] = Xi /\ jb.Tag[1] = job.Tag[1]
           /\ \A k \in Transformations : IsLine(f + k - 1, jb, m, k)
<1>0. NT \in Nat \ {0} /\ Transformations = 1..NT
  BY GeometryAssumption DEF Transformations
<1>00. Len(byXi) \in Nat /\ DOMAIN byXi = 1..Len(byXi)
  BY DEF JobInv
<1>1. PICK f \in FirstMatch : dEFT' = TakenSlots(f)
  BY DEF CacheRead
<1>2. PICK g \in FirstMatch : Found(g)
  BY DEF CacheRead, CacheReadSucceeds
<1>3. f \in 1..Len(byXi) /\ g \in 1..Len(byXi)
  BY <1>00 DEF FirstMatch
<1>4. LineMatches(f, 1) /\ LineMatches(g, 1)
      /\ (\A j \in 1..f - 1 : ~LineMatches(j, 1)) /\ (\A j \in 1..g - 1 : ~LineMatches(j, 1))
  BY DEF FirstMatch
<1>5. f = g
  <2>1. ~(f < g) /\ ~(g < f)
    BY <1>00, <1>3, <1>4
  <2> QED BY <1>00, <1>3, <2>1
<1>6. \A k \in Transformations : LineMatches(f + k - 1, k)
  BY <1>2, <1>5 DEF Found
<1>7. ASSUME NEW j \in f .. f + NT - 1 PROVE Usable(j)
  <2>1. j - f + 1 \in Transformations /\ f + (j - f + 1) - 1 = j
    BY <1>0, <1>00, <1>3, <1>7
  <2>2. LineMatches(j, j - f + 1)
    BY <1>6, <2>1
  <2> QED BY <2>2 DEF LineMatches, Usable
<1>8. Usable(f)
  BY <1>0, <1>00, <1>3, <1>7
<1>9. PICK s \in 1..f, jb \in Writers, m \in 0..MaxXiPoints - 1 :
        f < s + NT /\ (\A j \in s..f : Usable(j)) /\ DatasetAt(s, jb, m)
  BY <1>00, <1>3, <1>8 DEF LinesInv, InDataset
<1>10. IsLine(s, jb, m, 1)
  <2>1. 1 \in Transformations /\ s + 1 - 1 = s /\ \A j \in s..s + 1 - 1 : j \in s..f
    BY <1>0, <1>00, <1>3
  <2> QED BY <1>9, <2>1 DEF DatasetAt
<1>11. s = f
  <2> SUFFICES ASSUME s # f PROVE FALSE
    OBVIOUS
  <2>1. s \in 1..f - 1 /\ f - s + 1 \in Transformations /\ s + (f - s + 1) - 1 = f
    BY <1>0, <1>00, <1>3, <1>9
  <2>2. IsLine(f, jb, m, f - s + 1)
    BY <1>9, <2>1 DEF DatasetAt
  <2>3. jb.Tag[f - s + 1] = job.Tag[1] /\ jb.Xi[m] = Xi
    BY <1>4, <2>2 DEF IsLine, LineMatches
  <2>4. ~LineMatches(s, 1) /\ Usable(s)
    BY <1>00, <1>3, <1>4, <1>9, <2>1
  <2>5. jb.Tag[1] # job.Tag[1]
    BY <1>10, <2>3, <2>4 DEF LineMatches, Usable, IsLine
  <2>6. Moved(job.Tag[1])
    BY <2>1, <2>3, <2>5 DEF Moved
  <2> QED BY <2>6, FirstTagFacts
<1>12. jb.Xi[m] = Xi /\ jb.Tag[1] = job.Tag[1]
  BY <1>4, <1>10, <1>11 DEF IsLine, LineMatches
<1>13. ASSUME NEW k \in Transformations PROVE IsLine(f + k - 1, jb, m, k)
  <2>1. \A j \in f..f + k - 1 : j \in f..f + NT - 1
    BY <1>0, <1>00, <1>3
  <2> QED BY <1>7, <1>9, <1>11, <2>1 DEF DatasetAt
<1> QED BY <1>1, <1>12, <1>13

LEMMA ReadIsRight ==
  ASSUME JobInv, LinesInv, CacheRead, ~OtherQuantities, ~WasCut, NEW i \in Slots
  PROVE  RightOrZero(i)'
<1>1. UNCHANGED <<n, job, earlier>>
  BY DEF CacheRead
<1>2. CASE FirstTagMoved
  BY <1>1, <1>2 DEF RightOrZero, FirstTagMoved
<1>3. CASE ~FirstTagMoved
  <2>1. PICK f \in FirstMatch, jb \in Writers, m \in 0..MaxXiPoints - 1 :
          /\ dEFT' = TakenSlots(f) /\ jb.Xi[m] = Xi /\ jb.Tag[1] = job.Tag[1]
          /\ \A k \in Transformations : IsLine(f + k - 1, jb, m, k)
    BY <1>3, ReadFacts
  <2> DEFINE k == ((i - 1) \div NumQuantities) + 1
             nq == i - ((k - 1) * NumQuantities)
  <2>2. k \in Transformations /\ nq \in 1..NumQuantities /\ i = SlotOf(k, nq)
    BY SlotParts
  <2>3. dEFT'[i] = Taken(byXi[f + k - 1].values[nq])
    BY <2>1 DEF TakenSlots
  <2> HIDE DEF k, nq
  <2>4. Wanted(i)' = {Integrand(n, k, nq)}
    BY <1>1, <2>2, SlotOfFacts DEF Wanted
  <2>5. jb.Quantity = job.Quantity /\ ~Moved(jb.Tag[1])
    BY <1>3, <2>1, FirstTagFacts DEF Writers, OtherQuantities
  <2>6. \/ byXi[f + k - 1].values[nq] = {[xi |-> Xi, nt |-> k, quantity |-> job.Quantity[nq]]}
        \/ byXi[f + k - 1].values[nq] = {} /\ ZeroOfEarlierSum
    BY <2>1, <2>2, <2>5 DEF IsLine
  <2>7. Taken({[xi |-> Xi, nt |-> k, quantity |-> job.Quantity[nq]]}) = {Integrand(n, k, nq)}
    BY <2>2, PositionFacts DEF Taken
  <2>8. Taken({}) = {}
    BY DEF Taken
  <2>9. ZeroOfEarlierSum => ZeroOfEarlierSum'
    BY <1>1 DEF ZeroOfEarlierSum
  <2> QED BY <2>3, <2>4, <2>6, <2>7, <2>8, <2>9 DEF RightOrZero
<1> QED BY <1>2, <1>3

\* What a step that leaves the file and the jobs alone keeps.
SameFile == UNCHANGED <<byXi, job, earlier>>

LEMMA SameFileFacts ==
  ASSUME JobInv, LinesInv, SameFile, step = "done" => step' = "done"
  PROVE  LinesInv'
<1>1. Extends
  BY DEF SameFile, JobInv, Extends, Writers, OtherQuantities
<1> SUFFICES ASSUME ~OtherQuantities', ~WasCut', NEW i \in DOMAIN byXi, Usable(i)'
             PROVE  InDataset(i)'
  BY DEF LinesInv, SameFile
<1>2. ~OtherQuantities /\ ~WasCut /\ i \in 1..Len(byXi) /\ Usable(i)
  BY <1>1, StaysWritten DEF Extends
<1>3. InDataset(i)
  BY <1>2 DEF LinesInv
<1>4. \A l \in {Len(byXi) + 1} : ~Usable(l)'
  BY DEF SameFile, JobInv, Usable
<1> QED BY <1>1, <1>2, <1>3, <1>4, DatasetStays

\* The actions by what they do to the file, the jobs and what was read.
LEMMA FileActions ==
  ASSUME IInv, SlotInv, [RunsNext]_runVars
  PROVE  \/ RunAgain
         \/ AppendDataset
         \/ KilledWhileAppending
         \/ CacheRead
         \/ GoOn
         \/ SameFile /\ ~read /\ ~read' /\ step # "done" /\ UNCHANGED <<Driver, XiConverged>>
         \/ UNCHANGED runVars
<1>0. NT \in Nat /\ nt \in Nat
  BY GeometryAssumption DEF IInv, TypeOK
<1>1. ASSUME Compute
      PROVE  SameFile /\ ~read /\ ~read' /\ step # "done" /\ UNCHANGED <<Driver, XiConverged>>
  <2>1. UNCHANGED <<Driver, fileVars>>
    BY <1>1 DEF Compute
  <2>2. step # "done" /\ UNCHANGED XiConverged
        /\ (step = "transformation" => nt <= NT)
    BY <1>1 DEF Compute, AssembleT, SkipTransformation, ApplyTransformation, AssembleU,
                Factorize, ComputeQuantities, sums
  <2>3. ~read
    BY <1>0, <2>2 DEF SlotInv
  <2> QED BY <2>1, <2>2, <2>3 DEF SameFile, fileVars
<1>2. Finished => UNCHANGED runVars
  BY DEF Finished
<1> QED BY <1>1, <1>2 DEF RunsNext

LEMMA LinesInit == RunsInit => LinesInv /\ ReadInv
<1> SUFFICES ASSUME RunsInit PROVE LinesInv /\ ReadInv
  OBVIOUS
<1>1. byXi = <<Preamble>> /\ ~read
  BY DEF RunsInit
<1>2. \A i \in DOMAIN byXi : byXi[i].values = <<>>
  BY <1>1 DEF Preamble
<1>3. Len(<<>>) = 0 /\ NumQuantities # 0
  BY CasimirAssumption
<1>4. \A i \in DOMAIN byXi : ~Usable(i)
  BY <1>2, <1>3 DEF Usable
<1> QED BY <1>1, <1>4 DEF LinesInv, ReadInv

LEMMA JobStep == IInv /\ SlotInv /\ JobInv /\ [RunsNext]_runVars => JobInv'
<1> SUFFICES ASSUME IInv, SlotInv, JobInv, [RunsNext]_runVars PROVE JobInv'
  OBVIOUS
<1>1. CASE SameFile /\ UNCHANGED <<Driver, XiConverged>>
  BY <1>1 DEF SameFile, JobInv
<1>2. CASE CacheRead \/ UNCHANGED runVars
  BY <1>2 DEF CacheRead, runVars, vars, fileVars, sums, JobInv
<1>3. CASE GoOn
  <2>1. UNCHANGED <<Driver, job, earlier, byXi>>
    BY <1>3 DEF GoOn
  <2>2. Driver = "Matsubara" \/ UNCHANGED XiConverged
    BY <1>3 DEF GoOn, NextXiPoint, Accumulate, sums
  <2> QED BY <2>1, <2>2 DEF JobInv
<1> QED BY <1>1, <1>2, <1>3, FileActions, StartFacts, AppendStep, KillStep

LEMMA LinesStep ==
  IInv /\ SlotInv /\ JobInv /\ LinesInv /\ ReadInv /\ [RunsNext]_runVars => LinesInv'
<1> SUFFICES ASSUME IInv, SlotInv, JobInv, LinesInv, ReadInv, [RunsNext]_runVars PROVE LinesInv'
  OBVIOUS
<1>1. CASE RunAgain
  <2> SUFFICES ASSUME ~OtherQuantities', ~WasCut', NEW i \in DOMAIN byXi', Usable(i)'
               PROVE  InDataset(i)'
    BY DEF LinesInv
  <2>1. /\ Extends /\ Len(byXi') = Len(byXi) + 1
        /\ \A j \in Len(byXi) + 1 .. Len(byXi') : ~Usable(j)'
    BY <1>1, StartFacts
  <2>2. Len(byXi) \in Nat /\ DOMAIN byXi' = 1..Len(byXi')
    BY <2>1 DEF Extends
  <2>3. i \in 1..Len(byXi)
    BY <2>1, <2>2
  <2>4. ~OtherQuantities /\ ~WasCut /\ Usable(i)
    BY <2>1, <2>3, StaysWritten DEF Extends
  <2>5. InDataset(i)
    BY <2>1, <2>3, <2>4 DEF LinesInv, Extends
  <2>6. (\A l \in {Len(byXi) + 1} : ~Usable(l)') /\ Len(byXi) < Len(byXi')
    BY <2>1, <2>2
  <2> QED BY <2>1, <2>3, <2>5, <2>6, DatasetStays
<1>2. CASE AppendDataset
  <2>1. EndTransformations /\ UNCHANGED <<earlier, job, n>>
    BY <1>2 DEF AppendDataset, vars
  <2> QED BY <1>2, <2>1, AppendStep, AppendKeepsLines
<1>3. CASE KilledWhileAppending
  <2>1. EndTransformations /\ step' = "done" /\ UNCHANGED <<earlier, job, n>>
    BY <1>3 DEF KilledWhileAppending
  <2> QED BY <1>3, <2>1, KillStep, AppendKeepsLines
<1>4. CASE CacheRead \/ GoOn
  <2>1. SameFile /\ step # "done"
    BY <1>4 DEF CacheRead, GoOn, SameFile, NextXiPoint, Accumulate, EndTransformations
  <2> QED BY <2>1, SameFileFacts
<1>5. CASE SameFile /\ step # "done"
  BY <1>5, SameFileFacts
<1>6. CASE UNCHANGED runVars
  <2>1. SameFile /\ UNCHANGED step
    BY <1>6 DEF runVars, vars, fileVars, SameFile
  <2> QED BY <2>1, SameFileFacts
<1> QED BY <1>1, <1>2, <1>3, <1>4, <1>5, <1>6, FileActions

LEMMA ReadStep ==
  IInv /\ SlotInv /\ JobInv /\ LinesInv /\ ReadInv /\ [RunsNext]_runVars => ReadInv'
<1> SUFFICES ASSUME IInv, SlotInv, JobInv, LinesInv, ReadInv, [RunsNext]_runVars PROVE ReadInv'
  OBVIOUS
<1>1. CASE RunAgain \/ GoOn
  BY <1>1 DEF RunAgain, StartRun, GoOn, ReadInv
<1>2. CASE KilledWhileAppending
  BY <1>2 DEF KilledWhileAppending, ReadInv
<1>3. CASE AppendDataset
  <2>1. Extends /\ UNCHANGED <<step, n, dEFT, job, earlier, read>>
    BY <1>3, AppendStep DEF AppendDataset, vars
  <2>2. (WasCut => WasCut') /\ (OtherQuantities => OtherQuantities')
    BY <2>1, StaysWritten DEF Extends
  <2>3. \A i \in Slots : RightOrZero(i) => RightOrZero(i)'
    BY <2>1 DEF RightOrZero, Wanted, ZeroOfEarlierSum, FirstTagMoved
  <2> QED BY <2>1, <2>2, <2>3 DEF ReadInv, Slots
<1>4. CASE CacheRead
  <2>1. (OtherQuantities' <=> OtherQuantities) /\ (WasCut' <=> WasCut)
    BY <1>4 DEF CacheRead, OtherQuantities, WasCut, NoIntegrand
  <2> QED BY <1>4, <2>1, ReadIsRight DEF ReadInv, Slots
<1>5. CASE ~read'
  BY <1>5 DEF ReadInv
<1>6. CASE UNCHANGED runVars
  BY <1>6 DEF runVars, vars, fileVars, ReadInv, OtherQuantities, WasCut, NoIntegrand,
              RightOrZero, Wanted, ZeroOfEarlierSum, FirstTagMoved, Slots
<1> QED BY <1>1, <1>2, <1>3, <1>4, <1>5, <1>6, FileActions

\* At the end of the transformations every slot has the integrand it is for, or
\* zero once its sum has converged, for any jobs, in any number of runs killed
\* anywhere; what was read from the file may be something else only where the
\* property says so.
THEOREM RunsValuesAreRight == RunsSpec => []ValuesRight
<1> DEFINE I == IInv /\ SlotInv /\ JobInv /\ LinesInv /\ ReadInv
<1>1. RunsInit => I
  BY IInit, SlotInit, JobInit, LinesInit DEF RunsInit
<1>2. I /\ [RunsNext]_runVars => I'
  BY RunsStep, SlotStep, JobStep, LinesStep, ReadStep
<1>3. I => ValuesRight
  <2> SUFFICES ASSUME I, EndTransformations, NEW i \in Slots
               PROVE  \/ dEFT[i] = Wanted(i)
                      \/ dEFT[i] = {} /\ i \in XiConverged
                      \/ read /\ \/ dEFT[i] = {} /\ ZeroOfEarlierSum
                                 \/ OtherQuantities
                                 \/ WasCut
                                 \/ FirstTagMoved
    BY DEF ValuesRight
  <2>1. CASE read
    BY <2>1 DEF ReadInv, RightOrZero, EndTransformations
  <2>2. CASE ~read
    BY <2>2, ComputedAtEnd DEF Good
  <2> QED BY <2>1, <2>2
<1> HIDE DEF I
<1> QED BY <1>1, <1>2, <1>3, PTL DEF RunsSpec
=============================================================================
