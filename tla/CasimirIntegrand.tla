-------------------------- MODULE CasimirIntegrand --------------------------
(***************************************************************************)
(* scuff-cas3D, compact geometries: GetCasimirIntegrand evaluates the      *)
(* integrand of each quantity at each transformation, for one imaginary    *)
(* frequency, and the driver calls it at one frequency after another: at   *)
(* the frequencies the user lists, or at the Matsubara frequencies until   *)
(* every sum has converged (GetMatsubaraSum).  Matrix blocks are reused:   *)
(* the diagonal ones from one transformation to the next, the others as    *)
(* long as neither surface has moved, and the work for a transformation    *)
(* all of whose sums have converged is skipped.                            *)
(*                                                                         *)
(* A value is the set of the integrands it sums, so that 0.0 is {}; an     *)
(* integrand tells its frequency, transformation and quantity, and whether *)
(* the matrix it was computed from was the right one is a property of the  *)
(* step that stamps the matrix.                                            *)
(***************************************************************************)
EXTENDS TransformedGeometry, FiniteSets

CONSTANTS Mate,          \* an earlier surface with the same diagonal block, or 0
          NumQuantities,
          MaxXiPoints,   \* the frequencies are 0 .. MaxXiPoints-1
          None

ASSUME CasimirAssumption ==
  /\ TransFiles \subseteq [Transformations -> SUBSET Surfaces]
  /\ Mate \in [Surfaces -> 0..NS]
  /\ \A ns \in Surfaces : Mate[ns] < ns /\ (Mate[ns] # 0 => Mate[Mate[ns]] = 0)
  /\ NumQuantities \in Nat \ {0} /\ MaxXiPoints \in Nat \ {0}
  /\ None \notin Nat

VARIABLES
  Driver,             \* "XiPoints" or "Matsubara": what calls GetCasimirIntegrand
  step,               \* where the loops are
  n, nt, ntnq,        \* frequency, transformation, slots of dEFT filled so far
  TBlocks, UBlocks,   \* what each block was last assembled for
  M,                  \* the blocks stamped into the matrix
  SurfaceNeverMoved,  \* the surfaces for which the flag is true
  dEFT, EFT,          \* the integrands at this frequency, and the sums
  ConvergedIters, XiConverged

vars == <<geometry, Driver, step, n, nt, ntnq, TBlocks, UBlocks, M, SurfaceNeverMoved,
          dEFT, EFT, ConvergedIters, XiConverged>>
blocks == <<TBlocks, UBlocks, M>>
sums == <<EFT, ConvergedIters, XiConverged>>

NTNQ == NT * NumQuantities
Slots == 1..NTNQ
SlotOf(k, nq) == (k - 1) * NumQuantities + nq
Integrand(freq, k, nq) == [freq |-> freq, nt |-> k, nq |-> nq]
Junk == {Integrand(None, 0, 0)}                   \* memory fresh from new double[]

Init ==
  /\ GeometryInit
  /\ Driver \in {"XiPoints", "Matsubara"}
  /\ step = "frequency" /\ n = 0 /\ nt = 1 /\ ntnq = 0
  /\ TBlocks = [ns \in Surfaces |-> None] /\ UBlocks = [p \in Pairs |-> None]
  /\ M = None
  /\ SurfaceNeverMoved = {}
  /\ dEFT = [i \in Slots |-> Junk] /\ EFT = [i \in Slots |-> {}]
  /\ ConvergedIters = [i \in Slots |-> 0] /\ XiConverged = {}

\* A surface with a mate points to the mate's block.
Owner(ns) == IF Mate[ns] = 0 THEN ns ELSE Mate[ns]

AssembleT ==
  /\ step = "frequency" /\ step' = "transformation"
  /\ nt' = 1 /\ ntnq' = 0
  /\ SurfaceNeverMoved' = Surfaces
  /\ TBlocks' = [ns \in Surfaces |-> IF Mate[ns] = 0 THEN n ELSE TBlocks[ns]]
  /\ UNCHANGED <<geometry, n, UBlocks, M, dEFT, sums>>

\* Every quantity at this transformation has converged.
AllConverged == \A nq \in 1..NumQuantities : ntnq + nq \in XiConverged

\* Mutant: the slots of the skipped quantities are not passed over.
SkipTransformationKeepsSlot ==
  /\ step = "transformation" /\ nt <= NT /\ AllConverged
  /\ dEFT' = [i \in Slots |-> IF i \in ntnq + 1 .. ntnq + NumQuantities THEN {} ELSE dEFT[i]]
  /\ nt' = nt + 1
  /\ UNCHANGED <<geometry, step, n, ntnq, blocks, SurfaceNeverMoved, sums>>

SkipTransformation ==
  /\ step = "transformation" /\ nt <= NT /\ AllConverged
  /\ dEFT' = [i \in Slots |-> IF i \in ntnq + 1 .. ntnq + NumQuantities THEN {} ELSE dEFT[i]]
  /\ ntnq' = ntnq + NumQuantities /\ nt' = nt + 1
  /\ UNCHANGED <<geometry, step, n, blocks, SurfaceNeverMoved, sums>>

ApplyTransformation ==
  /\ step = "transformation" /\ nt <= NT /\ ~AllConverged
  /\ Transform(nt)
  /\ SurfaceNeverMoved' = SurfaceNeverMoved \ GTCs[nt]
  /\ step' = "blocks"
  /\ UNCHANGED <<n, nt, ntnq, blocks, dEFT, sums>>

\* Mutant: only the last transformation counts.
ReusableIfUnmoved(p) == nt > 1 /\ p[1] \notin SurfaceMoved /\ p[2] \notin SurfaceMoved

\* Not the first transformation, and neither surface has moved at this frequency.
Reusable(p) == nt > 1 /\ p[1] \in SurfaceNeverMoved /\ p[2] \in SurfaceNeverMoved

AssembleU ==
  /\ step = "blocks" /\ step' = "factorize"
  /\ UBlocks' = [p \in Pairs |-> IF Reusable(p) THEN UBlocks[p] ELSE BlockAt(n, p)]
  /\ UNCHANGED <<geometry, n, nt, ntnq, TBlocks, M, SurfaceNeverMoved, dEFT, sums>>

Factorize ==
  /\ step = "factorize" /\ step' = "quantities"
  /\ M' = [T |-> [ns \in Surfaces |-> TBlocks[Owner(ns)]], U |-> UBlocks]
  /\ UNCHANGED <<geometry, n, nt, ntnq, TBlocks, UBlocks, SurfaceNeverMoved, dEFT, sums>>

ComputeQuantities ==
  /\ step = "quantities" /\ step' = "transformation"
  /\ dEFT' = [i \in Slots |-> IF i \in ntnq + 1 .. ntnq + NumQuantities
                              THEN {Integrand(n, nt, i - ntnq)} ELSE dEFT[i]]
  /\ ntnq' = ntnq + NumQuantities /\ nt' = nt + 1
  /\ UnTransform
  /\ UNCHANGED <<n, blocks, SurfaceNeverMoved, sums>>

EndTransformations == step = "transformation" /\ nt > NT

\* The driver for a list of frequencies keeps nothing from one to the next.
NextXiPoint ==
  /\ Driver = "XiPoints" /\ EndTransformations
  /\ n' = n + 1
  /\ step' = IF n' < MaxXiPoints THEN "frequency" ELSE "done"
  /\ UNCHANGED <<geometry, nt, ntnq, blocks, SurfaceNeverMoved, dEFT, sums>>

\* The sums whose relative change may be below the tolerance: not the first term.
MayBeSmall == IF n = 0 THEN {} ELSE Slots

\* Mutant: a sum that has converged is looked at again.
AccumulateAgain ==
  /\ Driver = "Matsubara" /\ EndTransformations
  /\ EFT' = [i \in Slots |-> EFT[i] \cup dEFT[i]]
  /\ \E small \in SUBSET MayBeSmall :
       /\ ConvergedIters' = [i \in Slots |-> IF i \in small THEN ConvergedIters[i] + 1 ELSE 0]
       /\ XiConverged' = { i \in Slots : ConvergedIters'[i] >= 2 }
  /\ IF XiConverged' = Slots THEN UNCHANGED n /\ step' = "done"
     ELSE n' = n + 1 /\ step' = IF n' < MaxXiPoints THEN "frequency" ELSE "done"
  /\ UNCHANGED <<geometry, nt, ntnq, blocks, SurfaceNeverMoved, dEFT>>

\* GetMatsubaraSum after each frequency: add the integrands to the sums and see
\* which have converged.  Whether a change is small is up to the integrands.
Accumulate ==
  /\ Driver = "Matsubara" /\ EndTransformations
  /\ EFT' = [i \in Slots |-> EFT[i] \cup dEFT[i]]
  /\ \E small \in SUBSET MayBeSmall :
       /\ ConvergedIters' = [i \in Slots |->
            IF i \in XiConverged THEN ConvergedIters[i]
            ELSE IF i \in small THEN ConvergedIters[i] + 1 ELSE 0]
       /\ XiConverged' = { i \in Slots : ConvergedIters'[i] >= 2 }
  /\ IF XiConverged' = Slots THEN UNCHANGED n /\ step' = "done"
     ELSE n' = n + 1 /\ step' = IF n' < MaxXiPoints THEN "frequency" ELSE "done"
  /\ UNCHANGED <<geometry, nt, ntnq, blocks, SurfaceNeverMoved, dEFT>>

Done == step = "done" /\ UNCHANGED vars

Next ==
  /\ \/ AssembleT \/ SkipTransformation \/ ApplyTransformation \/ AssembleU
     \/ Factorize \/ ComputeQuantities \/ NextXiPoint \/ Accumulate \/ Done
  /\ UNCHANGED Driver

Spec == Init /\ [][Next]_vars

-----------------------------------------------------------------------------
\* The state has the shape the code gives it: blocks are unassembled or belong
\* to a frequency reached so far, the loops count within their bounds.
TypeOK ==
  /\ step \in {"frequency", "transformation", "blocks", "factorize", "quantities", "done"}
  /\ n \in 0..MaxXiPoints /\ nt \in 1..NT + 1 /\ ntnq \in 0..NTNQ
  /\ TBlocks \in [Surfaces -> Nat \cup {None}]
  /\ SurfaceNeverMoved \subseteq Surfaces
  /\ XiConverged \subseteq Slots
  /\ ConvergedIters \in [Slots -> 0..2]
  /\ \A p \in Pairs : UBlocks[p] # None => UBlocks[p].freq \in 0..n

\* All sums of the first transformation have converged, so that it is skipped.
FirstConverged == \A nq \in 1..NumQuantities : SlotOf(1, nq) \in XiConverged

\* A block that is reused although no transformation assembled it at this
\* frequency.
LeftOver(p) == FirstConverged /\ p[1] \in SurfaceNeverMoved /\ p[2] \in SurfaceNeverMoved

\* The matrix the quantities are computed from is that of this frequency and of
\* the geometry that this transformation, applied to the original state, gives
\* (doc/docs/reference/Transformations.md), whatever was reused or skipped; with
\* one exception, blocks that are left over from earlier frequencies.
MatrixCorrect ==
  step = "quantities" =>
    /\ \A ns \in Surfaces : M.T[ns] = n
    /\ \A p \in Pairs : M.U[p] = RightBlock(n, p, nt) \/ LeftOver(p)

\* A block is reused only if it was computed at this frequency.
ReusedAtThisFrequency ==
  step = "quantities" => \A p \in Pairs : M.U[p] = RightBlock(n, p, nt)
=============================================================================
