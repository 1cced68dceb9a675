------------------------- MODULE ScatterLoop_proof -------------------------
(***************************************************************************)
(* Proofs about ScatterLoop, for any geometries, .trans files, frequencies *)
(* and number of runs in one directory: the loops stay in their bounds,    *)
(* the matrix is the right one with the named exceptions, diagonal blocks  *)
(* are of their own surface as far as the name and size of a T-block file  *)
(* can tell, and a file that can be read is not written again.             *)
(***************************************************************************)
EXTENDS ScatterLoop, TLAPS

\* Between ApplyTransformation and Restore or Continue.
Working == step \in {"blocks", "stamp", "export", "restore"}

LEMMA Bounds ==
  /\ NS \in Nat /\ Surfaces \subseteq Nat
  /\ \A trans \in TransFiles :
       /\ Len(trans) \in Nat \ {0}
       /\ trans \in [1..Len(trans) -> SUBSET Surfaces]
<1>1. NS \in Nat /\ NT \in Nat /\ Surfaces \subseteq Nat
  BY GeometryAssumption DEF Surfaces
<1>2. ASSUME NEW trans \in TransFiles
      PROVE  /\ Len(trans) \in Nat \ {0}
             /\ trans \in [1..Len(trans) -> SUBSET Surfaces]
  <2>1. PICK k \in 1..NT : trans \in [1..k -> SUBSET Surfaces]
    BY GeometryAssumption DEF Transformations
  <2>2. trans \in Seq(SUBSET Surfaces) /\ Len(trans) = k
    BY <2>1, <1>1
  <2> QED BY <2>1, <2>2, <1>1
<1> QED BY <1>1, <1>2

-----------------------------------------------------------------------------
(* The loops.                                                              *)

LoopInv ==
  /\ step \in {"omega", "self", "transformation", "blocks", "stamp", "export", "restore",
               "rows", "done", "crashed"}
  /\ GTCs \in TransFiles /\ geo \in ScuffGeos
  /\ n \in 0..MaxOmega /\ nt \in 1..NumTransformations + 1 /\ ns0 \in 1..NS + 1
  /\ step \notin {"done", "crashed"} => n < MaxOmega
  /\ Working => nt <= NumTransformations
  /\ step \in {"rows", "crashed"} => ldos
  /\ step = "restore" => Solves
  /\ step \in {"blocks", "stamp"} => ~Single
  /\ step = "self" => nt = 1
  /\ step = "omega" /\ n = 0 => nt = 1
  /\ loaded \subseteq Surfaces /\ unread \subseteq Surfaces

LEMMA LoopInit == Init => LoopInv
<1> SUFFICES ASSUME Init PROVE LoopInv
  OBVIOUS
<1>1. GTCs \in TransFiles /\ NumTransformations \in Nat
  BY Bounds DEF Init, GeometryInit, NumTransformations
<1>2. step = "omega" /\ n = 0 /\ nt = 1 /\ ns0 = 1 /\ loaded = {} /\ unread = {}
      /\ geo \in ScuffGeos
  BY DEF Init, RunInit
<1> QED BY <1>1, <1>2, Bounds, LoopAssumption DEF LoopInv, Working

LEMMA LoopStep ==
  ASSUME LoopInv, [Next]_vars
  PROVE  LoopInv'
<1> USE DEF LoopInv, Working, Single, NumTransformations, Solves
<1>0. /\ NS \in Nat /\ MaxOmega \in Nat \ {0} /\ Len(GTCs) \in Nat /\ Len(GTCs) >= 1
      /\ n \in Nat /\ nt \in Nat /\ ns0 \in Nat
  BY Bounds, LoopAssumption
<1>1. CASE RunAgain
  <2>1. /\ step' = "omega" /\ n' = 0 /\ nt' = 1 /\ ns0' = 1 /\ loaded' = {} /\ unread' = {}
        /\ geo' \in ScuffGeos /\ UNCHANGED GTCs
    BY <1>1 DEF RunAgain
  <2> QED BY <2>1, <1>0
<1>2. CASE StartOmega
  BY <1>2, <1>0 DEF StartOmega, geometry, inputs
<1>3. CASE ReadSelf
  BY <1>3, <1>0 DEF ReadSelf, geometry, inputs, Surfaces
<1>4. CASE AssembleSelf
  <2>1. /\ ns0' = ns0 + 1 /\ step = "self" /\ ns0 <= NS
        /\ UNCHANGED <<GTCs, geo, ldos, NeedIncidentField, step, n, nt, loaded>>
        /\ unread' \subseteq unread \cup {ns0}
    BY <1>4 DEF AssembleSelf, geometry, inputs
  <2>2. ns0 \in Surfaces
    BY <2>1, <1>0 DEF Surfaces
  <2> QED BY <2>1, <2>2, <1>0
<1>5. CASE CopyMate
  BY <1>5, <1>0 DEF CopyMate, geometry, inputs, reads
<1>6. CASE AssembleRest
  BY <1>6, <1>0 DEF AssembleRest, geometry, inputs, reads
<1>7. CASE ApplyTransformation
  <2>1. GTCs' = GTCs
    BY <1>7 DEF ApplyTransformation, Transform, geometry
  <2> QED BY <1>7, <2>1, <1>0 DEF ApplyTransformation, inputs, reads
<1>8. CASE AssembleBlocks
  BY <1>8, <1>0 DEF AssembleBlocks, geometry, inputs, reads
<1>9. CASE Stamp
  BY <1>9, <1>0 DEF Stamp, geometry, inputs, reads
<1>10. CASE Continue
  BY <1>10, <1>0 DEF Continue, geometry, inputs, reads
<1>11. CASE LUFactorize
  BY <1>11, <1>0 DEF LUFactorize, geometry, inputs, reads
<1>12. CASE Restore
  <2>1. GTCs' = GTCs
    BY <1>12 DEF Restore, UnTransform, geometry
  <2> QED BY <1>12, <2>1, <1>0 DEF Restore, inputs, reads
<1>13. CASE StartOutput
  BY <1>13, <1>0 DEF StartOutput, geometry, inputs, reads
<1>14. CASE WriteRow
  <2>1. step = "rows" /\ nt <= Len(GTCs) /\ nt' \in {nt, nt + 1} /\ step' \in {"rows", "crashed"}
    BY <1>14 DEF WriteRow
  <2> QED BY <1>14, <2>1, <1>0 DEF WriteRow, geometry, inputs, reads
<1>15. CASE NextOmega
  BY <1>15, <1>0 DEF NextOmega, geometry, inputs, reads
<1>16. CASE UNCHANGED vars
  BY <1>16 DEF vars, loop, geometry, inputs, reads
<1> QED
  BY <1>1, <1>2, <1>3, <1>4, <1>5, <1>6, <1>7, <1>8, <1>9, <1>10, <1>11, <1>12, <1>13,
     <1>14, <1>15, <1>16 DEF Next, Stopped

-----------------------------------------------------------------------------
(* Where the surfaces are.                                                 *)

\* No transformation so far, of this frequency or an earlier one, moves the
\* surface.
Unmoved(ns) ==
  /\ \A k \in 1..nt - 1 : ns \notin GTCs[k]
  /\ n > 0 => \A k \in 1..NumTransformations : ns \notin GTCs[k]

\* What was done to the surface before was undone, or there was nothing to undo.
Clean(ns) == Solves \/ Unmoved(ns)

PlaceInv ==
  \A ns \in Surfaces :
    Clean(ns) => GT[ns] = IF Working /\ Applied THEN Place(ns, nt) ELSE <<>>

\* A run that solves is at home between the transformations.
HomeInv ==
  /\ GT = [ns \in Surfaces |-> GT[ns]]
  /\ PlaceInv

LEMMA PlaceInit == Init => HomeInv
BY DEF Init, RunInit, GeometryInit, Home, HomeInv, PlaceInv, Working

LEMMA PlaceStep ==
  ASSUME LoopInv, HomeInv, [Next]_vars
  PROVE  HomeInv'
<1> USE DEF HomeInv, PlaceInv, Clean, Unmoved, Working, Solves, Applied, Single, NumTransformations
<1>0. /\ Len(GTCs) \in Nat /\ Len(GTCs) >= 1 /\ n \in Nat /\ nt \in Nat
      /\ nt \in 1..Len(GTCs) + 1
  BY Bounds, LoopAssumption DEF LoopInv
<1>1. CASE RunAgain
  BY <1>1 DEF RunAgain, Home
<1>2. CASE StartOmega
  <2>1. step = "omega" /\ step' = "self" /\ n' = n /\ nt' = 1
        /\ UNCHANGED <<GT, GTCs, ldos, NeedIncidentField>>
    BY <1>2 DEF StartOmega, geometry, inputs
  <2>2. \A ns \in Surfaces : Clean(ns)' => Clean(ns)
    BY <2>1, <1>0 DEF LoopInv
  <2> QED BY <2>1, <2>2
<1>3. CASE ReadSelf
  BY <1>3, <1>0 DEF ReadSelf, geometry, inputs
<1>4. CASE AssembleSelf
  BY <1>4, <1>0 DEF AssembleSelf, geometry, inputs
<1>5. CASE CopyMate
  BY <1>5, <1>0 DEF CopyMate, geometry, inputs
<1>6. CASE AssembleRest
  BY <1>6, <1>0 DEF AssembleRest, geometry, inputs
<1>7. CASE ApplyTransformation
  <2>1. /\ step = "transformation" /\ step' \in {"blocks", "export"} /\ n' = n /\ nt' = nt
        /\ nt \in 1..Len(GTCs)
        /\ UNCHANGED <<GTCs, ldos, NeedIncidentField>>
    BY <1>7, <1>0 DEF ApplyTransformation, Transform, geometry, inputs
  <2>2. CASE Applied
    <3>1. GT' = [ns \in Surfaces |-> IF ns \in GTCs[nt] THEN Append(GT[ns], nt) ELSE GT[ns]]
      BY <1>7, <2>2 DEF ApplyTransformation, Transform
    <3>2. ASSUME NEW ns \in Surfaces, Clean(ns)
          PROVE  GT'[ns] = Place(ns, nt)
      <4>1. GT[ns] = <<>>
        BY <3>2, <2>1
      <4>2. Append(<<>>, nt) = <<nt>>
        OBVIOUS
      <4> QED BY <3>1, <4>1, <4>2 DEF Place
    <3> QED BY <2>1, <2>2, <3>1, <3>2 DEF Place
  <2>3. CASE ~Applied
    BY <1>7, <2>1, <2>3 DEF ApplyTransformation, geometry
  <2> QED BY <2>2, <2>3
<1>8. CASE AssembleBlocks
  BY <1>8, <1>0 DEF AssembleBlocks, geometry, inputs, Place
<1>9. CASE Stamp
  BY <1>9, <1>0 DEF Stamp, geometry, inputs, Place
<1>10. CASE Continue
  <2>1. /\ step = "export" /\ step' = "transformation" /\ n' = n /\ nt' = nt + 1 /\ ~Solves
        /\ UNCHANGED <<GT, GTCs, ldos, NeedIncidentField>>
    BY <1>10 DEF Continue, geometry, inputs
  <2>2. ASSUME NEW ns \in Surfaces, Clean(ns)'
        PROVE  Clean(ns) /\ Place(ns, nt) = <<>>
    BY <2>1, <2>2, <1>0 DEF Place
  <2> QED BY <2>1, <2>2
<1>11. CASE LUFactorize
  BY <1>11, <1>0 DEF LUFactorize, geometry, inputs, Place
<1>12. CASE Restore
  <2>1. /\ step = "restore" /\ step' = "transformation" /\ Solves
        /\ UNCHANGED <<GTCs, ldos, NeedIncidentField>>
    BY <1>12 DEF Restore, UnTransform, geometry, inputs, LoopInv
  <2>2. CASE Applied
    BY <1>12, <2>1, <2>2 DEF Restore, UnTransform, Home
  <2>3. CASE ~Applied
    BY <1>12, <2>1, <2>3 DEF Restore, geometry
  <2> QED BY <2>2, <2>3
<1>13. CASE StartOutput
  BY <1>13, <1>0 DEF StartOutput, geometry, inputs
<1>14. CASE WriteRow
  <2>1. /\ step = "rows" /\ step' \in {"rows", "crashed"} /\ Solves
        /\ UNCHANGED <<GT, GTCs, ldos, NeedIncidentField>>
    BY <1>14 DEF WriteRow, geometry, inputs, LoopInv
  <2> QED BY <2>1
<1>15. CASE NextOmega
  <2>1. /\ step \in {"rows", "transformation"} /\ step' \in {"omega", "done"}
        /\ n' = n + 1 /\ nt' = nt
        /\ UNCHANGED <<GT, GTCs, ldos, NeedIncidentField>>
    BY <1>15 DEF NextOmega, geometry, inputs
  <2>2. \A ns \in Surfaces : Clean(ns)' => Clean(ns)
    BY <2>1, <1>0
  <2> QED BY <2>1, <2>2
<1>16. CASE UNCHANGED vars
  BY <1>16 DEF vars, loop, geometry, inputs, Place
<1> QED
  BY <1>1, <1>2, <1>3, <1>4, <1>5, <1>6, <1>7, <1>8, <1>9, <1>10, <1>11, <1>12, <1>13,
     <1>14, <1>15, <1>16 DEF Next, Stopped

\* The loops stay in their bounds, and a run that solves starts every frequency
\* with all surfaces at home, for any geometries and .trans files.
THEOREM TypeCorrect == Spec => []TypeOK
<1>1. LoopInv /\ HomeInv /\ [Next]_vars => (LoopInv /\ HomeInv)'
  BY LoopStep, PlaceStep
<1>2. LoopInv /\ HomeInv => TypeOK
  <2> SUFFICES ASSUME LoopInv, HomeInv PROVE TypeOK
    OBVIOUS
  <2>1. ASSUME Solves, step \in {"omega", "self", "rows", "done"}
        PROVE  GT = Home
    BY <2>1 DEF HomeInv, PlaceInv, Clean, Working, Home
  <2> QED BY <2>1 DEF LoopInv, TypeOK
<1> QED BY LoopInit, PlaceInit, <1>1, <1>2, PTL DEF Spec
-----------------------------------------------------------------------------
(* The blocks that couple two surfaces.                                    *)

\* While a single transformation's matrix is in use, or several transformations'.
SingleMatrix == Single /\ (step = "export" \/ (step = "transformation" /\ nt = 1))

MatrixInv ==
  /\ M = [T |-> M.T, U |-> M.U, L |-> M.L] /\ M.T = [ns \in Surfaces |-> M.T[ns]]
  /\ step = "stamp" => U = UBlocks
  /\ step = "export" /\ ~Single =>
       M.U = UBlocks /\ M.L = [p \in Pairs |-> Adjoint(UBlocks[p])]
  /\ SingleMatrix =>
       \A p \in Pairs :
         /\ M.L[p] = Transposed(M.U[p])
         /\ Clean(p[1]) /\ Clean(p[2]) => M.U[p] = Block(n, <<>>, <<>>)
  /\ SingleMatrix => \A ns \in Surfaces : M.T[ns].below = M.T[ns].rest

LEMMA MatrixInit == Init => MatrixInv
<1> SUFFICES ASSUME Init PROVE MatrixInv
  OBVIOUS
<1>1. step = "omega" /\ M = EmptyMatrix
  BY DEF Init, RunInit
<1> QED BY <1>1 DEF MatrixInv, SingleMatrix, EmptyMatrix

\* What the assembly of one diagonal block does: the matrix of a single
\* transformation may be made symmetric at the same time.
Assembled(ns, block) ==
  /\ M' = [T |-> M'.T, U |-> M'.U, L |-> M'.L] /\ M'.T = [nsp \in Surfaces |-> M'.T[nsp]]
  /\ ~Single => M' = M
  /\ T' = IF Single THEN T ELSE [T EXCEPT ![ns] = block]
  /\ Single => /\ M'.T[ns] = block
               /\ \A nsp \in Surfaces \ {ns} : M'.T[nsp] \in {M.T[nsp], Symmetrized(M.T[nsp])}

LEMMA ComputeIs ==
  ASSUME MatrixInv, NEW ns \in Surfaces, Compute(ns)
  PROVE  Assembled(ns, Whole(Own(ns)))
<1>1. CASE Single
  <2> DEFINE N == [M EXCEPT !.T[ns] = Whole(Own(ns))]
  <2>1. M' = Symmetric(N) /\ UNCHANGED T
    BY <1>1 DEF Compute
  <2>2. N.T = [M.T EXCEPT ![ns] = Whole(Own(ns))]
    BY DEF MatrixInv
  <2>3. /\ M' = [T |-> M'.T, U |-> M'.U, L |-> M'.L]
        /\ M'.T = [nsp \in Surfaces |-> Symmetrized(N.T[nsp])]
    BY <2>1 DEF Symmetric
  <2>4. /\ N.T[ns] = Whole(Own(ns))
        /\ \A nsp \in Surfaces \ {ns} : N.T[nsp] = M.T[nsp]
    BY <2>2 DEF MatrixInv
  <2>5. Symmetrized(Whole(Own(ns))) = Whole(Own(ns))
    BY DEF Symmetrized, Whole
  <2> QED BY <1>1, <2>1, <2>3, <2>4, <2>5 DEF Assembled
<1>2. CASE ~Single
  BY <1>2 DEF Compute, Assembled, MatrixInv
<1> QED BY <1>1, <1>2

\* The block that ReadSelf makes.
ReadBlock(ns) ==
  [lead |-> files[FileName(ns)], below |-> files[FileName(ns)], rest |-> Held(ns).rest]

LEMMA ReadIs ==
  ASSUME MatrixInv, ns0 \in Surfaces, ReadSelf
  PROVE  Assembled(ns0, ReadBlock(ns0))
<1>1. CASE Single
  <2>1. M' = [M EXCEPT !.T[ns0] = ReadBlock(ns0)] /\ UNCHANGED T
    BY <1>1 DEF ReadSelf, ReadBlock
  <2>2. M'.T = [M.T EXCEPT ![ns0] = ReadBlock(ns0)]
    BY <2>1 DEF MatrixInv
  <2>3. M' = [T |-> M'.T, U |-> M'.U, L |-> M'.L]
    BY <2>1 DEF MatrixInv
  <2> QED BY <1>1, <2>1, <2>2, <2>3 DEF Assembled, MatrixInv
<1>2. CASE ~Single
  <2>1. T' = [T EXCEPT ![ns0] = ReadBlock(ns0)] /\ UNCHANGED M
    BY <1>2 DEF ReadSelf, ReadBlock
  <2> QED BY <1>2, <2>1 DEF Assembled, MatrixInv
<1> QED BY <1>1, <1>2

LEMMA MatrixStep ==
  ASSUME LoopInv, HomeInv, MatrixInv, [Next]_vars
  PROVE  MatrixInv'
<1> USE DEF MatrixInv, SingleMatrix, Single, NumTransformations
<1>0. /\ Len(GTCs) \in Nat /\ Len(GTCs) >= 1 /\ n \in Nat /\ nt \in Nat /\ ns0 \in Nat
      /\ NS \in Nat
  BY Bounds, LoopAssumption DEF LoopInv
<1>1. CASE RunAgain
  <2>1. step' = "omega" /\ M' = EmptyMatrix
    BY <1>1 DEF RunAgain
  <2> QED BY <2>1 DEF EmptyMatrix
<1>2. CASE StartOmega
  BY <1>2 DEF StartOmega
<1>3. CASE ReadSelf
  <2>1. ns0 \in Surfaces /\ step' = "self"
    BY <1>3, <1>0 DEF ReadSelf, LoopInv, Surfaces
  <2>2. Assembled(ns0, ReadBlock(ns0))
    BY <1>3, <2>1, ReadIs
  <2> QED BY <2>1, <2>2 DEF Assembled
<1>4. CASE AssembleSelf
  <2>1. step' = "self" /\ ns0 <= NS /\ Compute(ns0)
    BY <1>4 DEF AssembleSelf
  <2>2. ns0 \in Surfaces
    BY <2>1, <1>0 DEF LoopInv, Surfaces
  <2>3. Assembled(ns0, Whole(Own(ns0)))
    BY <2>1, <2>2, ComputeIs
  <2> QED BY <2>1, <2>3 DEF Assembled
<1>5. CASE CopyMate
  BY <1>5 DEF CopyMate
<1>6. CASE AssembleRest
  <2>1. /\ step = "self" /\ step' = "transformation" /\ nt' = nt /\ n' = n
        /\ UNCHANGED <<GT, GTCs, ldos, NeedIncidentField>>
        /\ M' = IF Single THEN Symmetric([M EXCEPT !.U = UBlocks]) ELSE M
    BY <1>6 DEF AssembleRest, geometry, inputs
  <2>2. ASSUME Single, NEW p \in Pairs
        PROVE  /\ M'.L[p] = Transposed(M'.U[p])
               /\ Clean(p[1])' /\ Clean(p[2])' => M'.U[p] = Block(n, <<>>, <<>>)
    <3>1. M'.U = UBlocks /\ M'.L[p] = Transposed(UBlocks[p])
      BY <2>1, <2>2 DEF Symmetric
    <3>2. p[1] \in Surfaces /\ p[2] \in Surfaces
      BY DEF Pairs
    <3>3. ASSUME NEW ns \in Surfaces, Clean(ns)'
          PROVE  GT[ns] = <<>>
      <4>1. Clean(ns)
        BY <2>1, <3>3 DEF Clean, Unmoved, Solves
      <4> QED BY <2>1, <4>1 DEF HomeInv, PlaceInv, Working
    <3> QED BY <3>1, <3>2, <3>3 DEF UBlocks, BlockAt, Transposed
  <2>3. ASSUME SingleMatrix' PROVE Single
    BY <2>1, <2>3
  <2>4. /\ M' = [T |-> M'.T, U |-> M'.U, L |-> M'.L]
        /\ M'.T = [ns \in Surfaces |-> M'.T[ns]]
    BY <2>1 DEF Symmetric
  <2>5. Single => \A ns \in Surfaces : M'.T[ns].below = M'.T[ns].rest
    BY <2>1 DEF Symmetric, Symmetrized
  <2> QED BY <2>1, <2>2, <2>3, <2>4, <2>5 DEF Transposed
<1>7. CASE ApplyTransformation
  <2>1. /\ step = "transformation" /\ step' = (IF Single THEN "export" ELSE "blocks")
        /\ n' = n /\ nt' = nt /\ nt \in 1..Len(GTCs) /\ M' = M
        /\ UNCHANGED <<GTCs, ldos, NeedIncidentField>>
    BY <1>7, <1>0 DEF ApplyTransformation, Transform, geometry, inputs, LoopInv
  <2>2. CASE Single
    <3>1. nt = 1 /\ SingleMatrix
      BY <2>1, <2>2, <1>0
    <3>2. \A ns \in Surfaces : Clean(ns)' => Clean(ns)
      BY <2>1 DEF Clean, Unmoved, Solves
    <3>3. \A p \in Pairs : p[1] \in Surfaces /\ p[2] \in Surfaces
      BY DEF Pairs
    <3> QED BY <2>1, <2>2, <3>1, <3>2, <3>3 DEF Transposed
  <2>3. CASE ~Single
    BY <2>1, <2>3
  <2> QED BY <2>2, <2>3
<1>8. CASE AssembleBlocks
  <2>1. step' = "stamp" /\ M' = M /\ U' = UBlocks /\ n' = n /\ UNCHANGED GT
    BY <1>8 DEF AssembleBlocks, geometry
  <2> QED BY <2>1 DEF UBlocks, BlockAt
<1>9. CASE Stamp
  <2>1. /\ step = "stamp" /\ step' = "export" /\ n' = n /\ UNCHANGED <<GT, GTCs>>
        /\ M'.T = [ns \in Surfaces |-> T[Owner(ns)]] /\ M'.U = U
        /\ M'.L = [p \in Pairs |-> Adjoint(U[p])]
        /\ M' = [T |-> M'.T, U |-> M'.U, L |-> M'.L]
    BY <1>9 DEF Stamp, geometry
  <2>2. ~Single' /\ UBlocks' = UBlocks /\ U = UBlocks
    BY <2>1 DEF LoopInv, UBlocks, BlockAt
  <2> QED BY <2>1, <2>2 DEF Adjoint, Transposed
<1>10. CASE Continue
  BY <1>10, <1>0 DEF Continue, LoopInv
<1>11. CASE LUFactorize
  BY <1>11 DEF LUFactorize, EmptyMatrix
<1>12. CASE Restore
  BY <1>12, <1>0 DEF Restore, LoopInv
<1>13. CASE StartOutput
  BY <1>13 DEF StartOutput
<1>14. CASE WriteRow
  <2>1. step' \in {"rows", "crashed"} /\ M' = M
    BY <1>14 DEF WriteRow
  <2> QED BY <2>1
<1>15. CASE NextOmega
  BY <1>15 DEF NextOmega
<1>16. CASE UNCHANGED vars
  <2>1. UNCHANGED <<step, n, nt, GT, GTCs, ldos, NeedIncidentField, M, U>>
    BY <1>16 DEF vars, loop, geometry, inputs
  <2> QED BY <2>1 DEF UBlocks, BlockAt, Adjoint, Transposed, Clean, Unmoved, Solves
<1> QED
  BY <1>1, <1>2, <1>3, <1>4, <1>5, <1>6, <1>7, <1>8, <1>9, <1>10, <1>11, <1>12, <1>13,
     <1>14, <1>15, <1>16 DEF Next, Stopped

\* A surface that is not moved by what went before is where the transformation
\* puts it; one that was moved is named by an exception.
LEMMA MatrixFollows ==
  ASSUME LoopInv, HomeInv, MatrixInv
  PROVE  MatrixRight
<1> SUFFICES ASSUME InUse, NEW p \in Pairs
             PROVE  /\ M.U[p] = RightBlock(n, p, nt) \/ TooLate(p) \/ Accumulated(p)
                    /\ M.L[p].of = M.U[p]
                    /\ M.L[p].how = "transpose" \/ Conjugated
  BY DEF MatrixRight
<1> USE DEF InUse
<1>0. /\ Len(GTCs) \in Nat /\ Len(GTCs) >= 1 /\ n \in Nat /\ nt \in 1..Len(GTCs)
      /\ p[1] \in Surfaces /\ p[2] \in Surfaces
  BY Bounds, LoopAssumption DEF LoopInv, Working, Pairs, NumTransformations
<1>1. ~(Clean(p[1]) /\ Clean(p[2])) => Accumulated(p)
  BY <1>0 DEF Clean, Unmoved, Accumulated, Moves, NumTransformations
<1>2. CASE Single
  <2>1. nt = 1
    BY <1>0, <1>2 DEF Single, NumTransformations
  <2>2. /\ M.L[p] = Transposed(M.U[p])
        /\ Clean(p[1]) /\ Clean(p[2]) => M.U[p] = Block(n, <<>>, <<>>)
    BY <1>2 DEF MatrixInv, SingleMatrix
  <2>3. ~TooLate(p) => RightBlock(n, p, nt) = Block(n, <<>>, <<>>)
    BY <2>1, <1>2 DEF TooLate, Moves, RightBlock, Place
  <2> QED BY <1>1, <2>2, <2>3 DEF Transposed
<1>3. CASE ~Single
  <2>1. M.U = UBlocks /\ M.L = [q \in Pairs |-> Adjoint(UBlocks[q])]
    BY <1>3 DEF MatrixInv
  <2>2. Clean(p[1]) /\ Clean(p[2]) => UBlocks[p] = RightBlock(n, p, nt)
    BY <1>0, <1>3 DEF HomeInv, PlaceInv, Working, Applied, UBlocks, BlockAt, RightBlock
  <2> QED BY <1>1, <1>3, <2>1, <2>2 DEF Adjoint, Transposed, Conjugated
<1> QED BY <1>2, <1>3

\* For any geometries, .trans file and frequencies the blocks that couple two
\* surfaces are of this frequency and of the transformation applied to the
\* original state, with the exceptions the property names.
THEOREM MatrixIsRight == Spec => []MatrixRight
<1>1. LoopInv /\ HomeInv /\ MatrixInv /\ [Next]_vars => (LoopInv /\ HomeInv /\ MatrixInv)'
  BY LoopStep, PlaceStep, MatrixStep
<1>2. LoopInv /\ HomeInv /\ MatrixInv => MatrixRight
  BY MatrixFollows
<1> QED BY LoopInit, PlaceInit, MatrixInit, <1>1, <1>2, PTL DEF Spec
-----------------------------------------------------------------------------
(* The diagonal blocks and their files.                                    *)

\* What a complete file of this name may contain.
Contents(f) ==
  { Self(k, mesh, mat) : k \in { j \in Omegas : Printed[j] = f[2] },
                         mesh \in { m \in Meshes : FileBase[m] = f[1] }, mat \in Materials }

FileInv == \A f \in FileNames : Complete(f) => files[f] \in Contents(f)

\* What SelfBlocksRight says of a block of surface ns.
Good(ns, block) ==
  IF Owner(ns) \in loaded
    THEN block.lead \in SameName(ns) /\ (~Single => block.below = block.lead)
    ELSE block = Whole(Own(ns))

SelfInv ==
  /\ files = [f \in FileNames |-> files[f]]
  /\ T = [ns \in Surfaces |-> T[ns]]
  /\ step = "self" =>
       /\ loaded \subseteq 1..ns0 - 1
       /\ \A ns \in 1..ns0 - 1 : Good(ns, IF Single THEN M.T[ns] ELSE T[Owner(ns)])
  /\ ~Single /\ (step = "transformation" \/ Working) =>
       \A ns \in Surfaces : Good(ns, T[Owner(ns)])
  /\ SingleMatrix \/ step = "export" => \A ns \in Surfaces : Good(ns, M.T[ns])

\* A mate has no mate, comes earlier and is a duplicate.
LEMMA OwnerIs ==
  ASSUME LoopInv, NEW ns \in Surfaces
  PROVE  /\ Owner(ns) \in 1..ns /\ Owner(ns) \in Surfaces
         /\ ~HasMate(Owner(ns)) /\ Owner(Owner(ns)) = Owner(ns)
         /\ HasMate(ns) => Owner(ns) \in 1..ns - 1
         /\ Own(Owner(ns)) = Own(ns) /\ SameName(Owner(ns)) = SameName(ns)
<1>1. ns \in Nat /\ ns >= 1 /\ NS \in Nat /\ ns <= NS
  BY Bounds DEF Surfaces
<1>2. MateOK(geo) /\ geo.mate \in [Surfaces -> Nat]
  BY LoopAssumption DEF LoopInv
<1>3. CASE ~HasMate(ns)
  BY <1>1, <1>3 DEF Owner
<1>4. CASE HasMate(ns)
  <2> DEFINE m == geo.mate[ns]
  <2>1. m \in 1..ns - 1 /\ Duplicate(geo, ns, m) /\ Owner(ns) = m
    BY <1>1, <1>2, <1>4 DEF MateOK, HasMate, Owner
  <2>2. m \in Surfaces
    BY <1>1, <2>1 DEF Surfaces
  <2>3. geo.mate[m] = 0
    <3>1. SUFFICES ASSUME geo.mate[m] # 0 PROVE FALSE
      OBVIOUS
    <3>2. geo.mate[m] \in 1..m - 1 /\ Duplicate(geo, m, geo.mate[m])
      BY <1>1, <1>2, <2>1, <2>2, <3>1 DEF MateOK
    <3>3. Duplicate(geo, ns, geo.mate[m]) /\ geo.mate[m] \in 1..ns - 1
      BY <1>1, <2>1, <3>2 DEF Duplicate
    <3>4. m \in 1..geo.mate[m]
      BY <1>2, <3>3 DEF MateOK
    <3> QED BY <1>1, <2>1, <3>2, <3>4
  <2>4. Own(m) = Own(ns) /\ SameName(m) = SameName(ns)
    BY <2>1 DEF Duplicate, Own, SameName
  <2> QED BY <1>1, <2>1, <2>2, <2>3, <2>4 DEF HasMate, Owner
<1> QED BY <1>3, <1>4

LEMMA SelfInit == Init => SelfInv /\ FileInv
<1> SUFFICES ASSUME Init PROVE SelfInv /\ FileInv
  OBVIOUS
<1>1. /\ step = "omega" /\ files = [f \in FileNames |-> Absent]
      /\ T = [ns \in Surfaces |-> Whole(None)]
  BY DEF Init, RunInit
<1>2. \A f \in FileNames : ~Complete(f)
  BY <1>1 DEF Complete
<1> QED BY <1>1, <1>2 DEF SelfInv, FileInv, SingleMatrix, Working

\* The name of the file of a surface, and what a file of that name contains.
LEMMA NameIs ==
  ASSUME LoopInv, n < MaxOmega, NEW ns \in Surfaces
  PROVE  /\ FileName(ns) \in FileNames /\ Own(ns) \in Contents(FileName(ns))
         /\ FileInv /\ Fits(ns) => files[FileName(ns)] \in SameName(ns)
<1>1. n \in Omegas
  BY LoopAssumption DEF LoopInv, Omegas
<1>2. geo.mesh[ns] \in Meshes /\ geo.material[ns] \in Materials
  BY LoopAssumption DEF LoopInv
<1>3. FileName(ns) \in FileNames /\ Own(ns) \in Contents(FileName(ns))
  BY <1>1, <1>2 DEF FileName, FileNames, Contents, Own
<1>4. ASSUME FileInv, Fits(ns)
      PROVE  files[FileName(ns)] \in SameName(ns)
  <2> DEFINE block == files[FileName(ns)]
  <2>1. block \in Contents(FileName(ns)) /\ NumBFs[block.mesh] = NumBFs[geo.mesh[ns]]
    BY <1>3, <1>4 DEF FileInv, Fits
  <2>2. PICK k \in Omegas, mesh \in Meshes, mat \in Materials :
          /\ block = Self(k, mesh, mat) /\ Printed[k] = Printed[n]
          /\ FileBase[mesh] = FileBase[geo.mesh[ns]]
    BY <2>1 DEF Contents, FileName
  <2>3. NumBFs[mesh] = NumBFs[geo.mesh[ns]]
    BY <2>1, <2>2 DEF Self
  <2> QED BY <2>2, <2>3 DEF SameName
<1> QED BY <1>3, <1>4

LEMMA FileStep ==
  ASSUME LoopInv, SelfInv, FileInv, [Next]_vars
  PROVE  FileInv'
<1>1. CASE AssembleSelf
  <2>1. ns0 \in Surfaces /\ step = "self"
    <3>1. step = "self" /\ ns0 <= NS
      BY <1>1 DEF AssembleSelf
    <3> QED BY <3>1, Bounds DEF LoopInv, Surfaces
  <2>2. FileName(ns0) \in FileNames /\ Own(ns0) \in Contents(FileName(ns0))
    BY <2>1, NameIs DEF LoopInv
  <2>3. CASE UNCHANGED files
    BY <2>3 DEF FileInv, Complete
  <2>4. ASSUME NEW content \in {Own(ns0), Torn}, files' = [files EXCEPT ![FileName(ns0)] = content]
        PROVE  FileInv'
    <3> SUFFICES ASSUME NEW f \in FileNames, Complete(f)'
                 PROVE  files'[f] \in Contents(f)
      BY DEF FileInv
    <3>1. CASE f = FileName(ns0)
      BY <2>2, <2>4, <3>1 DEF SelfInv, Complete
    <3>2. CASE f # FileName(ns0)
      BY <2>4, <3>2 DEF SelfInv, FileInv, Complete
    <3> QED BY <3>1, <3>2
  <2> QED BY <1>1, <2>3, <2>4 DEF AssembleSelf, WriteSelf
<1>2. CASE UNCHANGED files
  BY <1>2 DEF FileInv, Complete
<1>3. CASE UNCHANGED vars
  BY <1>3, <1>2 DEF vars
<1> QED
  BY <1>1, <1>2, <1>3 DEF Next, Stopped, RunAgain, StartOmega, ReadSelf, CopyMate, AssembleRest,
     ApplyTransformation, AssembleBlocks, Stamp, Continue, LUFactorize, Restore, StartOutput,
     WriteRow, NextOmega

\* The assembly of one more diagonal block.
LEMMA SelfAssembled ==
  ASSUME LoopInv, MatrixInv, SelfInv,
         step = "self", ns0 <= NS, ~HasMate(ns0), NEW block, Assembled(ns0, block),
         n' = n, ns0' = ns0 + 1, step' = step, UNCHANGED <<GTCs, geo>>,
         loaded' \in {loaded, loaded \cup {ns0}},
         IF ns0 \in loaded' THEN block.lead \in SameName(ns0) /\ block.below = block.lead
                            ELSE block = Whole(Own(ns0))
  PROVE  /\ T' = [ns \in Surfaces |-> T'[ns]]
         /\ loaded' \subseteq 1..ns0' - 1
         /\ \A ns \in 1..ns0' - 1 : Good(ns, IF Single THEN M.T[ns] ELSE T[Owner(ns)])'
<1>0. NS \in Nat /\ ns0 \in Nat /\ ns0 >= 1 /\ ns0 \in Surfaces
  BY Bounds DEF LoopInv, Surfaces
<1>1. /\ T' = IF Single THEN T ELSE [T EXCEPT ![ns0] = block]
      /\ Single' = Single
  BY DEF Assembled, Single, NumTransformations
<1>2. \A ns : Owner(ns)' = Owner(ns) /\ Own(ns)' = Own(ns) /\ SameName(ns)' = SameName(ns)
  BY DEF Owner, HasMate, Own, SameName
<1>3. loaded' \subseteq 1..ns0' - 1
  BY <1>0 DEF SelfInv
<1>4. ASSUME NEW ns \in 1..ns0' - 1
      PROVE  Good(ns, IF Single THEN M.T[ns] ELSE T[Owner(ns)])'
  <2>1. ns \in Surfaces /\ ns \in 1..ns0
    BY <1>0 DEF Surfaces
  <2>2. CASE ns = ns0
    <3>1. Owner(ns0) = ns0
      BY DEF Owner
    <3>2. (IF Single THEN M.T[ns] ELSE T[Owner(ns)])' = block
      BY <1>0, <1>1, <1>2, <2>2, <3>1 DEF Assembled, SelfInv
    <3> QED BY <1>1, <1>2, <2>2, <3>1, <3>2 DEF Good
  <2>3. CASE ns # ns0
    <3>1. ns \in 1..ns0 - 1 /\ Owner(ns) # ns0
      BY <1>0, <2>1, <2>3, OwnerIs
    <3>2. Good(ns, IF Single THEN M.T[ns] ELSE T[Owner(ns)])
      BY <3>1 DEF SelfInv
    <3>3. Owner(ns) \in loaded' <=> Owner(ns) \in loaded
      BY <3>1
    <3>4. CASE Single
      <4>1. M'.T[ns] \in {M.T[ns], Symmetrized(M.T[ns])}
        BY <2>1, <2>3, <3>4 DEF Assembled
      <4>2. Good(ns, M.T[ns]) => Good(ns, Symmetrized(M.T[ns]))
        BY <3>4 DEF Good, Symmetrized, Whole
      <4>3. Good(ns, M'.T[ns])
        BY <3>2, <3>4, <4>1, <4>2
      <4> QED BY <1>1, <1>2, <3>3, <3>4, <4>3 DEF Good
    <3>5. CASE ~Single
      <4>1. T'[Owner(ns)] = T[Owner(ns)]
        BY <1>1, <2>1, <3>1, <3>5, OwnerIs DEF SelfInv
      <4> QED BY <1>1, <1>2, <3>2, <3>3, <3>5, <4>1 DEF Good
    <3> QED BY <3>4, <3>5
  <2> QED BY <2>2, <2>3
<1>5. T' = [ns \in Surfaces |-> T'[ns]]
  BY <1>1 DEF SelfInv
<1> QED BY <1>3, <1>4, <1>5

LEMMA SelfStep ==
  ASSUME LoopInv, MatrixInv, SelfInv, FileInv, [Next]_vars
  PROVE  SelfInv'
<1> USE DEF Working, SingleMatrix
<1>0. /\ Len(GTCs) \in Nat /\ Len(GTCs) >= 1 /\ n \in Nat /\ nt \in Nat /\ ns0 \in Nat
      /\ NS \in Nat /\ Surfaces = 1..NS
  BY Bounds, LoopAssumption DEF LoopInv, Surfaces
<1>a. ASSUME UNCHANGED <<n, loaded, geo, GTCs>>, NEW ns, NEW block
      PROVE  Good(ns, block)' <=> Good(ns, block')
  BY <1>a DEF Good, Owner, HasMate, SameName, Own, Single, NumTransformations
<1>b. ASSUME UNCHANGED <<n, loaded, geo, GTCs, T>>, NEW ns
      PROVE  Good(ns, T[Owner(ns)])' <=> Good(ns, T[Owner(ns)])
  BY <1>b DEF Good, Owner, HasMate, SameName, Own, Single, NumTransformations
<1>c. ASSUME UNCHANGED <<n, loaded, geo, GTCs, M>>, NEW ns
      PROVE  Good(ns, M.T[ns])' <=> Good(ns, M.T[ns])
  BY <1>c DEF Good, Owner, HasMate, SameName, Own, Single, NumTransformations
<1>d. UNCHANGED GTCs => Single' = Single
  BY DEF Single, NumTransformations
<1>1. CASE RunAgain
  <2>1. step' = "omega" /\ T' = [ns \in Surfaces |-> Whole(None)] /\ UNCHANGED files
    BY <1>1 DEF RunAgain
  <2> QED BY <2>1 DEF SelfInv
<1>2. CASE StartOmega
  <2>1. /\ step' = "self" /\ ns0' = 1 /\ loaded' = {} /\ UNCHANGED <<files, T>>
    BY <1>2 DEF StartOmega
  <2> QED BY <2>1 DEF SelfInv
<1>3. CASE ReadSelf
  <2>1. /\ step = "self" /\ ns0 <= NS /\ ~HasMate(ns0)
        /\ n' = n /\ ns0' = ns0 + 1 /\ step' = step /\ UNCHANGED <<GTCs, geo, files>>
        /\ loaded' = loaded \cup {ns0} /\ Fits(ns0)
    BY <1>3 DEF ReadSelf, geometry, inputs
  <2>2. ns0 \in Surfaces /\ files[FileName(ns0)] \in SameName(ns0)
    BY <2>1, <1>0, NameIs DEF LoopInv
  <2> DEFINE block == ReadBlock(ns0)
  <2>3. /\ ns0 \in loaded' /\ block.lead \in SameName(ns0) /\ block.below = block.lead
        /\ Assembled(ns0, block)
    BY <1>3, <2>1, <2>2, ReadIs DEF ReadBlock
  <2> HIDE DEF block
  <2>4. /\ T' = [ns \in Surfaces |-> T'[ns]]
        /\ loaded' \subseteq 1..ns0' - 1
        /\ \A ns \in 1..ns0' - 1 : Good(ns, IF Single THEN M.T[ns] ELSE T[Owner(ns)])'
    BY <2>1, <2>3, SelfAssembled
  <2> QED BY <2>1, <2>4 DEF SelfInv
<1>4. CASE AssembleSelf
  <2>1. /\ step = "self" /\ ns0 <= NS /\ ~HasMate(ns0)
        /\ n' = n /\ ns0' = ns0 + 1 /\ step' = step /\ UNCHANGED <<GTCs, geo, loaded>>
        /\ Compute(ns0)
    BY <1>4 DEF AssembleSelf, geometry, inputs
  <2>2. files' = [f \in FileNames |-> files'[f]]
    BY <1>4 DEF AssembleSelf, WriteSelf, SelfInv
  <2>3. ns0 \notin loaded' /\ Assembled(ns0, Whole(Own(ns0)))
    BY <2>1, <1>0, ComputeIs DEF SelfInv, LoopInv
  <2>4. /\ T' = [ns \in Surfaces |-> T'[ns]]
        /\ loaded' \subseteq 1..ns0' - 1
        /\ \A ns \in 1..ns0' - 1 : Good(ns, IF Single THEN M.T[ns] ELSE T[Owner(ns)])'
    BY <2>1, <2>3, SelfAssembled
  <2> QED BY <2>1, <2>2, <2>4 DEF SelfInv
<1>5. CASE CopyMate
  <2>1. /\ step = "self" /\ ns0 <= NS /\ HasMate(ns0)
        /\ ns0' = ns0 + 1 /\ step' = step /\ UNCHANGED <<GTCs, geo, loaded, n, T, files>>
        /\ M' = IF Single THEN [M EXCEPT !.T[ns0] = M.T[geo.mate[ns0]]] ELSE M
    BY <1>5 DEF CopyMate, geometry, inputs, reads
  <2>2. ns0 \in Surfaces /\ Owner(ns0) = geo.mate[ns0] /\ Owner(ns0) \in 1..ns0 - 1
    BY <2>1, <1>0, OwnerIs DEF Owner, LoopInv
  <2>a. \A ns : Owner(ns)' = Owner(ns) /\ Own(ns)' = Own(ns) /\ SameName(ns)' = SameName(ns)
    BY <2>1 DEF Owner, HasMate, Own, SameName
  <2>b. Single' = Single
    BY <2>1, <1>d
  <2>3. ASSUME NEW ns \in 1..ns0' - 1
        PROVE  Good(ns, IF Single THEN M.T[ns] ELSE T[Owner(ns)])'
    <3>1. ns \in Surfaces /\ ns \in 1..ns0
      BY <2>1, <1>0
    <3>2. CASE ns # ns0
      <4>1. ns \in 1..ns0 - 1 /\ M'.T[ns] = M.T[ns]
        BY <2>1, <3>1, <3>2, <1>0 DEF MatrixInv
      <4>2. Good(ns, IF Single THEN M.T[ns] ELSE T[Owner(ns)])
        BY <2>1, <4>1 DEF SelfInv
      <4> QED BY <2>1, <4>1, <4>2, <2>a, <2>b DEF Good
    <3>3. CASE ns = ns0
      <4>1. Good(Owner(ns0), IF Single THEN M.T[Owner(ns0)] ELSE T[Owner(Owner(ns0))])
        BY <2>1, <2>2 DEF SelfInv
      <4>2. Good(ns0, IF Single THEN M.T[Owner(ns0)] ELSE T[Owner(ns0)])
        BY <4>1, <2>2, OwnerIs DEF Good
      <4>3. Single => M'.T[ns0] = M.T[Owner(ns0)]
        BY <2>1, <2>2 DEF MatrixInv
      <4> QED BY <2>1, <3>3, <4>2, <4>3, <2>a, <2>b DEF Good
    <3> QED BY <3>2, <3>3
  <2>4. loaded' \subseteq 1..ns0' - 1
    BY <2>1, <1>0 DEF SelfInv
  <2> QED BY <2>1, <2>3, <2>4 DEF SelfInv
<1>6. CASE AssembleRest
  <2>1. /\ step = "self" /\ ns0 > NS /\ step' = "transformation"
        /\ UNCHANGED <<GTCs, geo, loaded, n, nt, T, files>>
    BY <1>6 DEF AssembleRest, geometry, inputs, reads
  <2>2. \A ns \in Surfaces : Good(ns, IF Single THEN M.T[ns] ELSE T[Owner(ns)])
    <3>1. \A ns \in Surfaces : ns \in 1..ns0 - 1
      BY <2>1, <1>0
    <3> QED BY <2>1, <3>1 DEF SelfInv
  <2>3. ASSUME Single, NEW ns \in Surfaces
        PROVE  Good(ns, M.T[ns])'
    <3>1. M'.T[ns] = Symmetrized(M.T[ns])
      BY <1>6, <2>3 DEF AssembleRest, Symmetric, MatrixInv
    <3>2. Good(ns, Symmetrized(M.T[ns]))
      BY <2>2, <2>3 DEF Good, Symmetrized, Whole
    <3> QED BY <2>1, <3>1, <3>2 DEF Good, Owner, HasMate, SameName, Own, Single, NumTransformations
  <2>4. ASSUME ~Single, NEW ns \in Surfaces
        PROVE  Good(ns, T[Owner(ns)])'
    BY <2>1, <2>2, <2>4, <1>b
  <2> QED BY <2>1, <2>3, <2>4, <1>d DEF SelfInv
<1>7. CASE ApplyTransformation
  <2>1. /\ step = "transformation" /\ step' = (IF Single THEN "export" ELSE "blocks")
        /\ nt' = nt /\ nt \in 1..Len(GTCs)
        /\ UNCHANGED <<GTCs, geo, loaded, n, T, M, files>>
    BY <1>7, <1>0 DEF ApplyTransformation, Transform, geometry, inputs, reads, LoopInv, NumTransformations
  <2>2. Single => SingleMatrix
    BY <2>1, <1>0 DEF Single, NumTransformations
  <2> QED BY <2>1, <2>2, <1>b, <1>c, <1>d DEF SelfInv
<1>8. CASE AssembleBlocks
  <2>1. /\ step = "blocks" /\ step' = "stamp" /\ UNCHANGED <<GTCs, geo, loaded, n, nt, T, M, files>>
    BY <1>8 DEF AssembleBlocks, geometry, inputs, reads
  <2> QED BY <2>1, <1>b, <1>c, <1>d DEF SelfInv
<1>9. CASE Stamp
  <2>1. /\ step = "stamp" /\ step' = "export" /\ UNCHANGED <<GTCs, geo, loaded, n, nt, T, files>>
        /\ M'.T = [ns \in Surfaces |-> T[Owner(ns)]]
    BY <1>9 DEF Stamp, geometry, inputs, reads
  <2>2. \A ns \in Surfaces : Good(ns, T[Owner(ns)])
    BY <2>1 DEF SelfInv, LoopInv
  <2>a. \A ns : Owner(ns)' = Owner(ns) /\ Own(ns)' = Own(ns) /\ SameName(ns)' = SameName(ns)
    BY <2>1 DEF Owner, HasMate, Own, SameName
  <2>b. Single' = Single
    BY <2>1, <1>d
  <2>3. \A ns \in Surfaces : Good(ns, M.T[ns])'
    BY <2>1, <2>2, <2>a, <2>b DEF Good
  <2> QED BY <2>1, <2>2, <2>3, <1>b, <1>d DEF SelfInv
<1>10. CASE Continue
  <2>1. /\ step = "export" /\ step' = "transformation" /\ nt' = nt + 1
        /\ UNCHANGED <<GTCs, geo, loaded, n, T, M, files>>
    BY <1>10 DEF Continue, geometry, inputs, reads
  <2> QED BY <2>1, <1>0, <1>b, <1>c, <1>d DEF SelfInv
<1>11. CASE LUFactorize
  <2>1. /\ step = "export" /\ step' = "restore"
        /\ UNCHANGED <<GTCs, geo, loaded, n, nt, T, files>>
    BY <1>11 DEF LUFactorize, geometry, inputs, reads
  <2> QED BY <2>1, <1>b, <1>d DEF SelfInv
<1>12. CASE Restore
  <2>1. /\ step = "restore" /\ step' = "transformation" /\ nt' = nt + 1 /\ nt \in 1..Len(GTCs)
        /\ UNCHANGED <<GTCs, geo, loaded, n, T, M, files>>
    BY <1>12, <1>0 DEF Restore, UnTransform, geometry, inputs, reads, LoopInv, NumTransformations
  <2>2. ~SingleMatrix' /\ step' # "export"
    BY <2>1, <1>0
  <2> QED BY <2>1, <2>2, <1>b, <1>d DEF SelfInv
<1>13. CASE StartOutput
  BY <1>13 DEF StartOutput, SelfInv
<1>14. CASE WriteRow
  <2>1. step' \in {"rows", "crashed"} /\ UNCHANGED <<T, files>>
    BY <1>14 DEF WriteRow
  <2> QED BY <2>1 DEF SelfInv
<1>15. CASE NextOmega
  BY <1>15 DEF NextOmega, SelfInv
<1>16. CASE UNCHANGED vars
  <2>1. UNCHANGED <<step, n, nt, ns0, GTCs, geo, loaded, T, M, files>>
    BY <1>16 DEF vars, loop, geometry, inputs, reads
  <2>2. \A ns : Good(ns, IF Single THEN M.T[ns] ELSE T[Owner(ns)])'
                <=> Good(ns, IF Single THEN M.T[ns] ELSE T[Owner(ns)])
    BY <2>1, <1>d DEF Good, Owner, HasMate, SameName, Own, Single, NumTransformations
  <2> QED BY <2>1, <2>2, <1>b, <1>c, <1>d DEF SelfInv
<1> QED
  BY <1>1, <1>2, <1>3, <1>4, <1>5, <1>6, <1>7, <1>8, <1>9, <1>10, <1>11, <1>12, <1>13,
     <1>14, <1>15, <1>16 DEF Next, Stopped

\* For any geometries, materials, frequencies and runs in one directory, a
\* diagonal block is that of its surface or, where it was read and not
\* overwritten since, what the name and size of its file tell.
THEOREM SelfBlocksAreRight == Spec => []SelfBlocksRight
<1>1. LoopInv /\ HomeInv /\ MatrixInv /\ SelfInv /\ FileInv /\ [Next]_vars
        => (LoopInv /\ HomeInv /\ MatrixInv /\ SelfInv /\ FileInv)'
  BY LoopStep, PlaceStep, MatrixStep, SelfStep, FileStep
<1>2. SelfInv /\ MatrixInv => SelfBlocksRight
  BY DEF SelfInv, SelfBlocksRight, Good, InUse, MatrixInv, SingleMatrix
<1> QED BY LoopInit, PlaceInit, MatrixInit, SelfInit, <1>1, <1>2, PTL DEF Spec

\* However many runs there are, a T-block file is written only for a surface
\* that it does not fit or that could not read it, with the block of this surface.
THEOREM FilesAreKept == Spec => FilesKept
<1>1. LoopInv /\ SelfInv /\ [Next]_vars
        => [\A f \in FileNames :
              files'[f] # files[f] =>
                \E ns \in Surfaces \ loaded : /\ FileName(ns) = f
                                             /\ Fits(ns) => ns \in unread'
                                             /\ files'[f] \in {Own(ns), Torn}]_vars
  <2> SUFFICES ASSUME LoopInv, SelfInv, Next, NEW f \in FileNames, files'[f] # files[f]
               PROVE  \E ns \in Surfaces \ loaded :
                        /\ FileName(ns) = f
                        /\ Fits(ns) => ns \in unread'
                        /\ files'[f] \in {Own(ns), Torn}
    OBVIOUS
  <2>1. CASE AssembleSelf
    <3>1. step = "self" /\ ns0 <= NS /\ WriteSelf(ns0) /\ (Fits(ns0) => ns0 \in unread')
      BY <2>1 DEF AssembleSelf
    <3>2. ns0 \in Surfaces \ loaded
      BY <3>1, Bounds DEF LoopInv, SelfInv, Surfaces
    <3>3. PICK content \in {Own(ns0), Torn} : files' = [files EXCEPT ![FileName(ns0)] = content]
      BY <3>1 DEF WriteSelf
    <3>4. FileName(ns0) = f /\ files'[f] = content
      BY <3>3 DEF SelfInv
    <3> QED BY <3>1, <3>2, <3>3, <3>4
  <2>2. CASE UNCHANGED files
    BY <2>2
  <2> QED
    BY <2>1, <2>2 DEF Next, Stopped, RunAgain, StartOmega, ReadSelf, CopyMate, AssembleRest,
       ApplyTransformation, AssembleBlocks, Stamp, Continue, LUFactorize, Restore, StartOutput,
       WriteRow, NextOmega, vars
<1>2. LoopInv /\ HomeInv /\ MatrixInv /\ SelfInv /\ FileInv /\ [Next]_vars
        => (LoopInv /\ HomeInv /\ MatrixInv /\ SelfInv /\ FileInv)'
  BY LoopStep, PlaceStep, MatrixStep, SelfStep, FileStep
<1> QED BY LoopInit, PlaceInit, MatrixInit, SelfInit, <1>1, <1>2, PTL DEF Spec, FilesKept
=============================================================================
