--------------------------- MODULE RFSolver_proof ---------------------------
(***************************************************************************)
(* Proofs about RFSolver and SurfacePairs, for any number of surfaces, any *)
(* mates and places, frequencies, substrates and any number of calls.      *)
(***************************************************************************)
EXTENDS RFSolver, FiniteSetTheorems, WellFoundedInduction, TLAPS

-----------------------------------------------------------------------------
(* Equivalent pairs.                                                       *)

\* A set of natural numbers has a least member.
LEMMA LeastNatural ==
  ASSUME NEW T, T \subseteq Nat, T # {}
  PROVE  \E x \in T : \A y \in T : x <= y
<1> DEFINE Below(x) == 0..x
           Segments == { Below(x) : x \in T }
<1>1. \A x \in Nat : Below(x) \in FiniteSubsetsOf(Nat)
  BY FS_Interval DEF FiniteSubsetsOf
<1>2. Segments \subseteq FiniteSubsetsOf(Nat) /\ Segments # {}
  BY <1>1
<1>3. PICK A \in Segments : \A B \in Segments : ~(<< B, A >> \in StrictSubsetOrdering(Nat))
  BY <1>2, FS_StrictSubsetOrderingWellFounded, WFMin, Zenon
<1>4. PICK x \in T : A = Below(x)
  OBVIOUS
<1>5. \A y \in T : x <= y
  <2> SUFFICES ASSUME NEW y \in T, y < x
               PROVE  FALSE
    OBVIOUS
  <2>1. Below(y) \subseteq Below(x) /\ x \in Below(x) /\ x \notin Below(y)
    OBVIOUS
  <2>2. << Below(y), Below(x) >> \in StrictSubsetOrdering(Nat)
    <3>1. Below(y) \in SUBSET Nat /\ Below(x) \in SUBSET Nat /\ Below(y) # Below(x)
      BY <2>1
    <3> QED
      BY <3>1, <2>1, Zenon DEF StrictSubsetOrdering
  <2> QED
    BY <2>2, <1>3, <1>4
<1> QED
  BY <1>5

\* Surfaces are natural numbers below NS.
LEMMA SurfaceFacts ==
  /\ Surfaces \subseteq Nat
  /\ \A ns \in Surfaces : 0..ns \subseteq Surfaces /\ 1..ns \subseteq Surfaces
BY NSAssumption DEF Surfaces

\* FindEquivalentSurfacePair returns the first of the pairs it looks for.
LEMMA FirstMatch ==
  ASSUME NEW pos, NEW p \in UpperPairs, HasEquivalent(pos, p)
  PROVE  LET q == FindEquivalentSurfacePair(pos, p)
         IN  q \in Matches(pos, p) /\ \A r \in Matches(pos, p) : Before(q, r)
<1> DEFINE Ms == Matches(pos, p)
           T1 == { r[1] : r \in Ms }
<1>1. Ms # {} /\ Ms \subseteq (0..p[1]) \X (1..p[2]) /\ p[1] \in Nat /\ p[2] \in Nat
  BY NSAssumption DEF HasEquivalent, Matches, UpperPairs, Surfaces
<1>2. PICK a \in T1 : \A y \in T1 : a <= y
  <2>1. T1 \subseteq Nat /\ T1 # {}
    BY <1>1
  <2> QED
    BY <2>1, LeastNatural
<1> DEFINE T2 == { r[2] : r \in { s \in Ms : s[1] = a } }
<1>3. PICK b \in T2 : \A y \in T2 : b <= y
  <2>1. T2 \subseteq Nat /\ T2 # {}
    BY <1>1, <1>2
  <2> QED
    BY <2>1, LeastNatural
<1>4. PICK q \in Ms : q[1] = a /\ q[2] = b
  BY <1>3
<1>5. \A r \in Ms : Before(q, r)
  <2> TAKE r \in Ms
  <2>1. a <= r[1] /\ (r[1] = a => b <= r[2])
    BY <1>2, <1>3
  <2>2. a \in Nat /\ b \in Nat /\ r[1] \in Nat /\ r[2] \in Nat
    BY <1>1, <1>4
  <2> QED
    BY <2>1, <2>2, <1>4 DEF Before
<1> QED
  BY <1>4, <1>5 DEF FindEquivalentSurfacePair

\* A pair that matches has the same block.
LEMMA MatchHasSameBlock ==
  ASSUME MateOK, NEW pos \in [Surfaces -> Int], NEW p \in UpperPairs, NEW q \in Matches(pos, p),
         NEW freq, NEW sub
  PROVE  /\ Interaction(freq, sub, pos, q[1], q[2]) = Interaction(freq, sub, pos, p[1], p[2])
         /\ q[1] \in Surfaces /\ q[2] \in Surfaces /\ q = << q[1], q[2] >>
BY NSAssumption DEF Matches, Interaction, UpperPairs, Surfaces

\* The pair that is found matches no other pair as it stands, so that its block is
\* one of those that are computed unless it is flipped.
LEMMA ParentComputed ==
  ASSUME MateOK, NEW pos \in [Surfaces -> Int], NEW p \in UpperPairs, HasEquivalent(pos, p)
  PROVE  Matches(pos, FindEquivalentSurfacePair(pos, p)) = {}
<1> DEFINE q == FindEquivalentSurfacePair(pos, p)
<1>1. q \in Matches(pos, p) /\ \A r \in Matches(pos, p) : Before(q, r)
  BY FirstMatch
<1> HIDE DEF q
<1>2. SUFFICES ASSUME NEW r \in Matches(pos, q)
               PROVE  FALSE
  BY DEF q
<1>3. p[1] \in Nat /\ p[2] \in Nat /\ p = << p[1], p[2] >>
  BY NSAssumption DEF UpperPairs, Surfaces
<1>4. q[1] \in 0..p[1] /\ q[2] \in 1..p[2] /\ q # p /\ q = << q[1], q[2] >>
  BY <1>1, <1>3 DEF Matches
<1>5. r[1] \in 0..q[1] /\ r[2] \in 1..q[2] /\ r # q /\ r = << r[1], r[2] >>
  BY <1>2, <1>4 DEF Matches
<1>6. r # p /\ r \in (0..p[1]) \X (1..p[2])
  BY <1>3, <1>4, <1>5
<1>7. r \in Matches(pos, p)
  BY <1>1, <1>2, <1>6 DEF Matches
<1>8. Before(q, r)
  BY <1>1, <1>7
<1> QED
  BY <1>3, <1>4, <1>5, <1>8 DEF Before

\* When there is no copy of surface 0 and no two surfaces are at the same place,
\* the pair whose block serves for another one has its own block computed: the
\* equivalences do not chain, though the inner loop starts from surface 1.
LEMMA NoChain ==
  ASSUME MateOK, NEW pos \in [Surfaces -> Int], NEW p \in UpperPairs,
         \A ns \in Surfaces : Mate[ns] # 0,
         \A u \in UpperPairs : pos[u[1]] # pos[u[2]]
  PROVE  SourceAt(pos, p) \in UpperPairs /\ ~HasEquivalent(pos, SourceAt(pos, p))
<1>1. CASE ~HasEquivalent(pos, p)
  BY <1>1 DEF SourceAt
<1>2. CASE HasEquivalent(pos, p)
  <2> DEFINE q == FindEquivalentSurfacePair(pos, p)
  <2>1. q \in Matches(pos, p) /\ Matches(pos, q) = {} /\ \A r \in Matches(pos, p) : Before(q, r)
    BY <1>2, FirstMatch, ParentComputed
  <2>2. SourceAt(pos, p) = InOrder(q)
    BY <1>2 DEF SourceAt
  <2> HIDE DEF q
  <2>3. /\ p[1] \in Nat /\ p[2] \in Surfaces /\ p[1] \in Surfaces /\ p[2] \in Nat
        /\ p[1] < p[2] /\ p = << p[1], p[2] >>
    BY NSAssumption DEF UpperPairs, Surfaces
  <2>4. /\ q[1] \in 0..p[1] /\ q[2] \in 1..p[2] /\ q # p /\ q = << q[1], q[2] >>
        /\ pos[q[2]] - pos[q[1]] = pos[p[2]] - pos[p[1]]
        /\ Original(q[1]) = Original(p[1]) /\ Original(q[2]) = Original(p[2])
    BY <2>1, <2>3 DEF Matches
  <2>5. q[1] \in Surfaces /\ q[2] \in Surfaces
    BY <2>3, <2>4, NSAssumption DEF Surfaces
  <2>6. q[1] # q[2]
    <3>1. pos[p[1]] # pos[p[2]] /\ pos[p[1]] \in Int /\ pos[p[2]] \in Int
      BY <2>3
    <3>2. pos[q[1]] \in Int /\ pos[q[2]] \in Int
      BY <2>5
    <3> QED
      BY <3>1, <3>2, <2>4
  <2>7. CASE ~Flipped(q)
    <3>1. q \in UpperPairs /\ InOrder(q) = q
      BY <2>4, <2>5, <2>6, <2>7, NSAssumption DEF UpperPairs, Surfaces, Flipped, InOrder
    <3> QED
      BY <2>1, <2>2, <3>1 DEF HasEquivalent
  <2>8. CASE Flipped(q)
    <3> DEFINE i == << q[2], q[1] >>
    <3>1. i \in UpperPairs /\ InOrder(q) = i
      BY <2>4, <2>5, <2>8, NSAssumption DEF UpperPairs, Surfaces, Flipped, InOrder
    <3>2. SUFFICES ASSUME NEW r \in Matches(pos, i)
                   PROVE  FALSE
      BY <2>2, <3>1 DEF HasEquivalent
    <3>3. /\ r[1] \in 0..q[2] /\ r[2] \in 1..q[1] /\ r # i /\ r = << r[1], r[2] >>
          /\ pos[r[2]] - pos[r[1]] = pos[q[1]] - pos[q[2]]
          /\ Original(r[1]) = Original(q[2]) /\ Original(r[2]) = Original(q[1])
      BY <3>2, <2>4 DEF Matches
    <3>4. q[2] < q[1] /\ q[1] \in Nat /\ q[2] \in Nat /\ r[1] \in Nat /\ r[2] \in Nat
      BY <2>4, <2>8, <2>3, <3>3 DEF Flipped
    <3>5. r[1] # 0
      <4>1. Original(0) = 0
        BY NSAssumption DEF MateOK, Original, Surfaces
      <4>2. Original(q[2]) # 0
        BY <2>4, <2>5, NSAssumption DEF MateOK, Original, Surfaces
      <4> QED
        BY <4>1, <4>2, <3>3
    <3> DEFINE t == << r[2], r[1] >>
    <3>6. t \in (0..p[1]) \X (1..p[2])
      BY <3>3, <3>4, <3>5, <2>3, <2>4
    <3>7. t # p
      BY <3>3, <3>4, <2>3, <2>4
    <3>8. pos[t[2]] - pos[t[1]] = pos[p[2]] - pos[p[1]]
      <4>1. r[1] \in Surfaces /\ r[2] \in Surfaces
        BY <3>3, <3>4, <2>5, NSAssumption DEF Surfaces
      <4>2. pos[r[1]] \in Int /\ pos[r[2]] \in Int /\ pos[q[1]] \in Int /\ pos[q[2]] \in Int
        BY <4>1, <2>5
      <4> DEFINE d == pos[r[2]] - pos[r[1]]
      <4>3. d = pos[q[1]] - pos[q[2]]
        BY <3>3
      <4>4. pos[r[1]] - pos[r[2]] = pos[q[2]] - pos[q[1]]
        BY <4>2, <4>3
      <4> QED
        BY <4>4, <2>4
    <3>9. t \in Matches(pos, p)
      BY <3>3, <3>6, <3>7, <3>8, <2>4 DEF Matches
    <3>10. Before(q, t)
      BY <2>1, <3>9
    <3> QED
      BY <3>10, <3>3, <3>4, <2>4 DEF Before
  <2> QED
    BY <2>7, <2>8
<1> QED
  BY <1>1, <1>2

-----------------------------------------------------------------------------
(* The types.                                                              *)

\* Every computed block is one, and an empty one too.
LEMMA BlocksAreBlocks ==
  ASSUME MateOK, NEW freq \in Frequencies \cup {None}, NEW sub \in Substrates \cup {None},
         NEW pos \in [Surfaces -> Int], NEW a \in Surfaces, NEW b \in Surfaces
  PROVE  /\ Interaction(freq, sub, pos, a, b) \in Blocks
         /\ DiagonalBlock(freq, sub, pos, a) \in Blocks
         /\ Leftover \in Blocks
<1>1. \A c \in Surfaces : Original(c) \in Surfaces
  BY NSAssumption DEF MateOK, Original, Surfaces
<1>2. pos[b] - pos[a] \in Int /\ pos[Original(a)] - pos[Original(a)] \in Int
  BY <1>1
<1> QED
  BY <1>1, <1>2 DEF Interaction, DiagonalBlock, Leftover, Blocks

\* Places are integers.
LEMMA PosType ==
  ASSUME TypeOK
  PROVE  Pos \in [Surfaces -> Int]
BY DEF TypeOK, Pos

LEMMA SubstrateStep ==
  ASSUME TypeOK, InitSubstrate, UNCHANGED FileSubstrate,
         FileSubstrate \in Substrates
  PROVE  /\ SubstrateFile' \in SubstrateFiles \cup {None} /\ SubstrateLayers' \subseteq Layers
         /\ SubstrateInitialized' \in BOOLEAN /\ Substrate' \in Substrates
         /\ OmegaSIE' \in Frequencies \cup {Dirty} /\ OmegaPBFI' \in Frequencies \cup {Dirty}
<1>1. CASE SubstrateInitialized
  BY <1>1 DEF TypeOK, InitSubstrate, substrate
<1>2. CASE ~SubstrateInitialized
  <2>1. /\ SubstrateInitialized' \in BOOLEAN /\ OmegaSIE' = Dirty /\ OmegaPBFI' = Dirty
        /\ SubstrateFile' = None
        /\ SubstrateLayers' = IF SubstrateFile = None THEN {} ELSE SubstrateLayers
    BY <1>2 DEF InitSubstrate
  <2>2. \/ SubstrateFile # None /\ Substrate' = << "file", {SubstrateFile} >>
        \/ Substrate' = << "layers", SubstrateLayers >>
        \/ Substrate' = << "nowhere", {} >>
        \/ Substrate' = << "freed", {} >>
    BY <1>2 DEF InitSubstrate, SubstrateIs, NoSubstrate, Freed
  <2>3. Substrate' \in Substrates
    BY <2>2 DEF TypeOK, Substrates
  <2> QED
    BY <2>1, <2>3 DEF TypeOK
<1> QED
  BY <1>1, <1>2

\* What an assembly is in the middle of, and that there is a frequency from the
\* first one on.
StepInv ==
  /\ step = "assemble" => TBlocks = None
  /\ step = "update" => TBlocks # None
  /\ step # "ready" \/ M # None => StoredOmega \in Frequencies

\* The types, and what they need to stay so.
TypeInv == TypeOK /\ FileSubstrate \in Substrates /\ StepInv

LEMMA TypeInit == Init => TypeInv
<1> SUFFICES ASSUME Init
             PROVE  TypeInv
  OBVIOUS
<1>1. NoSubstrate \in Substrates /\ SubstrateIs("scuffgeo", {}) \in Substrates
  BY DEF NoSubstrate, SubstrateIs, Substrates
<1>2. GT \in [Surfaces -> Int] /\ layout \in [Surfaces -> Int] /\ MateOK
  BY SolverAssumption DEF Init
<1> QED
  BY <1>1, <1>2 DEF Init, TypeInv, TypeOK, StepInv

LEMMA TypeStep ==
  ASSUME TypeInv, [Next]_vars
  PROVE  TypeInv'
<1> USE DEF TypeInv, StepInv
<1>0. ASSUME UNCHANGED vars
      PROVE  TypeInv'
  BY <1>0 DEF TypeOK, MateOK, vars, input, places, substrate, omegas, cache, solution, history, counts
<1>1. ASSUME NEW f \in SubstrateFiles, SetSubstrateFile(f)
      PROVE  TypeInv'
  BY <1>1, ZenonT(40) DEF SetSubstrateFile, TypeOK, MateOK, input, places, omegas, cache, solution, history
<1>2. ASSUME NEW l \in Layers, AddSubstrateLayer(l)
      PROVE  TypeInv'
  <2>1. SubstrateLayers' \subseteq Layers
    BY <1>2 DEF AddSubstrateLayer, TypeOK
  <2>2. /\ UNCHANGED <<input, G, places, SubstrateFile, Substrate, step, omegas, cache, M, PBFI,
                       solution, history>>
        /\ SubstrateInitialized' \in BOOLEAN
    BY <1>2 DEF AddSubstrateLayer
  <2> QED
    BY <2>1, <2>2 DEF TypeOK, MateOK, input, places, omegas, cache, solution, history
<1>3. ASSUME InitGeometry, UNCHANGED FileSubstrate
      PROVE  /\ G' \in BOOLEAN
             /\ SubstrateFile' \in SubstrateFiles \cup {None} /\ SubstrateLayers' \subseteq Layers
             /\ SubstrateInitialized' \in BOOLEAN /\ Substrate' \in Substrates
             /\ OmegaSIE' \in Frequencies \cup {Dirty} /\ OmegaPBFI' \in Frequencies \cup {Dirty}
  <2>1. CASE G
    BY <1>3, <2>1 DEF InitGeometry, TypeOK, substrate
  <2>2. CASE ~G
    BY <1>3, <2>2, SubstrateStep DEF InitGeometry
  <2> QED
    BY <2>1, <2>2
<1>4. CASE PlotGeometry
  BY <1>3, <1>4 DEF PlotGeometry, TypeOK, MateOK, input, places, cache, solution, history
<1>5. ASSUME NEW S \in MovedSets, NEW d \in Shifts, NEW ns \in S, Transform(ns, d)
      PROVE  TypeInv'
  <2>1. ns \in Surfaces /\ d \in Int
    BY <1>5, SolverAssumption
  <2>2. GT' \in [Surfaces -> Int]
    BY <1>5, <2>1 DEF Transform, Displaced, TypeOK
  <2> QED
    BY <1>3, <1>5, <2>1, <2>2 DEF Transform, TypeOK, MateOK, input, cache, solution
<1>6. ASSUME NEW S \in MovedSets, NEW d \in Shifts, TransformGeometry(S, d)
      PROVE  TypeInv'
  <2>1. S \subseteq Surfaces /\ d \in Int
    BY <1>6, SolverAssumption
  <2>2. GT' \in [Surfaces -> Int]
    BY <1>6, <2>1 DEF TransformGeometry, Displaced, TypeOK
  <2> QED
    BY <1>6, <2>1, <2>2 DEF TransformGeometry, TypeOK, MateOK, input, substrate, omegas, cache, solution
<1>7. CASE UnTransform
  BY <1>7 DEF UnTransform, TypeOK, MateOK, input, substrate, omegas, cache, solution
<1>8. CASE EnableSystemBlockCache
  <2>1. TBlocks' \in TablesT
    BY <1>8, BlocksAreBlocks DEF EnableSystemBlockCache, TypeOK, TablesT, Blocks, Leftover
  <2>2. UBlocks' \in TablesU
    BY <1>8 DEF EnableSystemBlockCache, TablesU
  <2> QED
    BY <1>8, <2>1, <2>2, TableAssumption
       DEF EnableSystemBlockCache, TypeOK, MateOK, input, places, substrate, solution, history
<1>9. ASSUME NEW freq \in Frequencies, AssembleSystemMatrix(freq)
      PROVE  TypeInv'
  <2>1. UNCHANGED FileSubstrate
    BY <1>9 DEF AssembleSystemMatrix, input
  <2> QED
    BY <1>9, <2>1, SubstrateStep
       DEF AssembleSystemMatrix, TypeOK, MateOK, input, places, cache, solution, history
<1>10. CASE AssembleAll
  <2>1. /\ StoredOmega \in Frequencies /\ UNCHANGED <<input, places, substrate, cache, solution, G>>
        /\ UNCHANGED <<StoredOmega, OmegaPBFI>> /\ OmegaSIE' = StoredOmega /\ step' = "ready"
        /\ pending' = {} /\ UNCHANGED <<untold, assembled, movedSincePBFI>>
    BY <1>10 DEF AssembleAll
  <2> QED
    BY <2>1 DEF TypeOK, MateOK, input, places, substrate, cache, solution
<1>11. CASE UpdateSystemMatrix
  <2>1. Pos \in [Surfaces -> Int] /\ StoredOmega \in Frequencies /\ Substrate \in Substrates
    BY <1>11, PosType DEF UpdateSystemMatrix, TypeOK
  <2>2. UpdatedT \in TablesT
    <3>1. TBlocks \in TablesT
      BY <1>11 DEF UpdateSystemMatrix, TypeOK
    <3>2. \A ns \in Surfaces : DiagonalBlock(StoredOmega, Substrate, Pos, ns) \in Blocks
      BY <2>1, BlocksAreBlocks DEF TypeOK
    <3> QED
      BY <3>1, <3>2 DEF UpdatedT, TablesT
  <2>3. UpdatedU \in TablesU
    <3>1. UBlocks \in TablesU
      BY <1>11, TableAssumption DEF UpdateSystemMatrix, TypeOK
    <3>2. \A p \in UpperPairs : Interaction(StoredOmega, Substrate, Pos, p[1], p[2]) \in Blocks
      BY <2>1, BlocksAreBlocks DEF TypeOK, UpperPairs
    <3> QED
      BY <3>1, <3>2 DEF UpdatedU, TablesU
  <2>4. /\ UNCHANGED <<input, G, places, substrate, StoredOmega, OmegaPBFI, solution, movedSincePBFI>>
        /\ TBlocks' = UpdatedT /\ UBlocks' = UpdatedU
        /\ untold' = IF Fresh THEN {} ELSE (untold \cup pending) \ SurfaceMoved
        /\ assembled' = NowAssembled \cup { p \in assembled : ~Recompute(p) } /\ pending' = {}
        /\ OmegaSIE' = OmegaSIE \/ OmegaSIE' = StoredOmega
        /\ step' = "crashed" \/ step' = "ready"
    BY <1>11 DEF UpdateSystemMatrix
  <2>5. assembled' \subseteq UpperPairs /\ untold' \subseteq Surfaces
    BY <2>4 DEF TypeOK, NowAssembled
  <2> QED
    BY <2>1, <2>2, <2>3, <2>4, <2>5, TableAssumption
       DEF TypeOK, MateOK, input, places, substrate, solution
<1>12. ASSUME NEW c \in Currents, SolvePorts(c)
       PROVE  TypeInv'
  <2>1. /\ UNCHANGED <<input, G, places, substrate, step, StoredOmega, OmegaSIE, cache, M, untold,
                       assembled, pending, CachedIF>>
        /\ CachedPortCurrents' = c /\ StoredOmega \in Frequencies
        /\ driven' \subseteq {"ports", "field"}
    BY <1>12 DEF SolvePorts, MatrixReady, TypeOK
  <2>2. /\ movedSincePBFI' \in BOOLEAN /\ OmegaPBFI' \in {OmegaPBFI, StoredOmega}
    BY <1>12 DEF SolvePorts, AssemblePortBFInteractionMatrix, TypeOK
  <2> QED
    BY <2>1, <2>2 DEF TypeOK, MateOK, input, places, substrate, cache
<1>13. ASSUME NEW f \in IncFields, SolveField(f)
       PROVE  TypeInv'
  BY <1>13 DEF SolveField, TypeOK, MateOK, input, places, substrate, omegas, cache, history
<1>14. CASE GetZMatrix
  BY <1>14, SolverAssumption
     DEF GetZMatrix, AssemblePortBFInteractionMatrix, TypeOK, MateOK, input, places, substrate, cache
<1>15. CASE Crashed
  BY <1>15, <1>0 DEF Crashed
<1> QED
  BY <1>0, <1>1, <1>2, <1>4, <1>5, <1>6, <1>7, <1>8, <1>9, <1>10, <1>11, <1>12, <1>13, <1>14, <1>15
     DEF Next

-----------------------------------------------------------------------------
(* The substrate.                                                          *)

\* Nothing has been set up before the geometry is created, and after that a
\* substrate that is not set up has a file or layers to be set up from.
GeometryInv ==
  ~G => M = None /\ TBlocks = None /\ step = "ready" /\ ~SubstrateInitialized /\ Substrate = NoSubstrate
NoteInv == G /\ ~SubstrateInitialized => SubstrateFile # None \/ SubstrateLayers # {}
SubstrateInv == GeometryInv /\ NoteInv /\ SubstrateLive

LEMMA InitSubstrateLive ==
  ASSUME SubstrateInv, InitSubstrate, UNCHANGED FileSubstrate
  PROVE  SubstrateInitialized' /\ SubstrateLive'
<1>1. CASE SubstrateInitialized
  BY <1>1 DEF InitSubstrate, substrate, SubstrateInv, SubstrateLive
<1>2. CASE ~SubstrateInitialized
  <2>1. SubstrateInitialized'
    BY <1>2 DEF InitSubstrate
  <2>2. CASE SubstrateFile # None \/ SubstrateLayers # {}
    <3>1. Substrate' # Freed
      BY <1>2, <2>2 DEF InitSubstrate, SubstrateIs, Freed
    <3> QED
      BY <2>1, <3>1 DEF SubstrateLive
  <2>3. CASE ~(SubstrateFile # None \/ SubstrateLayers # {})
    <3>1. ~G
      BY <1>2, <2>3 DEF SubstrateInv, NoteInv
    <3>2. FileSubstrate = NoSubstrate => Substrate' = NoSubstrate
      BY <1>2, <2>3, <3>1 DEF InitSubstrate
    <3>3. NoSubstrate # Freed
      BY DEF NoSubstrate, Freed, SubstrateIs
    <3> QED
      BY <2>1, <3>2, <3>3 DEF SubstrateLive
  <2> QED
    BY <2>2, <2>3
<1> QED
  BY <1>1, <1>2

LEMMA SubstrateInvInit == Init => SubstrateInv
BY DEF Init, SubstrateInv, GeometryInv, NoteInv, SubstrateLive, NoSubstrate, Freed, SubstrateIs

LEMMA SubstrateInvStep ==
  ASSUME TypeInv, SubstrateInv, [Next]_vars
  PROVE  SubstrateInv'
<1> USE DEF SubstrateInv, GeometryInv, NoteInv, SubstrateLive
<1>0. ASSUME UNCHANGED <<G, substrate, step, TBlocks, M, input>>
      PROVE  SubstrateInv'
  BY <1>0 DEF substrate, input
<1>1. ASSUME NEW f \in SubstrateFiles, SetSubstrateFile(f)
      PROVE  SubstrateInv'
  <2>1. SubstrateFile' # None
    BY <1>1, SolverAssumption DEF SetSubstrateFile
  <2> QED
    BY <1>1, <2>1 DEF SetSubstrateFile, input, cache
<1>2. ASSUME NEW l \in Layers, AddSubstrateLayer(l)
      PROVE  SubstrateInv'
  <2>1. SubstrateLayers' # {}
    <3>1. CASE SubstrateLayers # {}
      BY <1>2, <3>1 DEF AddSubstrateLayer
    <3>2. CASE SubstrateLayers = {}
      <4>1. l \in { k \in {l} : \A old \in SubstrateLayers : old[1] # k[1] }
        BY <3>2
      <4> QED
        BY <1>2, <4>1 DEF AddSubstrateLayer
    <3> QED
      BY <3>1, <3>2
  <2>2. UNCHANGED <<G, M, TBlocks, step, Substrate, FileSubstrate>> /\ ~SubstrateInitialized'
    BY <1>2 DEF AddSubstrateLayer, input, cache
  <2> QED
    BY <2>1, <2>2
<1>3. ASSUME InitGeometry, UNCHANGED <<FileSubstrate, M, TBlocks, step>>
      PROVE  SubstrateInv'
  <2>1. CASE G
    BY <1>3, <2>1 DEF InitGeometry, substrate
  <2>2. CASE ~G
    BY <1>3, <2>2, InitSubstrateLive DEF InitGeometry
  <2> QED
    BY <2>1, <2>2
<1>4. CASE PlotGeometry
  BY <1>3, <1>4 DEF PlotGeometry, input, cache
<1>5. ASSUME NEW S \in MovedSets, NEW d \in Shifts, NEW ns \in S, Transform(ns, d)
      PROVE  SubstrateInv'
  BY <1>3, <1>5 DEF Transform, input, cache
<1>6. ASSUME NEW S \in MovedSets, NEW d \in Shifts, TransformGeometry(S, d)
      PROVE  SubstrateInv'
  BY <1>0, <1>6 DEF TransformGeometry, cache
<1>7. CASE UnTransform
  BY <1>0, <1>7 DEF UnTransform, cache
<1>8. CASE EnableSystemBlockCache
  BY <1>8 DEF EnableSystemBlockCache, substrate, input
<1>9. ASSUME NEW freq \in Frequencies, AssembleSystemMatrix(freq)
      PROVE  SubstrateInv'
  BY <1>9, InitSubstrateLive DEF AssembleSystemMatrix, input
<1>10. CASE AssembleAll
  <2>1. G /\ UNCHANGED <<G, substrate, input>>
    BY <1>10 DEF AssembleAll
  <2> QED
    BY <2>1 DEF substrate, input
<1>11. CASE UpdateSystemMatrix
  <2>1. G /\ UNCHANGED <<G, substrate, input>>
    BY <1>11 DEF UpdateSystemMatrix
  <2> QED
    BY <2>1 DEF substrate, input
<1>12. ASSUME NEW c \in Currents, SolvePorts(c)
       PROVE  SubstrateInv'
  BY <1>0, <1>12 DEF SolvePorts, cache
<1>13. ASSUME NEW f \in IncFields, SolveField(f)
       PROVE  SubstrateInv'
  BY <1>0, <1>13 DEF SolveField, cache
<1>14. CASE GetZMatrix
  BY <1>0, <1>14 DEF GetZMatrix, cache
<1>15. CASE Crashed \/ UNCHANGED vars
  BY <1>0, <1>15 DEF Crashed, vars, cache
<1> QED
  BY <1>1, <1>2, <1>4, <1>5, <1>6, <1>7, <1>8, <1>9, <1>10, <1>11, <1>12, <1>13, <1>14, <1>15
     DEF Next

-----------------------------------------------------------------------------
(* Solutions.                                                              *)

\* Whoever moves a surface notes it.
Move ==
  \/ \E S \in MovedSets, d \in Shifts : \E ns \in S : Transform(ns, d)
  \/ \E S \in MovedSets, d \in Shifts : TransformGeometry(S, d)
  \/ UnTransform

LEMMA MoveFacts ==
  ASSUME TypeInv, Move
  PROVE  /\ pending \subseteq pending' /\ \A ns \in Surfaces : GT'[ns] # GT[ns] => ns \in pending'
         /\ pending' = {} => Pos' = Pos
         /\ movedSincePBFI' \/ (Pos' = Pos /\ ~movedSincePBFI)
<1>1. UNCHANGED layout /\ GT \in [Surfaces -> Int] /\ GT' \in [Surfaces -> Int]
  BY TypeStep DEF TypeInv, TypeOK, Move, Transform, TransformGeometry, UnTransform, input, Next
<1>2. /\ pending \subseteq pending' /\ \A ns \in Surfaces : GT'[ns] # GT[ns] => ns \in pending'
      /\ movedSincePBFI' \/ (GT' = GT /\ ~movedSincePBFI)
  <2>1. ASSUME NEW S \in MovedSets, NEW d \in Shifts, NEW ns \in S, Transform(ns, d)
        PROVE  /\ pending \subseteq pending' /\ \A a \in Surfaces : GT'[a] # GT[a] => a \in pending'
               /\ movedSincePBFI'
    BY <2>1, <1>1 DEF Transform, Displaced
  <2>2. ASSUME NEW S \in MovedSets, NEW d \in Shifts, TransformGeometry(S, d)
        PROVE  /\ pending \subseteq pending' /\ \A a \in Surfaces : GT'[a] # GT[a] => a \in pending'
               /\ movedSincePBFI'
    BY <2>2, <1>1 DEF TransformGeometry, Displaced
  <2>3. CASE UnTransform
    BY <2>3, <1>1 DEF UnTransform, TypeInv, TypeOK
  <2> QED
    BY <2>1, <2>2, <2>3 DEF Move
<1>3. GT' = GT => Pos' = Pos
  BY <1>1 DEF Pos
<1>4. pending' = {} => GT' = GT
  BY <1>1, <1>2
<1> QED
  BY <1>2, <1>3, <1>4

\* The matrix in hand is that of the frequency and the substrate in effect, and of
\* the places of the surfaces unless some have moved.
PlaceInv ==
  step = "ready" /\ M # None =>
    M.freq = StoredOmega /\ M.sub = Substrate /\ (pending = {} => M.pos = Pos)

\* So is the port matrix, for its own frequency.
PortInv ==
  OmegaPBFI # Dirty =>
    /\ \E c \in PBFI : c.freq = OmegaPBFI /\ c.sub = Substrate /\ (movedSincePBFI \/ c.pos = Pos)
    /\ ThreadBuffers => \E c \in PBFI : PBFI = {c}

\* Nothing is cached of a kind of excitation there was no solution for.
DrivenInv ==
  /\ CachedIF # None => "field" \in driven
  /\ CachedPortCurrents # None => "ports" \in driven

SolutionInv == PlaceInv /\ PortInv /\ PortsRight /\ DrivenInv /\ ExcitationKept

\* The port matrix that a solve uses fits, whether it was kept or not.
LEMMA PortMatrixFits ==
  ASSUME TypeInv, PortInv, AssemblePortBFInteractionMatrix, M # None,
         UNCHANGED <<input, Substrate, StoredOmega, GT>>
  PROVE  PortInv' /\ OmegaPBFI' = StoredOmega /\ OmegaPBFI' # Dirty
<1>1. StoredOmega # Dirty /\ OmegaPBFI' = StoredOmega /\ Pos' = Pos
  BY SolverAssumption DEF TypeInv, StepInv, AssemblePortBFInteractionMatrix, Pos, input
<1>2. CASE StoredOmega = OmegaPBFI
  BY <1>1, <1>2 DEF AssemblePortBFInteractionMatrix, PortInv, input
<1>3. CASE StoredOmega # OmegaPBFI
  <2> DEFINE c == Contribution(StoredOmega, Substrate, Pos)
  <2>1. c \in PBFI' /\ (ThreadBuffers => PBFI' = {c})
    BY <1>3 DEF AssemblePortBFInteractionMatrix
  <2>2. c.freq = StoredOmega /\ c.sub = Substrate /\ c.pos = Pos
    BY DEF Contribution
  <2> QED
    BY <1>1, <2>1, <2>2 DEF PortInv, input
<1> QED
  BY <1>1, <1>2, <1>3

\* A solve that ports drive.
LEMMA PortSolve ==
  ASSUME TypeInv, SolutionInv, AssemblePortBFInteractionMatrix, M # None, step = "ready",
         NEW c, KN' = Solution(DrivenByPorts(c, PBFI', Moved')), CachedPortCurrents' = c,
         driven' = driven \cup {"ports"}, UNCHANGED CachedIF,
         UNCHANGED <<input, Substrate, StoredOmega, GT, M, pending, step>>
  PROVE  SolutionInv'
<1>1. PortInv' /\ OmegaPBFI' = StoredOmega /\ OmegaPBFI' # Dirty
  BY PortMatrixFits DEF SolutionInv
<1>2. Pos' = Pos
  BY DEF Pos, input
<1>3. PlaceInv'
  BY <1>2 DEF SolutionInv, PlaceInv
<1>4. /\ KN'.freq = M.freq /\ KN'.sub = M.sub /\ KN'.pos = M.pos
      /\ KN'.rhs = DrivenByPorts(c, PBFI', Moved')
  BY DEF Solution
<1>5. /\ KN'.rhs.kind = "ports" /\ KN'.rhs.bfi = PBFI' /\ KN'.rhs.drive = c
      /\ KN'.rhs.moved = Moved'
  BY <1>4 DEF DrivenByPorts
<1>6. DrivenInv' /\ ExcitationKept'
  BY <1>5 DEF SolutionInv, DrivenInv, ExcitationKept
<1>7. PICK b \in PBFI' : b.freq = StoredOmega /\ b.sub = Substrate /\ (movedSincePBFI' \/ b.pos = Pos)
  BY <1>1, <1>2 DEF PortInv
<1>8. M.freq = StoredOmega /\ M.sub = Substrate /\ (pending = {} => M.pos = Pos)
  BY DEF SolutionInv, PlaceInv
<1>9. b.pos = M.pos \/ movedSincePBFI' \/ pending' # {}
  BY <1>7, <1>8
<1>10. b.pos = KN'.pos \/ KN'.rhs.moved
  BY <1>4, <1>5, <1>9 DEF Moved
<1>11. ThreadBuffers' => Cardinality(KN'.rhs.bfi) = 1
  BY <1>1, <1>5, FS_Singleton DEF PortInv, input
<1>12. PortsRight'
  BY <1>4, <1>5, <1>7, <1>8, <1>10, <1>11, Zenon DEF PortsRight
<1> QED
  BY <1>1, <1>3, <1>6, <1>12 DEF SolutionInv

LEMMA SolutionInvInit == Init => SolutionInv
BY DEF Init, SolutionInv, PlaceInv, PortInv, PortsRight, DrivenInv, ExcitationKept

\* Setting up the substrate makes the port matrix out of date.
LEMMA InitSubstratePorts ==
  ASSUME PortInv, InitSubstrate, UNCHANGED <<PBFI, input, GT, movedSincePBFI>>
  PROVE  PortInv'
<1>1. Pos' = Pos
  BY DEF Pos, input
<1> QED
  BY <1>1 DEF InitSubstrate, PortInv, substrate, input

LEMMA SolutionInvStep ==
  ASSUME TypeInv, SubstrateInv, SolutionInv, [Next]_vars
  PROVE  SolutionInv'
<1> USE DEF SolutionInv
<1>0. ASSUME UNCHANGED <<input, GT, step, StoredOmega, OmegaPBFI, Substrate, M, PBFI, solution,
                         pending, movedSincePBFI>>
      PROVE  SolutionInv'
  <2>1. Pos' = Pos
    BY <1>0 DEF Pos, input
  <2> QED
    BY <1>0, <2>1 DEF PlaceInv, PortInv, PortsRight, DrivenInv, ExcitationKept, solution, input
<1>1. ASSUME NEW f \in SubstrateFiles, SetSubstrateFile(f)
      PROVE  SolutionInv'
  BY <1>0, <1>1 DEF SetSubstrateFile, places, omegas, history
<1>2. ASSUME NEW l \in Layers, AddSubstrateLayer(l)
      PROVE  SolutionInv'
  BY <1>0, <1>2 DEF AddSubstrateLayer, places, omegas, history
<1>3. ASSUME UNCHANGED <<solution, ThreadBuffers>>
      PROVE  PortsRight' /\ DrivenInv' /\ ExcitationKept'
  BY <1>3 DEF PortsRight, DrivenInv, ExcitationKept, solution
<1>4. CASE PlotGeometry
  <2>1. M' = None
    BY <1>4 DEF PlotGeometry, SubstrateInv, GeometryInv
  <2>2. InitSubstrate
    BY <1>4 DEF PlotGeometry, InitGeometry
  <2>3. PortInv'
    BY <1>4, <2>2, InitSubstratePorts DEF PlotGeometry, places, history
  <2> QED
    BY <1>3, <1>4, <2>1, <2>3 DEF PlotGeometry, PlaceInv, input
<1>5. ASSUME Move, UNCHANGED <<input, PBFI, M, step, StoredOmega>>,
             UNCHANGED <<Substrate, OmegaPBFI>> \/ (M = None /\ OmegaPBFI' = Dirty)
      PROVE  PlaceInv' /\ PortInv'
  <2>1. PlaceInv'
    BY <1>5, MoveFacts DEF PlaceInv
  <2>2. PortInv'
    BY <1>5, MoveFacts DEF PortInv, input
  <2> QED
    BY <2>1, <2>2
<1>6. ASSUME NEW S \in MovedSets, NEW d \in Shifts, NEW ns \in S, Transform(ns, d)
      PROVE  SolutionInv'
  <2>1. UNCHANGED <<Substrate, OmegaPBFI>> \/ (M = None /\ OmegaPBFI' = Dirty)
    <3>1. CASE G
      BY <1>6, <3>1 DEF Transform, InitGeometry, substrate
    <3>2. CASE ~G
      BY <1>6, <3>2 DEF Transform, InitGeometry, InitSubstrate, SubstrateInv, GeometryInv
    <3> QED
      BY <3>1, <3>2
  <2>2. Move
    BY <1>6 DEF Move
  <2> QED
    BY <1>3, <1>5, <1>6, <2>1, <2>2 DEF Transform, input
<1>7. ASSUME NEW S \in MovedSets, NEW d \in Shifts, TransformGeometry(S, d)
      PROVE  SolutionInv'
  <2>1. Move
    BY <1>7 DEF Move
  <2> QED
    BY <1>3, <1>5, <1>7, <2>1 DEF TransformGeometry, input, substrate, omegas
<1>8. CASE UnTransform
  <2>1. Move
    BY <1>8 DEF Move
  <2> QED
    BY <1>3, <1>5, <1>8, <2>1 DEF UnTransform, input, substrate, omegas
<1>9. CASE EnableSystemBlockCache
  BY <1>0, <1>9 DEF EnableSystemBlockCache, places, substrate, history
<1>10. ASSUME NEW freq \in Frequencies, AssembleSystemMatrix(freq)
       PROVE  SolutionInv'
  <2>1. step' # "ready"
    BY <1>10 DEF AssembleSystemMatrix
  <2>2. PortInv'
    BY <1>10, InitSubstratePorts DEF AssembleSystemMatrix, places, history
  <2> QED
    BY <1>3, <1>10, <2>1, <2>2 DEF AssembleSystemMatrix, PlaceInv, input
<1>11. ASSUME UNCHANGED <<input, places, substrate, StoredOmega, OmegaPBFI, PBFI, solution,
                          movedSincePBFI>>,
              step' # "ready" \/ \E b, h, u : SetMatrix(b, h, u)
       PROVE  SolutionInv'
  <2>1. Pos' = Pos /\ UNCHANGED <<Substrate, GT>>
    BY <1>11 DEF Pos, input, places, substrate
  <2>2. PlaceInv'
    BY <1>11, <2>1 DEF PlaceInv, SetMatrix
  <2>3. PortInv'
    BY <1>11, <2>1 DEF PortInv, input
  <2> QED
    BY <1>3, <1>11, <2>2, <2>3 DEF input
<1>12. CASE AssembleAll
  <2>1. \E b, h, u : SetMatrix(b, h, u)
    BY <1>12 DEF AssembleAll
  <2> QED
    BY <1>11, <1>12, <2>1 DEF AssembleAll
<1>13. CASE UpdateSystemMatrix
  <2>1. step' # "ready" \/ \E b, h, u : SetMatrix(b, h, u)
    BY <1>13 DEF UpdateSystemMatrix
  <2> QED
    BY <1>11, <1>13, <2>1 DEF UpdateSystemMatrix
<1>14. ASSUME NEW c \in Currents, SolvePorts(c)
       PROVE  SolutionInv'
  BY <1>14, PortSolve DEF SolvePorts, MatrixReady, places, substrate
<1>15. ASSUME NEW f \in IncFields, SolveField(f)
       PROVE  SolutionInv'
  <2>1. UNCHANGED <<input, GT, Substrate, step, StoredOmega, OmegaPBFI, M, PBFI, pending, movedSincePBFI>>
    BY <1>15 DEF SolveField, places, substrate, omegas, history
  <2>2. Pos' = Pos
    BY <2>1 DEF Pos, input
  <2>3. KN'.rhs.kind = "field" /\ KN'.rhs.drive = f
    BY <1>15 DEF SolveField, Solution, DrivenByField
  <2>4. /\ CachedIF' = AsPointSource(f) /\ driven' = driven \cup {"field"}
        /\ UNCHANGED CachedPortCurrents
    BY <1>15 DEF SolveField
  <2>5. DrivenInv' /\ ExcitationKept'
    BY <2>3, <2>4 DEF DrivenInv, ExcitationKept, Miscopied
  <2> QED
    BY <2>1, <2>2, <2>3, <2>5 DEF PlaceInv, PortInv, PortsRight, input
<1>16. CASE GetZMatrix
  BY <1>16, PortSolve DEF GetZMatrix, places, substrate
<1>17. CASE Crashed \/ UNCHANGED vars
  BY <1>0, <1>17 DEF Crashed, vars, places, substrate, omegas, history
<1> QED
  BY <1>1, <1>2, <1>4, <1>6, <1>7, <1>8, <1>9, <1>10, <1>12, <1>13, <1>14, <1>15, <1>16, <1>17
     DEF Next

-----------------------------------------------------------------------------
(* The matrix.                                                             *)

\* The cached blocks that should be up to date are: those on the diagonal at any
\* place, and the others that are not waiting for a surface that moved.
Waits(p) == p[1] \in untold \cup pending \/ p[2] \in untold \cup pending
CacheInv ==
  UBlocks # None /\ OmegaSIE # Dirty /\ step # "crashed" =>
    /\ \A ns \in Surfaces : TBlocks[ns] = DiagonalBlock(OmegaSIE, Substrate, Pos, ns)
    /\ \A p \in assembled :
         Waits(p) \/ UBlocks[p] = Interaction(OmegaSIE, Substrate, Pos, p[1], p[2])

MatrixInv == CacheInv /\ MatrixRight

\* Diagonal blocks are the same everywhere.
LEMMA DiagonalAnywhere ==
  ASSUME MateOK, NEW pos \in [Surfaces -> Int], NEW pos2 \in [Surfaces -> Int],
         NEW ns \in Surfaces, NEW freq, NEW sub
  PROVE  DiagonalBlock(freq, sub, pos, ns) = DiagonalBlock(freq, sub, pos2, ns)
<1>1. Original(ns) \in Surfaces
  BY NSAssumption DEF MateOK, Original, Surfaces
<1>2. pos[Original(ns)] \in Int /\ pos2[Original(ns)] \in Int
  BY <1>1
<1>3. pos[Original(ns)] - pos[Original(ns)] = 0 /\ pos2[Original(ns)] - pos2[Original(ns)] = 0
  BY <1>2
<1> QED
  BY <1>3 DEF DiagonalBlock, Interaction

\* Exchanging the surfaces of a pair transposes its block.
LEMMA TransposedBlock ==
  ASSUME NEW pos \in [Surfaces -> Int], NEW a \in Surfaces, NEW b \in Surfaces, NEW freq, NEW sub
  PROVE  Transposed(Interaction(freq, sub, pos, b, a)) = Interaction(freq, sub, pos, a, b)
<1>1. pos[a] \in Int /\ pos[b] \in Int
  OBVIOUS
<1>2. -(pos[a] - pos[b]) = pos[b] - pos[a]
  BY <1>1
<1> QED
  BY <1>2 DEF Transposed, Interaction

\* A block stamped from one that is right is right.
LEMMA StampedRight ==
  ASSUME MateOK, NEW pos \in [Surfaces -> Int], NEW p \in UpperPairs, HasEquivalent(pos, p),
         NEW freq, NEW sub, NEW U,
         LET s == SourceAt(pos, p) IN U[s] = Interaction(freq, sub, pos, s[1], s[2])
  PROVE  FromParent(pos, p, U) = Interaction(freq, sub, pos, p[1], p[2])
<1> DEFINE q == FindEquivalentSurfacePair(pos, p)
<1>1. q \in Matches(pos, p)
  BY FirstMatch
<1>2. SourceAt(pos, p) = InOrder(q)
  BY DEF SourceAt
<1>3. FromParent(pos, p, U) = IF Flipped(q) THEN Transposed(U[InOrder(q)]) ELSE U[q]
  BY DEF FromParent
<1> HIDE DEF q
<1>4. /\ Interaction(freq, sub, pos, q[1], q[2]) = Interaction(freq, sub, pos, p[1], p[2])
      /\ q[1] \in Surfaces /\ q[2] \in Surfaces /\ q = << q[1], q[2] >>
  BY <1>1, MatchHasSameBlock
<1>5. CASE Flipped(q)
  <2>1. U[InOrder(q)] = Interaction(freq, sub, pos, q[2], q[1])
    BY <1>2, <1>5 DEF InOrder
  <2> QED
    BY <1>3, <1>4, <1>5, <2>1, TransposedBlock
<1>6. CASE ~Flipped(q)
  BY <1>2, <1>3, <1>4, <1>6 DEF InOrder
<1> QED
  BY <1>5, <1>6

\* A block copied within the matrix is right unless it is copied too early.
LEMMA CopiedRight ==
  ASSUME MateOK, NEW pos \in [Surfaces -> Int], NEW p \in UpperPairs, HasEquivalent(pos, p),
         ~Flipped(FindEquivalentSurfacePair(pos, p)), NEW freq, NEW sub
  PROVE  CopiedBlock(freq, sub, pos, FindEquivalentSurfacePair(pos, p))
           = Interaction(freq, sub, pos, p[1], p[2])
BY FirstMatch, MatchHasSameBlock DEF CopiedBlock

LEMMA MatrixInvInit == Init => MatrixInv
BY DEF Init, MatrixInv, CacheInv, MatrixRight

\* What is said of pairs and blocks depends on the mates alone.
LEMMA SameMates ==
  ASSUME UNCHANGED Mate
  PROVE  /\ \A pos, p : /\ HasEquivalent(pos, p)' = HasEquivalent(pos, p)
                        /\ FindEquivalentSurfacePair(pos, p)' = FindEquivalentSurfacePair(pos, p)
                        /\ SourceAt(pos, p)' = SourceAt(pos, p)
         /\ \A f, s, pos, a, b : /\ Interaction(f, s, pos, a, b)' = Interaction(f, s, pos, a, b)
                                 /\ DiagonalBlock(f, s, pos, a)' = DiagonalBlock(f, s, pos, a)
<1>1. \A a : Original(a)' = Original(a)
  BY DEF Original
<1>2. \A pos, p : Matches(pos, p)' = Matches(pos, p)
  BY <1>1 DEF Matches
<1>3. \A pos, p : /\ HasEquivalent(pos, p)' = HasEquivalent(pos, p)
                  /\ FindEquivalentSurfacePair(pos, p)' = FindEquivalentSurfacePair(pos, p)
  BY <1>2, Zenon DEF HasEquivalent, FindEquivalentSurfacePair
<1>4. \A pos, p : SourceAt(pos, p)' = SourceAt(pos, p)
  BY <1>3, Zenon DEF SourceAt
<1>5. \A f, s, pos, a, b : Interaction(f, s, pos, a, b)' = Interaction(f, s, pos, a, b)
  BY <1>1, Zenon DEF Interaction
<1>6. \A f, s, pos, a : DiagonalBlock(f, s, pos, a)' = DiagonalBlock(f, s, pos, a)
  BY <1>1, <1>5, Zenon DEF DiagonalBlock
<1> QED
  BY <1>3, <1>4, <1>5, <1>6

\* As long as nothing is assembled, the matrix and the cache stay right.
LEMMA CacheKept ==
  ASSUME TypeInv, TypeInv', CacheInv,
         UNCHANGED <<layout, Mate, TBlocks, UBlocks, untold, assembled>>,
         OmegaSIE' = Dirty \/ UNCHANGED <<OmegaSIE, Substrate>>,
         step # "crashed",
         pending \subseteq pending', \A ns \in Surfaces : GT'[ns] # GT[ns] => ns \in pending'
  PROVE  CacheInv'
<1>1. SUFFICES ASSUME UBlocks' # None, OmegaSIE' # Dirty
               PROVE  /\ \A ns \in Surfaces : TBlocks'[ns] = DiagonalBlock(OmegaSIE, Substrate, Pos, ns)'
                      /\ \A p \in assembled' :
                           Waits(p)' \/ UBlocks'[p] = Interaction(OmegaSIE, Substrate, Pos, p[1], p[2])'
  BY DEF CacheInv
<1>2. /\ \A ns \in Surfaces : TBlocks[ns] = DiagonalBlock(OmegaSIE, Substrate, Pos, ns)
      /\ \A p \in assembled :
           Waits(p) \/ UBlocks[p] = Interaction(OmegaSIE, Substrate, Pos, p[1], p[2])
      /\ UNCHANGED <<OmegaSIE, Substrate>>
  BY <1>1 DEF CacheInv
<1>3. Pos \in [Surfaces -> Int] /\ Pos' \in [Surfaces -> Int] /\ MateOK
  BY PosType DEF TypeInv, TypeOK, Pos
<1>4. \A a : Original(a)' = Original(a)
  BY DEF Original
<1>5. ASSUME NEW ns \in Surfaces
      PROVE  TBlocks'[ns] = DiagonalBlock(OmegaSIE, Substrate, Pos, ns)'
  <2>1. DiagonalBlock(OmegaSIE, Substrate, Pos, ns)' = DiagonalBlock(OmegaSIE, Substrate, Pos', ns)
    BY <1>2, <1>4 DEF DiagonalBlock, Interaction
  <2> QED
    BY <1>2, <1>3, <1>5, <2>1, DiagonalAnywhere
<1>6. ASSUME NEW p \in assembled', ~Waits(p)'
      PROVE  UBlocks'[p] = Interaction(OmegaSIE, Substrate, Pos, p[1], p[2])'
  <2>1. p \in assembled /\ ~Waits(p) /\ p[1] \in Surfaces /\ p[2] \in Surfaces
    BY <1>6 DEF Waits, TypeInv, TypeOK, UpperPairs
  <2>2. GT'[p[1]] = GT[p[1]] /\ GT'[p[2]] = GT[p[2]]
    BY <1>6, <2>1 DEF Waits
  <2>3. Pos'[p[1]] = Pos[p[1]] /\ Pos'[p[2]] = Pos[p[2]]
    BY <2>1, <2>2 DEF Pos
  <2> QED
    BY <1>2, <1>4, <2>1, <2>3 DEF Interaction
<1> QED
  BY <1>5, <1>6

\* What MatrixRight says depends on the mates and on what is in hand.
LEMMA MatrixKept ==
  ASSUME MatrixRight, UNCHANGED <<Mate, M>>,
         step' # "ready" \/ M = None \/ UNCHANGED <<step, StoredOmega, Substrate>>
  PROVE  MatrixRight'
<1>1. \A p : /\ MovedUntold(p)' = MovedUntold(p) /\ PassedOver(p)' = PassedOver(p)
             /\ CopiedTooEarly(p)' = CopiedTooEarly(p)
  BY SameMates, Zenon DEF MovedUntold, PassedOver, CopiedTooEarly
<1>2. SUFFICES ASSUME step' = "ready", M' # None
               PROVE  MatrixRight'
  BY DEF MatrixRight
<1>3. UNCHANGED <<step, StoredOmega, Substrate, M>>
  BY <1>2
<1> QED
  BY <1>1, <1>2, <1>3, SameMates DEF MatrixRight

\* The whole matrix.
LEMMA AssembleAllRight ==
  ASSUME TypeInv, AssembleAll
  PROVE  MatrixRight'
<1>1. /\ MateOK /\ Pos \in [Surfaces -> Int] /\ UNCHANGED <<input, places, substrate, StoredOmega>>
  BY PosType DEF AssembleAll, TypeInv, TypeOK
<1>2. /\ M'.freq = StoredOmega /\ M'.sub = Substrate /\ M'.pos = Pos
      /\ \/ M'.how = "copies" /\ M'.blocks = AssembleMOIMatrix(StoredOmega, Substrate, Pos)
         \/ M'.how = "whole" /\ M'.blocks = AssembleBEMMatrix(StoredOmega, Substrate, Pos)
  BY DEF AssembleAll, SetMatrix
<1>3. \A a \in Surfaces : M'.blocks[<< a, a >>] = DiagonalBlock(StoredOmega, Substrate, Pos, a)
  <2> TAKE a \in Surfaces
  <2>1. << a, a >> \in BlockPlaces
    BY NSAssumption DEF BlockPlaces, Surfaces
  <2> QED
    BY <1>2, <2>1 DEF AssembleMOIMatrix, AssembleBEMMatrix, Symmetric
<1>4. ASSUME NEW p \in UpperPairs
      PROVE  \/ M'.blocks[p] = Interaction(StoredOmega, Substrate, Pos, p[1], p[2])
             \/ /\ M'.how = "copies" /\ HasEquivalent(Pos, p)
                /\ Flipped(FindEquivalentSurfacePair(Pos, p))
  <2>1. p \in BlockPlaces /\ p[1] # p[2]
    BY NSAssumption DEF BlockPlaces, UpperPairs, Surfaces
  <2>2. CASE M'.how = "whole"
    BY <1>2, <2>1, <2>2 DEF AssembleBEMMatrix, Symmetric
  <2>3. CASE M'.how = "copies"
    <3>1. M'.blocks[p] = IF HasEquivalent(Pos, p)
                           THEN CopiedBlock(StoredOmega, Substrate, Pos, FindEquivalentSurfacePair(Pos, p))
                           ELSE Interaction(StoredOmega, Substrate, Pos, p[1], p[2])
      BY <1>2, <2>1, <2>3 DEF AssembleMOIMatrix, Symmetric
    <3> QED
      BY <1>1, <2>3, <3>1, CopiedRight
  <2> QED
    BY <1>2, <2>2, <2>3
<1>5. UNCHANGED <<StoredOmega, Substrate, Mate>>
  BY <1>1 DEF input, substrate
<1>6. \A p \in UpperPairs :
        M'.blocks[p] = Interaction(StoredOmega, Substrate, Pos, p[1], p[2]) \/ CopiedTooEarly(p)'
  BY <1>2, <1>4, <1>5, SameMates DEF CopiedTooEarly
<1> QED
  BY <1>2, <1>3, <1>5, <1>6, SameMates DEF MatrixRight

\* The matrix from the block cache.
LEMMA UpdateRight ==
  ASSUME TypeInv, CacheInv, UpdateSystemMatrix
  PROVE  CacheInv' /\ MatrixRight'
<1>1. /\ MateOK /\ Pos \in [Surfaces -> Int] /\ StoredOmega \in Frequencies
      /\ StoredOmega # Dirty /\ UBlocks # None /\ step = "update"
      /\ UNCHANGED <<Mate, StoredOmega, Substrate>> /\ Pos' = Pos
  BY PosType, SolverAssumption
     DEF UpdateSystemMatrix, TypeInv, TypeOK, StepInv, input, places, substrate, Pos
<1>2. /\ TBlocks' = UpdatedT /\ UBlocks' = UpdatedU /\ pending' = {}
      /\ untold' = IF Fresh THEN {} ELSE (untold \cup pending) \ SurfaceMoved
      /\ assembled' = NowAssembled \cup { p \in assembled : ~Recompute(p) }
  BY DEF UpdateSystemMatrix
<1>3. ~Fresh => /\ OmegaSIE = StoredOmega
                /\ \A ns \in Surfaces : TBlocks[ns] = DiagonalBlock(StoredOmega, Substrate, Pos, ns)
                /\ \A p \in assembled :
                     Waits(p) \/ UBlocks[p] = Interaction(StoredOmega, Substrate, Pos, p[1], p[2])
  BY <1>1 DEF Fresh, CacheInv
<1>4. \A ns \in Surfaces : TBlocks'[ns] = DiagonalBlock(StoredOmega, Substrate, Pos, ns)
  BY <1>2, <1>3 DEF UpdatedT
<1>5. ASSUME NEW p \in assembled', p[1] \notin untold', p[2] \notin untold'
      PROVE  UBlocks'[p] = Interaction(StoredOmega, Substrate, Pos, p[1], p[2])
  <2>1. p \in UpperPairs
    BY <1>2, <1>5 DEF NowAssembled, TypeInv, TypeOK
  <2>2. CASE p \in NowAssembled
    BY <1>2, <2>1, <2>2 DEF UpdatedU
  <2>3. CASE p \notin NowAssembled
    <3>1. p \in assembled /\ ~Recompute(p)
      BY <1>2, <1>5, <2>3
    <3>2. ~Fresh /\ ~Waits(p)
      BY <1>2, <1>5, <3>1 DEF Recompute, Waits
    <3>3. UBlocks'[p] = UBlocks[p]
      BY <1>2, <2>1, <2>3 DEF UpdatedU
    <3> QED
      BY <1>3, <3>1, <3>2, <3>3
  <2> QED
    BY <2>2, <2>3
<1>6. CASE step' = "crashed"
  BY <1>6 DEF CacheInv, MatrixRight
<1>7. CASE step' # "crashed"
  <2>1. /\ OmegaSIE' = StoredOmega /\ M'.freq = StoredOmega /\ M'.sub = Substrate /\ M'.pos = Pos
        /\ M'.how = "cache" /\ M'.untold = untold' /\ M'.assembled = assembled'
        /\ M'.blocks = Stamped(TBlocks', UBlocks')
    BY <1>7 DEF UpdateSystemMatrix, SetMatrix
  <2>2. CacheInv'
    <3>1. \A p \in assembled' :
            Waits(p)' \/ UBlocks'[p] = Interaction(StoredOmega, Substrate, Pos, p[1], p[2])
      BY <1>5 DEF Waits
    <3>2. /\ \A ns \in Surfaces :
               DiagonalBlock(OmegaSIE, Substrate, Pos, ns)' = DiagonalBlock(StoredOmega, Substrate, Pos, ns)
          /\ \A p : Interaction(OmegaSIE, Substrate, Pos, p[1], p[2])'
                     = Interaction(StoredOmega, Substrate, Pos, p[1], p[2])
      BY <1>1, <2>1, SameMates
    <3> QED
      BY <1>4, <3>1, <3>2, Zenon DEF CacheInv
  <2>3. ASSUME NEW a \in Surfaces
        PROVE  M'.blocks[<< a, a >>] = DiagonalBlock(StoredOmega, Substrate, Pos, a)
    <3>1. << a, a >> \in BlockPlaces
      BY NSAssumption DEF BlockPlaces, Surfaces
    <3> QED
      BY <1>4, <2>1, <3>1 DEF Stamped, Symmetric
  <2>4. ASSUME NEW p \in UpperPairs,
               SourceAt(Pos, p) \in assembled',
               SourceAt(Pos, p)[1] \notin untold', SourceAt(Pos, p)[2] \notin untold'
        PROVE  M'.blocks[p] = Interaction(StoredOmega, Substrate, Pos, p[1], p[2])
    <3> DEFINE s == SourceAt(Pos, p)
    <3>1. p \in BlockPlaces /\ p[1] # p[2]
      BY NSAssumption DEF BlockPlaces, UpperPairs, Surfaces
    <3>2. UBlocks'[s] = Interaction(StoredOmega, Substrate, Pos, s[1], s[2])
      BY <1>5, <2>4
    <3>3. CASE HasEquivalent(Pos, p)
      <4>1. M'.blocks[p] = FromParent(Pos, p, UBlocks')
        BY <2>1, <3>1, <3>3 DEF Stamped, Symmetric
      <4>2. FromParent(Pos, p, UBlocks')
              = Interaction(StoredOmega, Substrate, Pos, p[1], p[2])
        BY <1>1, <3>2, <3>3, StampedRight
      <4> QED
        BY <4>1, <4>2
    <3>4. CASE ~HasEquivalent(Pos, p)
      BY <2>1, <3>1, <3>2, <3>4 DEF SourceAt, Stamped, Symmetric
    <3> QED
      BY <3>3, <3>4
  <2>5. ASSUME NEW p \in UpperPairs
        PROVE  \/ M'.blocks[p] = Interaction(StoredOmega, Substrate, Pos, p[1], p[2])
               \/ M'.how = "cache" /\ (MovedUntold(p)' \/ PassedOver(p)')
    <3>1. M'.untold = untold' /\ M'.assembled = assembled' /\ M'.pos = Pos
      BY <2>1
    <3>2. SourceAt(M.pos, p)' = SourceAt(Pos, p)
      BY <1>1, <3>1, SameMates
    <3>3. /\ PassedOver(p)' <=> SourceAt(Pos, p) \notin assembled'
          /\ MovedUntold(p)' <=> SourceAt(Pos, p)[1] \in untold' \/ SourceAt(Pos, p)[2] \in untold'
      BY <3>1, <3>2 DEF PassedOver, MovedUntold
    <3> QED
      BY <2>1, <2>4, <3>3
  <2> QED
    BY <1>1, <2>1, <2>2, <2>3, <2>5, SameMates DEF MatrixRight
<1> QED
  BY <1>6, <1>7

LEMMA MatrixInvStep ==
  ASSUME TypeInv, SubstrateInv, MatrixInv, [Next]_vars
  PROVE  MatrixInv'
<1> USE DEF MatrixInv
<1>t. TypeInv'
  BY TypeStep
\* Steps that assemble nothing and move nothing.
<1>0. ASSUME UNCHANGED <<layout, Mate, GT, step, cache, pending, untold, assembled, M>>,
             \/ UNCHANGED <<StoredOmega, OmegaSIE, Substrate>>
             \/ OmegaSIE' = Dirty /\ (M = None \/ UNCHANGED <<StoredOmega, Substrate>>)
      PROVE  MatrixInv'
  <2>1. MatrixRight'
    BY <1>0, MatrixKept
  <2>2. CASE step # "crashed"
    BY <1>0, <1>t, <2>1, <2>2, CacheKept DEF cache
  <2>3. CASE step = "crashed"
    BY <1>0, <2>1, <2>3 DEF CacheInv
  <2> QED
    BY <2>2, <2>3
\* Steps that move surfaces.
<1>1. ASSUME Move, UNCHANGED <<input, cache, step, untold, assembled, M, StoredOmega>>,
             step = "ready",
             UNCHANGED <<OmegaSIE, Substrate>> \/ (M = None /\ OmegaSIE' = Dirty)
      PROVE  MatrixInv'
  <2>1. MatrixRight'
    BY <1>1, MatrixKept DEF input
  <2> QED
    BY <1>1, <1>t, <2>1, CacheKept, MoveFacts DEF input, cache
<1>2. ASSUME InitGeometry
      PROVE  UNCHANGED <<OmegaSIE, Substrate>> \/ (M = None /\ OmegaSIE' = Dirty)
  <2>1. CASE G
    BY <1>2, <2>1 DEF InitGeometry, substrate
  <2>2. CASE ~G
    BY <1>2, <2>2 DEF InitGeometry, InitSubstrate, SubstrateInv, GeometryInv
  <2> QED
    BY <2>1, <2>2
<1>3. ASSUME NEW f \in SubstrateFiles, SetSubstrateFile(f)
      PROVE  MatrixInv'
  BY <1>0, <1>3 DEF SetSubstrateFile, input, places, omegas, history
<1>4. ASSUME NEW l \in Layers, AddSubstrateLayer(l)
      PROVE  MatrixInv'
  BY <1>0, <1>4 DEF AddSubstrateLayer, input, places, omegas, history
<1>5. CASE PlotGeometry
  BY <1>0, <1>2, <1>5 DEF PlotGeometry, input, places, history
<1>6. ASSUME NEW S \in MovedSets, NEW d \in Shifts, NEW ns \in S, Transform(ns, d)
      PROVE  MatrixInv'
  <2>1. Move
    BY <1>6 DEF Move
  <2> QED
    BY <1>1, <1>2, <1>6, <2>1 DEF Transform
<1>7. ASSUME NEW S \in MovedSets, NEW d \in Shifts, TransformGeometry(S, d)
      PROVE  MatrixInv'
  <2>1. Move
    BY <1>7 DEF Move
  <2> QED
    BY <1>1, <1>7, <2>1 DEF TransformGeometry, substrate, omegas
<1>8. CASE UnTransform
  <2>1. Move
    BY <1>8 DEF Move
  <2> QED
    BY <1>1, <1>8, <2>1 DEF UnTransform, substrate, omegas
<1>9. CASE EnableSystemBlockCache
  <2>1. MatrixRight'
    BY <1>9, MatrixKept DEF EnableSystemBlockCache, input, substrate
  <2>2. OmegaSIE' = Dirty
    BY <1>9 DEF EnableSystemBlockCache
  <2> QED
    BY <2>1, <2>2 DEF CacheInv
<1>10. ASSUME NEW freq \in Frequencies, AssembleSystemMatrix(freq)
       PROVE  MatrixInv'
  <2>1. step = "ready" /\ step' \in {"update", "assemble"}
    BY <1>10 DEF AssembleSystemMatrix
  <2>2. MatrixRight'
    BY <1>10, <2>1, MatrixKept DEF AssembleSystemMatrix, input
  <2>3. OmegaSIE' = Dirty \/ UNCHANGED <<OmegaSIE, Substrate>>
    BY <1>10 DEF AssembleSystemMatrix, InitSubstrate, substrate
  <2> QED
    BY <1>10, <1>t, <2>1, <2>2, <2>3, CacheKept
       DEF AssembleSystemMatrix, input, places, cache, history
<1>11. CASE AssembleAll
  <2>1. UBlocks' = None
    BY <1>11 DEF AssembleAll, TypeInv, TypeOK, StepInv, cache
  <2> QED
    BY <1>11, <2>1, AssembleAllRight DEF CacheInv
<1>12. CASE UpdateSystemMatrix
  BY <1>12, UpdateRight
<1>13. ASSUME NEW c \in Currents, SolvePorts(c)
       PROVE  MatrixInv'
  BY <1>0, <1>13 DEF SolvePorts, input, places, substrate
<1>14. ASSUME NEW f \in IncFields, SolveField(f)
       PROVE  MatrixInv'
  BY <1>0, <1>14 DEF SolveField, input, places, substrate, omegas, history
<1>15. CASE GetZMatrix
  BY <1>0, <1>15 DEF GetZMatrix, input, places, substrate
<1>16. CASE Crashed \/ UNCHANGED vars
  BY <1>0, <1>16 DEF Crashed, vars, input, places, substrate, omegas, history
<1> QED
  BY <1>3, <1>4, <1>5, <1>6, <1>7, <1>8, <1>9, <1>10, <1>11, <1>12, <1>13, <1>14, <1>15, <1>16
     DEF Next

-----------------------------------------------------------------------------
(* Nothing that was not assembled is stamped.                              *)

\* As long as no surface has moved, the blocks that no pair stands for are there.
StampInv ==
  /\ moves \in Nat /\ (moves = 0 => Pos = layout)
  /\ \A p \in UpperPairs : layout[p[1]] # layout[p[2]]
  /\ moves = 0 /\ UBlocks # None /\ OmegaSIE # Dirty /\ step # "crashed" =>
       \A p \in UpperPairs : HasEquivalent(layout, p) \/ UBlocks[p] # None
  /\ StampsAssembled

\* The source of a pair of the layout is a pair above the diagonal.
LEMMA SourceIsPair ==
  ASSUME MateOK, NEW pos \in [Surfaces -> Int], NEW p \in UpperPairs,
         \A u \in UpperPairs : pos[u[1]] # pos[u[2]]
  PROVE  SourceAt(pos, p) \in UpperPairs
<1>1. CASE ~HasEquivalent(pos, p)
  BY <1>1 DEF SourceAt
<1>2. CASE HasEquivalent(pos, p)
  <2> DEFINE q == FindEquivalentSurfacePair(pos, p)
  <2>1. q \in Matches(pos, p)
    BY <1>2, FirstMatch
  <2>2. SourceAt(pos, p) = InOrder(q)
    BY <1>2 DEF SourceAt
  <2> HIDE DEF q
  <2>3. /\ q[1] \in Surfaces /\ q[2] \in Surfaces /\ q = << q[1], q[2] >>
        /\ pos[q[2]] - pos[q[1]] = pos[p[2]] - pos[p[1]]
    BY <2>1, MatchHasSameBlock DEF Matches
  <2>4. pos[p[1]] \in Int /\ pos[p[2]] \in Int /\ pos[p[1]] # pos[p[2]]
    BY DEF UpperPairs
  <2>5. pos[q[1]] \in Int /\ pos[q[2]] \in Int
    BY <2>3
  <2>6. q[1] # q[2]
    BY <2>3, <2>4, <2>5
  <2> QED
    BY <2>2, <2>3, <2>6, NSAssumption DEF UpperPairs, Surfaces, Flipped, InOrder
<1> QED
  BY <1>1, <1>2

LEMMA StampInvInit == Init => StampInv
<1> SUFFICES ASSUME Init
             PROVE  StampInv
  OBVIOUS
<1>1. \A p \in UpperPairs : layout[p[1]] # layout[p[2]]
  BY SolverAssumption DEF Init
<1>2. layout \in [Surfaces -> Int] /\ GT = [ns \in Surfaces |-> 0]
  BY SolverAssumption DEF Init
<1>3. Pos = layout
  BY <1>2 DEF Pos
<1> QED
  BY <1>1, <1>3 DEF Init, StampInv, StampsAssembled

LEMMA StampInvStep ==
  ASSUME TypeInv, StampInv, [Next]_vars
  PROVE  StampInv'
<1> USE DEF StampInv
<1>c. UNCHANGED Mate => \A p : Chained(p)' <=> HasEquivalent(layout', p) /\ HasEquivalent(layout', SourceAt(layout', p))
  BY SameMates DEF Chained
<1>0. ASSUME UNCHANGED <<layout, Mate, GT, step, moves>>,
             OmegaSIE' = Dirty \/ UNCHANGED <<OmegaSIE, UBlocks>>
      PROVE  StampInv'
  <2>1. Pos' = Pos
    BY <1>0 DEF Pos
  <2>2. StampsAssembled'
    BY <1>0, <1>c DEF StampsAssembled, Chained
  <2> QED
    BY <1>0, <2>1, <2>2, SameMates
<1>1. ASSUME UNCHANGED <<layout, Mate, step>>, moves' = moves + 1
      PROVE  StampInv'
  BY <1>1 DEF StampsAssembled
<1>2. ASSUME InitGeometry
      PROVE  OmegaSIE' = Dirty \/ UNCHANGED OmegaSIE
  BY <1>2 DEF InitGeometry, InitSubstrate
<1>3. ASSUME NEW f \in SubstrateFiles, SetSubstrateFile(f)
      PROVE  StampInv'
  BY <1>0, <1>3 DEF SetSubstrateFile, input, places, omegas, cache
<1>4. ASSUME NEW l \in Layers, AddSubstrateLayer(l)
      PROVE  StampInv'
  BY <1>0, <1>4 DEF AddSubstrateLayer, input, places, omegas, cache
<1>5. CASE PlotGeometry
  BY <1>0, <1>2, <1>5 DEF PlotGeometry, input, places, cache, counts
<1>6. ASSUME NEW S \in MovedSets, NEW d \in Shifts, NEW ns \in S, Transform(ns, d)
      PROVE  StampInv'
  BY <1>1, <1>6 DEF Transform, input
<1>7. ASSUME NEW S \in MovedSets, NEW d \in Shifts, TransformGeometry(S, d)
      PROVE  StampInv'
  BY <1>1, <1>7 DEF TransformGeometry, input
<1>8. CASE UnTransform
  <2>1. UNCHANGED <<layout, Mate, step, moves, OmegaSIE, UBlocks>>
    BY <1>8 DEF UnTransform, input, omegas, cache, counts
  <2>2. Pos' = layout
    BY <1>8, <2>1 DEF UnTransform, Pos, TypeInv, TypeOK
  <2>3. StampsAssembled'
    BY <2>1, <1>c DEF StampsAssembled, Chained
  <2> QED
    BY <2>1, <2>2, <2>3, SameMates
<1>9. CASE EnableSystemBlockCache
  BY <1>0, <1>9 DEF EnableSystemBlockCache, input, places, counts
<1>10. ASSUME NEW freq \in Frequencies, AssembleSystemMatrix(freq)
       PROVE  StampInv'
  <2>1. UNCHANGED <<layout, Mate, GT, moves, UBlocks>> /\ step' # "crashed" /\ step = "ready"
    BY <1>10 DEF AssembleSystemMatrix, input, places, cache
  <2>2. OmegaSIE' = Dirty \/ UNCHANGED OmegaSIE
    BY <1>10 DEF AssembleSystemMatrix, InitSubstrate
  <2>3. Pos' = Pos
    BY <2>1 DEF Pos
  <2> QED
    BY <2>1, <2>2, <2>3, SameMates DEF StampsAssembled
<1>11. CASE AssembleAll
  <2>1. UNCHANGED <<layout, Mate, GT, moves>> /\ step' # "crashed" /\ UBlocks' = None
    BY <1>11 DEF AssembleAll, input, places, cache, counts, TypeInv, TypeOK, StepInv
  <2>2. Pos' = Pos
    BY <2>1 DEF Pos
  <2> QED
    BY <2>1, <2>2 DEF StampsAssembled
<1>12. CASE UpdateSystemMatrix
  <2>1. /\ UNCHANGED <<layout, Mate, GT, moves>> /\ MateOK /\ layout \in [Surfaces -> Int]
        /\ StoredOmega # Dirty /\ UBlocks # None /\ step = "update" /\ UBlocks' = UpdatedU
        /\ Pos \in [Surfaces -> Int] /\ Substrate \in Substrates /\ StoredOmega \in Frequencies
    BY <1>12, SolverAssumption, PosType
       DEF UpdateSystemMatrix, input, places, counts, TypeInv, TypeOK, StepInv
  <2>2. Pos' = Pos
    BY <2>1 DEF Pos
  <2>3. ASSUME moves = 0, NEW p \in UpperPairs, ~HasEquivalent(layout, p)
        PROVE  UBlocks'[p] # None
    <3>1. Pos = layout
      BY <2>3
    <3>2. UBlocks'[p] = IF Recompute(p) THEN Interaction(StoredOmega, Substrate, Pos, p[1], p[2])
                                        ELSE UBlocks[p]
      BY <2>1, <2>3, <3>1 DEF UpdatedU, NowAssembled
    <3>3. CASE Recompute(p)
      <4>1. Interaction(StoredOmega, Substrate, Pos, p[1], p[2]) \in Blocks
        BY <2>1, BlocksAreBlocks DEF UpperPairs
      <4> QED
        BY <3>2, <3>3, <4>1, TableAssumption
    <3>4. CASE ~Recompute(p)
      BY <2>1, <2>3, <3>2, <3>4 DEF Recompute, Fresh
    <3> QED
      BY <3>3, <3>4
  <2>4. ASSUME moves = 0, step' = "crashed"
        PROVE  \E p \in UpperPairs : Chained(p)
    <3>1. PICK p \in UpperPairs : UBlocks'[Source(p)] = None
      BY <1>12, <2>4 DEF UpdateSystemMatrix
    <3>2. Source(p) = SourceAt(layout, p) /\ SourceAt(layout, p) \in UpperPairs
      BY <2>1, <2>4, SourceIsPair DEF Source
    <3>3. HasEquivalent(layout, SourceAt(layout, p))
      BY <2>3, <2>4, <3>1, <3>2
    <3>4. HasEquivalent(layout, p)
      BY <3>3 DEF SourceAt
    <3> QED
      BY <3>3, <3>4 DEF Chained
  <2>5. StampsAssembled'
    BY <2>1, <2>4, <1>c DEF StampsAssembled, Chained
  <2> QED
    BY <2>1, <2>2, <2>3, <2>5, SameMates
<1>13. ASSUME NEW c \in Currents, SolvePorts(c)
       PROVE  StampInv'
  BY <1>0, <1>13 DEF SolvePorts, input, places, cache, counts
<1>14. ASSUME NEW f \in IncFields, SolveField(f)
       PROVE  StampInv'
  BY <1>0, <1>14 DEF SolveField, input, places, omegas, cache, counts
<1>15. CASE GetZMatrix
  BY <1>0, <1>15 DEF GetZMatrix, input, places, cache, counts
<1>16. CASE Crashed \/ UNCHANGED vars
  BY <1>0, <1>16 DEF Crashed, vars, input, places, omegas, cache, counts
<1> QED
  BY <1>3, <1>4, <1>5, <1>6, <1>7, <1>8, <1>9, <1>10, <1>11, <1>12, <1>13, <1>14, <1>15, <1>16
     DEF Next

-----------------------------------------------------------------------------
(* The theorems.                                                           *)

IInv == TypeInv /\ SubstrateInv /\ SolutionInv /\ MatrixInv /\ StampInv

LEMMA Invariance == Spec => []IInv
<1>1. Init => IInv
  BY TypeInit, SubstrateInvInit, SolutionInvInit, MatrixInvInit, StampInvInit DEF IInv
<1>2. IInv /\ [Next]_vars => IInv'
  BY TypeStep, SubstrateInvStep, SolutionInvStep, MatrixInvStep, StampInvStep DEF IInv
<1> QED
  BY <1>1, <1>2, PTL DEF Spec

\* The state of a solver has the shape the code gives it.
THEOREM TypeCorrect == Spec => []TypeOK
<1>1. IInv => TypeOK
  BY DEF IInv, TypeInv
<1> QED
  BY <1>1, Invariance, PTL

\* The matrix that solves use is right, whichever of the three ways it was
\* assembled, with the three exceptions that MatrixRight names.
THEOREM MatrixCorrect == Spec => []MatrixRight
<1>1. IInv => MatrixRight
  BY DEF IInv, MatrixInv
<1> QED
  BY <1>1, Invariance, PTL

\* A port matrix is never used beyond a change of frequency or substrate.
THEOREM PortsCorrect == Spec => []PortsRight
<1>1. IInv => PortsRight
  BY DEF IInv, SolutionInv
<1> QED
  BY <1>1, Invariance, PTL

\* The post-processing routines find the excitation that drove the solution, and
\* nothing else unless the object has solved for both kinds, if the excitation is
\* by ports or by a single PointSource.
THEOREM ExcitationCorrect == Spec => []ExcitationKept
<1>1. IInv => ExcitationKept
  BY DEF IInv, SolutionInv
<1> QED
  BY <1>1, Invariance, PTL

\* The substrate dangles only if the .scuffgeo file had defined one.
THEOREM SubstrateCorrect == Spec => []SubstrateLive
<1>1. IInv => SubstrateLive
  BY DEF IInv, SubstrateInv
<1> QED
  BY <1>1, Invariance, PTL

\* The block cache stamps a block that was never assembled only if surfaces moved
\* or equivalences chain.
THEOREM StampsCorrect == Spec => []StampsAssembled
<1>1. IInv => StampsAssembled
  BY DEF IInv, StampInv
<1> QED
  BY <1>1, Invariance, PTL

\* Equivalences chain only through copies of surface 0: without any, the program
\* never ends in the block cache before a surface moves.
THEOREM NoStampCrash ==
  Spec => [](step = "crashed" /\ (\A ns \in Surfaces : Mate[ns] # 0) => moves > 0)
<1>1. IInv => (step = "crashed" /\ (\A ns \in Surfaces : Mate[ns] # 0) => moves > 0)
  BY NoChain DEF IInv, StampInv, StampsAssembled, Chained, TypeInv, TypeOK
<1> QED
  BY <1>1, Invariance, PTL
=============================================================================
