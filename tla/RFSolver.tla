------------------------------ MODULE RFSolver ------------------------------
(***************************************************************************)
(* libscuffSolver: a scuffSolver object, as a script or scuff-microstrip   *)
(* uses it.  The calls that define the substrate only take notes; the      *)
(* geometry and the substrate are set up when they are needed.  The        *)
(* factorized matrix, its blocks, the port matrix, the solution and its    *)
(* excitation are kept from call to call, each with its own idea of what   *)
(* makes it out of date.                                                   *)
(***************************************************************************)
EXTENDS SurfacePairs, FiniteSets

CONSTANTS Geometries,    \* the mates and the places of surfaces, as in a .scuffgeo file
          Shifts,        \* what a transformation displaces a surface by
          MovedSets,     \* the sets of surfaces a .trans file may move
          Places,        \* bound: where surfaces may get to (relative to the layout)
          Frequencies, Dirty,       \* Dirty: CACHE_DIRTY
          SubstrateFiles, Layers,   \* Layers: << height, material >>
          IncFields,     \* their class, their data and whether others follow in the list
          Currents, UnitCurrent,
          MaxMoves, MaxAssemblies, MaxSettings   \* bounds: calls of each kind

ASSUME SolverAssumption ==
  /\ \A g \in Geometries :
       g.pos \in [Surfaces -> Int] /\ \A p \in UpperPairs : g.pos[p[1]] # g.pos[p[2]]
  /\ Shifts \subseteq Int /\ Places \subseteq Int /\ 0 \in Places
  /\ MovedSets \subseteq SUBSET Surfaces
  /\ UnitCurrent \in Currents /\ Dirty \notin Frequencies \cup {None} /\ None \notin Frequencies
  /\ IncFields \subseteq [class : STRING, data : STRING, Next : BOOLEAN]
  /\ None \notin Currents \cup SubstrateFiles \cup [class : STRING, data : STRING, Next : BOOLEAN]
  /\ MaxMoves \in Nat /\ MaxAssemblies \in Nat /\ MaxSettings \in Nat

VARIABLES
  \* What does not change: the layout, whether the .scuffgeo file has a SUBSTRATE
  \* section, whether there are ports, whether threads have buffers of their own.
  layout, FileSubstrate, HasPorts, ThreadBuffers,
  G,                                \* the geometry has been created
  GT, SurfaceMoved,
  SubstrateFile, SubstrateLayers, SubstrateInitialized, Substrate,
  step, StoredOmega, OmegaSIE, OmegaPBFI,
  TBlocks, UBlocks,                 \* the block cache; None when it is off
  M, PBFI, KN, CachedPortCurrents, CachedIF,
  \* History: surfaces that moved since the last assembly; those that moved since
  \* their cached blocks were assembled without SurfaceMoved telling of it; the
  \* cached blocks that were assembled whenever they were due for it; whether any
  \* surface moved since the port matrix was assembled; and the kinds of excitation
  \* there was a solution for.
  pending, untold, assembled, movedSincePBFI, driven,
  moves, assemblies, settings

input     == <<Mate, layout, FileSubstrate, HasPorts, ThreadBuffers>>
places    == <<GT, SurfaceMoved>>
substrate == <<SubstrateFile, SubstrateLayers, SubstrateInitialized, Substrate>>
omegas    == <<StoredOmega, OmegaSIE, OmegaPBFI>>
cache     == <<TBlocks, UBlocks>>
solution  == <<KN, CachedPortCurrents, CachedIF, driven>>
history   == <<pending, untold, assembled, movedSincePBFI>>
counts    == <<moves, assemblies, settings>>
vars == <<input, G, places, substrate, step, omegas, cache, M, PBFI, solution, history, counts>>

\* What G->Substrate points to.
SubstrateIs(from, what) == << from, what >>
NoSubstrate == SubstrateIs("nowhere", {})
Freed       == SubstrateIs("freed", {})
Substrates  == {"nowhere", "scuffgeo", "freed", "file", "layers"} \X SUBSET (SubstrateFiles \cup Layers)

\* What a block may be, and the assumption that None is not one of the tables.
Blocks == (Frequencies \cup {None}) \X (Substrates \cup {None})
            \X (Surfaces \cup {None}) \X (Surfaces \cup {None}) \X Int
TablesT == [Surfaces -> Blocks]
TablesU == [UpperPairs -> Blocks \cup {None}]
ASSUME TableAssumption == None \notin Blocks \cup TablesT \cup TablesU

Init ==
  /\ \E g \in Geometries : layout = g.pos /\ Mate = g.mate
  /\ MateOK
  /\ FileSubstrate \in {NoSubstrate, SubstrateIs("scuffgeo", {})}
  /\ HasPorts \in BOOLEAN /\ ThreadBuffers \in BOOLEAN /\ (~HasPorts => ThreadBuffers)
  /\ G = FALSE /\ step = "ready"
  /\ GT = [ns \in Surfaces |-> 0] /\ SurfaceMoved = {}
  /\ SubstrateFile = None /\ SubstrateLayers = {}
  /\ SubstrateInitialized = FALSE /\ Substrate = NoSubstrate
  /\ StoredOmega = None /\ OmegaSIE = Dirty /\ OmegaPBFI = Dirty
  /\ TBlocks = None /\ UBlocks = None
  /\ M = None /\ PBFI = {} /\ KN = None
  /\ CachedPortCurrents = None /\ CachedIF = None /\ driven = {}
  /\ pending = {} /\ untold = {} /\ assembled = {} /\ movedSincePBFI = FALSE
  /\ moves = 0 /\ assemblies = 0 /\ settings = 0

Pos == [ns \in Surfaces |-> layout[ns] + GT[ns]]

-----------------------------------------------------------------------------
\* Defining the substrate.

SetSubstrateFile(f) ==
  /\ step = "ready" /\ settings < MaxSettings
  /\ SubstrateInitialized' = FALSE
  /\ SubstrateFile' = f
  /\ settings' = settings + 1
  /\ UNCHANGED <<input, G, places, SubstrateLayers, Substrate, step, omegas, cache, M, PBFI,
                 solution, history, moves, assemblies>>

\* std::map::insert leaves a layer that is already there at the same height.
AddSubstrateLayer(l) ==
  /\ step = "ready" /\ settings < MaxSettings
  /\ SubstrateInitialized' = FALSE
  /\ SubstrateLayers' = SubstrateLayers \cup
       { k \in {l} : \A old \in SubstrateLayers : old[1] # k[1] }
  /\ settings' = settings + 1
  /\ UNCHANGED <<input, G, places, SubstrateFile, Substrate, step, omegas, cache, M, PBFI,
                 solution, history, moves, assemblies>>

\* Mutant: the port matrix is not out of date after a change of the substrate.
InitSubstrateKeepsPBFI ==
  IF SubstrateInitialized THEN UNCHANGED <<substrate, OmegaSIE, OmegaPBFI>>
  ELSE /\ SubstrateInitialized' = TRUE
       /\ OmegaSIE' = Dirty /\ UNCHANGED OmegaPBFI
       /\ SubstrateFile' = None
       /\ SubstrateLayers' = IF SubstrateFile = None THEN {} ELSE SubstrateLayers
       /\ LET old == IF G THEN Substrate ELSE FileSubstrate
          IN  Substrate' =
                IF SubstrateFile # None THEN SubstrateIs("file", {SubstrateFile})
                ELSE IF SubstrateLayers # {} THEN SubstrateIs("layers", SubstrateLayers)
                ELSE IF old = NoSubstrate THEN NoSubstrate ELSE Freed

\* Mutant: the substrate is set up again at every assembly.
InitSubstrateAgain ==
  /\ SubstrateInitialized' = FALSE
  /\ OmegaSIE' = Dirty /\ OmegaPBFI' = Dirty
  /\ SubstrateFile' = None
  /\ SubstrateLayers' = IF SubstrateFile = None THEN {} ELSE SubstrateLayers
  /\ LET old == IF G THEN Substrate ELSE FileSubstrate
     IN  Substrate' =
           IF SubstrateFile # None THEN SubstrateIs("file", {SubstrateFile})
           ELSE IF SubstrateLayers # {} THEN SubstrateIs("layers", SubstrateLayers)
           ELSE IF old = NoSubstrate THEN NoSubstrate ELSE Freed

\* InitSubstrate: a file goes before layers, which are used up only when there
\* is no file.  The previous substrate, if any, is freed, and the pointer to it
\* is left where it is when there is neither a file nor a layer.
InitSubstrate ==
  IF SubstrateInitialized THEN UNCHANGED <<substrate, OmegaSIE, OmegaPBFI>>
  ELSE /\ SubstrateInitialized' = TRUE
       /\ OmegaSIE' = Dirty /\ OmegaPBFI' = Dirty
       /\ SubstrateFile' = None
       /\ SubstrateLayers' = IF SubstrateFile = None THEN {} ELSE SubstrateLayers
       /\ LET old == IF G THEN Substrate ELSE FileSubstrate
          IN  Substrate' =
                IF SubstrateFile # None THEN SubstrateIs("file", {SubstrateFile})
                ELSE IF SubstrateLayers # {} THEN SubstrateIs("layers", SubstrateLayers)
                ELSE IF old = NoSubstrate THEN NoSubstrate ELSE Freed

\* `if (!G) InitGeometry();'
InitGeometry ==
  /\ G' = TRUE
  /\ IF G THEN UNCHANGED <<substrate, OmegaSIE, OmegaPBFI>> ELSE InitSubstrate

PlotGeometry ==
  /\ step = "ready" /\ ~G
  /\ InitGeometry
  /\ UNCHANGED <<input, places, step, StoredOmega, cache, M, PBFI, solution, history, counts>>

-----------------------------------------------------------------------------
\* Moving surfaces.

MayMove(ns, d) == GT[ns] + d \in Places
Displaced(S, d) == [ns \in Surfaces |-> IF ns \in S THEN GT[ns] + d ELSE GT[ns]]

\* scuffSolver::Transform moves the surface without a word to G.
Transform(ns, d) ==
  /\ step = "ready" /\ moves < MaxMoves /\ MayMove(ns, d)
  /\ InitGeometry
  /\ GT' = Displaced({ns}, d) /\ UNCHANGED SurfaceMoved
  /\ pending' = pending \cup {ns} /\ movedSincePBFI' = TRUE
  /\ moves' = moves + 1
  /\ UNCHANGED <<input, step, StoredOmega, cache, M, PBFI, solution, untold, assembled, assemblies, settings>>

\* RWGGeometry::Transform, called for Solver->G by scuff-microstrip.
TransformGeometry(S, d) ==
  /\ step = "ready" /\ G /\ moves < MaxMoves /\ \A ns \in S : MayMove(ns, d)
  /\ GT' = Displaced(S, d) /\ SurfaceMoved' = S
  /\ pending' = pending \cup S /\ movedSincePBFI' = TRUE
  /\ moves' = moves + 1
  /\ UNCHANGED <<input, G, substrate, step, omegas, cache, M, PBFI, solution, untold, assembled, assemblies, settings>>

UnTransform ==
  /\ step = "ready" /\ G
  /\ GT' = [ns \in Surfaces |-> 0] /\ UNCHANGED SurfaceMoved
  /\ pending' = pending \cup { ns \in Surfaces : GT[ns] # 0 }
  /\ movedSincePBFI' = (movedSincePBFI \/ GT' # GT)
  /\ UNCHANGED <<input, G, substrate, step, omegas, cache, M, PBFI, solution, untold, assembled, counts>>

-----------------------------------------------------------------------------
\* Assembling the matrix.

\* Mutant: the matrix in hand counts as up to date.
EnableSystemBlockCacheClean ==
  /\ step = "ready" /\ G /\ TBlocks = None /\ NS > 1
  /\ TBlocks' = [ns \in Surfaces |-> Leftover]
  /\ UBlocks' = [p \in UpperPairs |-> None]
  /\ UNCHANGED <<input, G, places, substrate, step, omegas, M, PBFI, solution, history, counts>>

\* Mutant: the table of the other blocks is not created.
EnableSystemBlockCacheT ==
  /\ step = "ready" /\ G /\ TBlocks = None /\ NS > 1
  /\ TBlocks' = [ns \in Surfaces |-> Leftover] /\ UNCHANGED UBlocks
  /\ OmegaSIE' = Dirty
  /\ UNCHANGED <<input, G, places, substrate, step, StoredOmega, OmegaPBFI, M, PBFI, solution,
                 history, counts>>

EnableSystemBlockCache ==
  /\ step = "ready" /\ G /\ TBlocks = None /\ NS > 1
  /\ TBlocks' = [ns \in Surfaces |-> Leftover]
  /\ UBlocks' = [p \in UpperPairs |-> None]
  /\ OmegaSIE' = Dirty
  /\ UNCHANGED <<input, G, places, substrate, step, StoredOmega, OmegaPBFI, M, PBFI, solution,
                 history, counts>>

AssembleSystemMatrix(freq) ==
  /\ step = "ready" /\ assemblies < MaxAssemblies
  /\ G' = TRUE
  /\ InitSubstrate
  /\ StoredOmega' = freq
  /\ step' = IF TBlocks # None THEN "update" ELSE "assemble"
  /\ assemblies' = assemblies + 1
  /\ UNCHANGED <<input, places, cache, M, PBFI, solution, history, moves, settings>>

\* how: "whole", "copies" within the matrix, or from the block "cache".
SetMatrix(blocks, how, notTold) ==
  M' = [blocks |-> blocks, how |-> how, freq |-> StoredOmega, sub |-> Substrate, pos |-> Pos,
        untold |-> notTold, assembled |-> assembled']

AssembleAll ==
  /\ step = "assemble" /\ step' = "ready"
  /\ pending' = {} /\ UNCHANGED <<untold, assembled, movedSincePBFI>>
  /\ IF HasPorts THEN SetMatrix(AssembleMOIMatrix(StoredOmega, Substrate, Pos), "copies", {})
                 ELSE SetMatrix(AssembleBEMMatrix(StoredOmega, Substrate, Pos), "whole", {})
  /\ OmegaSIE' = StoredOmega
  /\ UNCHANGED <<input, G, places, substrate, StoredOmega, OmegaPBFI, cache, PBFI, solution, counts>>

\* The frequency has changed, or the matrix is out of date for another reason.
Fresh == StoredOmega # OmegaSIE

Recompute(p) == Fresh \/ p[1] \in SurfaceMoved \/ p[2] \in SurfaceMoved

UpdatedT == [ns \in Surfaces |-> IF Fresh THEN DiagonalBlock(StoredOmega, Substrate, Pos, ns)
                                          ELSE TBlocks[ns]]
NowAssembled == { p \in UpperPairs : ~HasEquivalent(Pos, p) /\ Recompute(p) }
UpdatedU == [p \in UpperPairs |->
               IF p \in NowAssembled THEN Interaction(StoredOmega, Substrate, Pos, p[1], p[2])
                                     ELSE UBlocks[p]]

\* The cached block that is stamped for p.
SourceAt(pos, p) == IF HasEquivalent(pos, p) THEN InOrder(FindEquivalentSurfacePair(pos, p)) ELSE p
Source(p) == SourceAt(Pos, p)

Stamped(T, U) ==
  Symmetric(LAMBDA ns : T[ns],
            LAMBDA p : IF HasEquivalent(Pos, p) THEN FromParent(Pos, p, U) ELSE U[p])

\* UpdateSystemMatrix.  A block that was never allocated ends the program.
UpdateSystemMatrix ==
  /\ step = "update"
  /\ TBlocks' = UpdatedT /\ UBlocks' = UpdatedU
  /\ untold' = IF Fresh THEN {} ELSE (untold \cup pending) \ SurfaceMoved
  /\ assembled' = NowAssembled \cup { p \in assembled : ~Recompute(p) }
  /\ pending' = {}
  /\ IF \E p \in UpperPairs : UBlocks'[Source(p)] = None
       THEN step' = "crashed" /\ UNCHANGED <<M, OmegaSIE>>
       ELSE /\ step' = "ready"
            /\ SetMatrix(Stamped(TBlocks', UBlocks'), "cache", untold')
            /\ OmegaSIE' = StoredOmega
  /\ UNCHANGED <<input, G, places, substrate, StoredOmega, OmegaPBFI, PBFI, solution,
                 movedSincePBFI, counts>>

-----------------------------------------------------------------------------
\* Solving.

\* AssemblePortBFInteractionMatrix.  Without buffers of their own the threads add
\* to what the matrix holds.
Contribution(freq, sub, pos) == [freq |-> freq, sub |-> sub, pos |-> pos]

AssemblePortBFInteractionMatrix ==
  IF StoredOmega = OmegaPBFI THEN UNCHANGED <<PBFI, OmegaPBFI, movedSincePBFI>>
  ELSE /\ OmegaPBFI' = StoredOmega
       /\ PBFI' = {Contribution(StoredOmega, Substrate, Pos)} \cup (IF ThreadBuffers THEN {} ELSE PBFI)
       /\ movedSincePBFI' = FALSE

\* A surface is not where it was when the matrix or the port matrix was assembled.
Moved == movedSincePBFI \/ pending # {}

\* What M and the right-hand side of the last solve were made for.
Solution(rhs) == [freq |-> M.freq, sub |-> M.sub, pos |-> M.pos, rhs |-> rhs]
DrivenByPorts(c, bfi, moved) == [kind |-> "ports", drive |-> c, bfi |-> bfi, moved |-> moved]
DrivenByField(f)             == [kind |-> "field", drive |-> f, bfi |-> {}, moved |-> FALSE]

\* M==0 || G->StoredOmega!=OmegaSIE: warn and return.
MatrixReady == M # None /\ StoredOmega = OmegaSIE

SolvePorts(c) ==
  /\ step = "ready" /\ HasPorts /\ MatrixReady
  /\ AssemblePortBFInteractionMatrix /\ UNCHANGED pending
  /\ KN' = Solution(DrivenByPorts(c, PBFI', Moved'))
  /\ CachedPortCurrents' = c /\ UNCHANGED CachedIF
  /\ driven' = driven \cup {"ports"}
  /\ UNCHANGED <<input, G, places, substrate, step, StoredOmega, OmegaSIE, cache, M, untold, assembled, counts>>

\* PointSource(*(PointSource *)IF): the cast never fails, and the constructor copies
\* the source itself but not the rest of the list.
AsPointSource(f) == [f EXCEPT !.class = "PointSource", !.Next = FALSE]

\* The copy as a PlaneWave, made first, is lost; the port currents are left.
SolveField(f) ==
  /\ step = "ready" /\ MatrixReady
  /\ KN' = Solution(DrivenByField(f))
  /\ CachedIF' = AsPointSource(f) /\ UNCHANGED CachedPortCurrents
  /\ driven' = driven \cup {"field"}
  /\ UNCHANGED <<input, G, places, substrate, step, omegas, cache, M, PBFI, history, counts>>

\* Mutant: the currents that were solved for are kept.
GetZMatrixKeepsCurrents ==
  /\ step = "ready" /\ HasPorts /\ M # None
  /\ AssemblePortBFInteractionMatrix /\ UNCHANGED pending
  /\ KN' = Solution(DrivenByPorts(UnitCurrent, PBFI', Moved'))
  /\ UNCHANGED <<CachedPortCurrents, CachedIF>>
  /\ driven' = driven \cup {"ports"}
  /\ UNCHANGED <<input, G, places, substrate, step, StoredOmega, OmegaSIE, cache, M, untold, assembled, counts>>

\* The solutions for a unit current into each port pass through KN; that of the
\* last port is left there.
GetZMatrix ==
  /\ step = "ready" /\ HasPorts /\ M # None
  /\ AssemblePortBFInteractionMatrix /\ UNCHANGED pending
  /\ KN' = Solution(DrivenByPorts(UnitCurrent, PBFI', Moved'))
  /\ CachedPortCurrents' = UnitCurrent /\ UNCHANGED CachedIF
  /\ driven' = driven \cup {"ports"}
  /\ UNCHANGED <<input, G, places, substrate, step, StoredOmega, OmegaSIE, cache, M, untold, assembled, counts>>

Crashed == step = "crashed" /\ UNCHANGED vars

Next ==
  \/ \E f \in SubstrateFiles : SetSubstrateFile(f)
  \/ \E l \in Layers : AddSubstrateLayer(l)
  \/ PlotGeometry
  \/ \E S \in MovedSets, d \in Shifts : \E ns \in S : Transform(ns, d)
  \/ \E S \in MovedSets, d \in Shifts : TransformGeometry(S, d)
  \/ UnTransform \/ EnableSystemBlockCache
  \/ \E freq \in Frequencies : AssembleSystemMatrix(freq)
  \/ AssembleAll \/ UpdateSystemMatrix
  \/ \E c \in Currents : SolvePorts(c)
  \/ \E f \in IncFields : SolveField(f)
  \/ GetZMatrix \/ Crashed

Spec == Init /\ [][Next]_vars

-----------------------------------------------------------------------------
\* The state has the shape the code gives it.
TypeOK ==
  /\ MateOK /\ layout \in [Surfaces -> Int]
  /\ HasPorts \in BOOLEAN /\ ThreadBuffers \in BOOLEAN
  /\ G \in BOOLEAN /\ step \in {"ready", "assemble", "update", "crashed"}
  /\ GT \in [Surfaces -> Int] /\ SurfaceMoved \subseteq Surfaces
  /\ SubstrateFile \in SubstrateFiles \cup {None} /\ SubstrateLayers \subseteq Layers
  /\ SubstrateInitialized \in BOOLEAN /\ Substrate \in Substrates
  /\ StoredOmega \in Frequencies \cup {None}
  /\ OmegaSIE \in Frequencies \cup {Dirty} /\ OmegaPBFI \in Frequencies \cup {Dirty}
  /\ TBlocks \in TablesT \cup {None} /\ UBlocks \in TablesU \cup {None}
  /\ TBlocks = None <=> UBlocks = None
  /\ pending \subseteq Surfaces /\ untold \subseteq Surfaces /\ assembled \subseteq UpperPairs
  /\ movedSincePBFI \in BOOLEAN
  /\ CachedPortCurrents \in Currents \cup {None} /\ driven \subseteq {"ports", "field"}
  /\ CachedIF \in { AsPointSource(f) : f \in IncFields } \cup {None}

\* The block of a pair that was copied from, or stamped from, a block of surfaces
\* that had moved without G->SurfaceMoved telling of it.
MovedUntold(p) == LET q == SourceAt(M.pos, p) IN q[1] \in M.untold \/ q[2] \in M.untold

\* The block of a pair is taken from one that was last due when it was thought to
\* be equivalent to yet another one, and that was passed over.
PassedOver(p) == SourceAt(M.pos, p) \notin M.assembled

\* The block of a pair that was copied from below the diagonal.
CopiedTooEarly(p) ==
  M.how = "copies" /\ HasEquivalent(M.pos, p) /\ Flipped(FindEquivalentSurfacePair(M.pos, p))

\* The matrix that solves use is the one of the frequency and the substrate in
\* effect, and each of its blocks, whether computed, copied from an equivalent
\* pair, or kept from an earlier assembly, is that of the places the surfaces
\* had when it was assembled; with three exceptions.
MatrixRight ==
  step = "ready" /\ M # None =>
    /\ M.freq = StoredOmega /\ M.sub = Substrate
    /\ \A a \in Surfaces :
         M.blocks[<< a, a >>] = DiagonalBlock(M.freq, M.sub, M.pos, a)
    /\ \A p \in UpperPairs :
         \/ M.blocks[p] = Interaction(M.freq, M.sub, M.pos, p[1], p[2])
         \/ M.how = "cache" /\ (MovedUntold(p) \/ PassedOver(p))
         \/ CopiedTooEarly(p)

\* What the ports contribute to a solution belongs to the frequency and the
\* substrate of the matrix it was solved with, and to the places of its surfaces
\* if none moved since: a port matrix is never used beyond a change of frequency
\* or substrate, however calls are ordered.  (Without thread buffers it also has
\* what it had before.)
PortsRight ==
  KN # None /\ KN.rhs.kind = "ports" =>
    /\ \E c \in KN.rhs.bfi : c.freq = KN.freq /\ c.sub = KN.sub /\ (c.pos = KN.pos \/ KN.rhs.moved)
    /\ ThreadBuffers => Cardinality(KN.rhs.bfi) = 1

\* A field that is copied as something else: any but a single PointSource.
Miscopied(f) == AsPointSource(f) # f

\* The post-processing routines add to the fields of the solution those of the
\* cached port currents and of the cached incident field, if there are any: they
\* are those of the excitation that drove the solution, and of nothing else, with
\* two exceptions.  Neither cache is ever cleared, so that in an object that has
\* solved for both kinds the last excitation of the other kind is added too; and a
\* field that is not a single PointSource is kept as one.
ExcitationKept ==
  KN # None =>
    IF KN.rhs.kind = "ports"
      THEN /\ CachedPortCurrents = KN.rhs.drive
           /\ CachedIF = None \/ "field" \in driven
      ELSE /\ CachedIF = KN.rhs.drive \/ Miscopied(KN.rhs.drive)
           /\ CachedPortCurrents = None \/ "ports" \in driven

\* The pointer to the substrate points to one, except when the .scuffgeo file had
\* a SUBSTRATE section and nothing else was said of the substrate before the
\* geometry was created.
SubstrateLive == Substrate = Freed => FileSubstrate # NoSubstrate

\* The pair a pair is equivalent to is itself equivalent to another one, so that
\* its block is never assembled.  It happens to flipped pairs when there are
\* copies of surface 0, which the inner loop passes over.
Chained(p) == HasEquivalent(layout, p) /\ HasEquivalent(layout, SourceAt(layout, p))

\* The block cache never stamps a block that was not assembled as long as the
\* surfaces stay where they are, whatever is enabled, set or assembled when,
\* except where equivalences chain.
StampsAssembled == step = "crashed" => moves > 0 \/ \E p \in UpperPairs : Chained(p)
=============================================================================
