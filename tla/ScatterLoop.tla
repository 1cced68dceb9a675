---------------------------- MODULE ScatterLoop ----------------------------
(***************************************************************************)
(* The loops over frequencies and transformations of scuff-scatter (main)  *)
(* and of scuff-ldos (GetLDOS, compact geometries), with the T-block files *)
(* of TBlockCacheOp, which outlive a run and are shared by runs with other *)
(* materials.                                                              *)
(*                                                                         *)
(* With one transformation the matrix is assembled as a whole by           *)
(* AssembleBEMMatrix; with several the diagonal blocks are assembled once  *)
(* per frequency, the others for each transformation.                      *)
(***************************************************************************)
EXTENDS TransformedGeometry

CONSTANTS Meshes,        \* mesh files with tags
          FileBase,      \* the base name of a mesh file, with the tag
          NumBFs,        \* the number of basis functions of a mesh
          Materials,
          ScuffGeos,     \* bound: meshes, materials and mates of the surfaces, in some geometries
          MaxOmega,      \* the frequencies are 0 .. MaxOmega-1
          Printed,       \* a frequency as %.6e prints it
          ImagOmega,     \* the imaginary ones, at which blocks are real
          NumXMatrices,  \* files of evaluation points of scuff-ldos
          MaxRuns,       \* bound: runs that share a directory of T-block files
          Absent, Torn,  \* what a T-block file may be: missing, not of size DataSize
          None

Omegas == 0..MaxOmega - 1

\* Mate[ns]: the first earlier surface with the same mesh and materials, or 0.
Duplicate(g, ns, nsp) == g.mesh[ns] = g.mesh[nsp] /\ g.material[ns] = g.material[nsp]
MateOK(g) ==
  \A ns \in Surfaces :
    /\ g.mate[ns] \in 0..ns - 1
    /\ g.mate[ns] # 0 => Duplicate(g, ns, g.mate[ns])
    /\ \A nsp \in 1..ns - 1 : Duplicate(g, ns, nsp) => g.mate[ns] \in 1..nsp

ASSUME LoopAssumption ==
  /\ ScuffGeos \subseteq [mesh : [Surfaces -> Meshes], material : [Surfaces -> Materials],
                           mate : [Surfaces -> Nat]]
  /\ NumBFs \in [Meshes -> Nat \ {0}]
  /\ \A g \in ScuffGeos : MateOK(g)
  /\ MaxOmega \in Nat \ {0} /\ ImagOmega \subseteq Omegas
  /\ DOMAIN Printed = Omegas
  /\ NumXMatrices \in Nat \ {0} /\ MaxRuns \in Nat \ {0}

VARIABLES
  ldos,              \* the program is scuff-ldos, otherwise scuff-scatter
  NeedIncidentField, \* scuff-scatter has an output to compute
  TBlockPath,        \* the directory is unset, read from, or read from and written to
  geo,               \* the .scuffgeo file of the run
  step, runs, n, nt, ns0,
  loaded,            \* the surfaces whose diagonal block came from a file, and
  unread,            \* those whose file could not be read though it fits
  T, U, M,           \* what the blocks and the matrix were assembled for
  files,             \* the T-block files
  Result, nm, row    \* scuff-ldos: the array of results, the last row of output

loop    == <<step, runs, n, nt, ns0>>
inputs  == <<ldos, NeedIncidentField, TBlockPath, geo>>
outputs == <<Result, nm, row>>
reads   == <<loaded, unread>>
vars    == <<geometry, inputs, loop, reads, T, U, M, files, outputs>>

NumTransformations == Len(GTCs)

HasMate(ns) == geo.mate[ns] # 0
Owner(ns) == IF HasMate(ns) THEN geo.mate[ns] ELSE ns

\* A diagonal block does not depend on where its surface is.  A file has the
\* first half of its storage, the left columns: the sizes of real and complex
\* entries are exchanged in DataSize.  The parts of a block are the entries of
\* this half whose mirror is in it too (lead), those below the diagonal whose
\* mirror is not (below), and the other half (rest).
Self(freq, mesh, mat) == [omega |-> freq, mesh |-> mesh, material |-> mat]
Own(ns)     == Self(n, geo.mesh[ns], geo.material[ns])
Whole(part) == [lead |-> part, below |-> part, rest |-> part]
Transposed(block) == [how |-> "transpose", of |-> block]

\* What is below the diagonal becomes the transpose of what is above, diagonal
\* blocks included.
Symmetrized(block) == [lead |-> block.lead, below |-> block.rest, rest |-> block.rest]
Symmetric(matrix) ==
  [T |-> [ns \in Surfaces |-> Symmetrized(matrix.T[ns])], U |-> matrix.U,
   L |-> [p \in Pairs |-> Transposed(matrix.U[p])]]

\* The conjugate transpose; at imaginary frequencies blocks are real.
Adjoint(block) ==
  IF n \in ImagOmega THEN Transposed(block) ELSE [how |-> "adjoint", of |-> block]

FileNames == { FileBase[mesh] : mesh \in Meshes } \X { Printed[k] : k \in Omegas }
FileName(ns) == <<FileBase[geo.mesh[ns]], Printed[n]>>
Complete(f) == files[f] \notin {Absent, Torn}

EmptyMatrix == [T |-> [ns \in Surfaces |-> Whole(None)],
                U |-> [p \in Pairs |-> None], L |-> [p \in Pairs |-> None]]

RunInit ==
  /\ step = "omega" /\ n = 0 /\ nt = 1 /\ ns0 = 1 /\ nm = 1
  /\ loaded = {} /\ unread = {}
  /\ T = [ns \in Surfaces |-> Whole(None)] /\ U = [p \in Pairs |-> None]
  /\ M = EmptyMatrix
  /\ Result = [k \in 1..NumXMatrices |-> None] /\ row = None

Init ==
  /\ GeometryInit
  /\ ldos \in BOOLEAN /\ NeedIncidentField \in BOOLEAN
  /\ TBlockPath \in {"unset", "read", "read and write"}
  /\ geo \in ScuffGeos
  /\ runs = 1 /\ files = [f \in FileNames |-> Absent]
  /\ RunInit

\* A finished or killed run is followed by one of the same program in the same
\* directory, perhaps of a geometry with other materials.
RunAgain ==
  /\ runs < MaxRuns /\ runs' = runs + 1
  /\ step' = "omega" /\ n' = 0 /\ nt' = 1 /\ ns0' = 1 /\ nm' = 1
  /\ loaded' = {} /\ unread' = {}
  /\ T' = [ns \in Surfaces |-> Whole(None)] /\ U' = [p \in Pairs |-> None]
  /\ M' = EmptyMatrix
  /\ Result' = [k \in 1..NumXMatrices |-> None] /\ row' = None
  /\ geo' \in ScuffGeos
  /\ GT' = Home /\ SurfaceMoved' = {}
  /\ UNCHANGED <<GTCs, ldos, NeedIncidentField, TBlockPath, files>>

-----------------------------------------------------------------------------
StartOmega ==
  /\ step = "omega" /\ step' = "self"
  /\ ns0' = 1 /\ nt' = 1 /\ loaded' = {} /\ unread' = {}
  /\ UNCHANGED <<geometry, inputs, runs, n, T, U, M, files, outputs>>

Single == NumTransformations = 1

\* What the storage into which a file is read holds already: the block of the
\* surface, a new one, or the matrix itself if it is no more than this block.
Held(ns) == IF ~Single THEN T[ns] ELSE IF NS = 1 THEN M.T[ns] ELSE Whole(None)

\* Mutant: the file is read without a look at its size.
FitsAnySize(ns) == TBlockPath # "unset" /\ files[FileName(ns)] # Absent

\* The file of the surface has the size of its block, though it may be of
\* another mesh of the same base name.
Fits(ns) ==
  /\ TBlockPath # "unset" /\ Complete(FileName(ns))
  /\ NumBFs[files[FileName(ns)].mesh] = NumBFs[geo.mesh[ns]]

\* AssembleBEMMatrixBlock(ns, ns): TBlockCacheOp(TBCOP_READ) succeeds, with
\* which the block is taken to be complete ...
ReadSelf ==
  /\ step = "self" /\ ns0 <= NS /\ ~HasMate(ns0)
  /\ Fits(ns0)
  /\ LET content == files[FileName(ns0)]
         block   == [lead |-> content, below |-> content, rest |-> Held(ns0).rest]
     IN  IF Single THEN M' = [M EXCEPT !.T[ns0] = block] /\ UNCHANGED T
                   ELSE T' = [T EXCEPT ![ns0] = block] /\ UNCHANGED M
  /\ loaded' = loaded \cup {ns0}
  /\ ns0' = ns0 + 1
  /\ UNCHANGED <<geometry, inputs, step, runs, n, nt, unread, U, files, outputs>>

\* GetSurfaceSurfaceInteractions fills in the lower triangle of the matrix it is
\* given, which is that of all surfaces if there is one transformation.
Compute(ns) ==
  IF Single THEN M' = Symmetric([M EXCEPT !.T[ns] = Whole(Own(ns))]) /\ UNCHANGED T
            ELSE T' = [T EXCEPT ![ns] = Whole(Own(ns))] /\ UNCHANGED M

\* TBlockCacheOp(TBCOP_WRITE), which may fail to open the file or to write all
\* of it.
WriteSelf(ns) ==
  \/ UNCHANGED files
  \/ /\ TBlockPath = "read and write"
     /\ \E content \in {Own(ns), Torn} : files' = [files EXCEPT ![FileName(ns)] = content]

\* Mutant: a block is computed and written whether it could be read or not.
AssembleSelfAlways ==
  /\ step = "self" /\ ns0 <= NS /\ ~HasMate(ns0)
  /\ Compute(ns0) /\ WriteSelf(ns0)
  /\ ns0' = ns0 + 1
  /\ UNCHANGED <<geometry, inputs, step, runs, n, nt, reads, U, outputs>>

\* ... or there is no such file, or it cannot be opened or read to its end, and
\* the block is computed and written.
AssembleSelf ==
  /\ step = "self" /\ ns0 <= NS /\ ~HasMate(ns0)
  /\ unread' = IF Fits(ns0) THEN unread \cup {ns0} ELSE unread
  /\ Compute(ns0) /\ WriteSelf(ns0)
  /\ ns0' = ns0 + 1
  /\ UNCHANGED <<geometry, inputs, step, runs, n, nt, loaded, U, outputs>>

\* AssembleBEMMatrix copies the mate's block within the matrix; otherwise
\* TBlocks[ns] is the mate's.
CopyMate ==
  /\ step = "self" /\ ns0 <= NS /\ HasMate(ns0)
  /\ M' = IF Single THEN [M EXCEPT !.T[ns0] = M.T[geo.mate[ns0]]] ELSE M
  /\ ns0' = ns0 + 1
  /\ UNCHANGED <<geometry, inputs, step, runs, n, nt, reads, T, U, files, outputs>>

UBlocks == [p \in Pairs |-> BlockAt(n, p)]

\* The other blocks, which AssembleBEMMatrix computes for the present places
\* before it fills in the lower triangle of the whole matrix.
AssembleRest ==
  /\ step = "self" /\ ns0 > NS
  /\ step' = "transformation"
  /\ M' = IF Single THEN Symmetric([M EXCEPT !.U = UBlocks]) ELSE M
  /\ UNCHANGED <<geometry, inputs, runs, n, nt, ns0, reads, T, U, files, outputs>>

\* scuff-ldos with a single transformation does not apply it.
Applied == ~(ldos /\ Single)

ApplyTransformation ==
  /\ step = "transformation" /\ nt <= NumTransformations
  /\ IF Applied THEN Transform(nt) ELSE UNCHANGED geometry
  /\ step' = IF Single THEN "export" ELSE "blocks"
  /\ UNCHANGED <<inputs, runs, n, nt, ns0, reads, T, U, M, files, outputs>>

\* Mutant: as scuff-neq does, only blocks of surfaces that moved are computed.
AssembleBlocksMoved ==
  /\ step = "blocks" /\ step' = "stamp"
  /\ U' = [p \in Pairs |-> IF nt = 1 \/ p[1] \in SurfaceMoved \/ p[2] \in SurfaceMoved
                           THEN UBlocks[p] ELSE U[p]]
  /\ UNCHANGED <<geometry, inputs, runs, n, nt, ns0, reads, T, M, files, outputs>>

AssembleBlocks ==
  /\ step = "blocks" /\ step' = "stamp"
  /\ U' = UBlocks
  /\ UNCHANGED <<geometry, inputs, runs, n, nt, ns0, reads, T, M, files, outputs>>

\* InsertBlock and InsertBlockAdjoint.
Stamp ==
  /\ step = "stamp" /\ step' = "export"
  /\ M' = [T |-> [ns \in Surfaces |-> T[Owner(ns)]], U |-> U,
           L |-> [p \in Pairs |-> Adjoint(U[p])]]
  /\ UNCHANGED <<geometry, inputs, runs, n, nt, ns0, reads, T, U, files, outputs>>

\* The matrix is exported; without an incident field `continue' skips the rest.
Solves == ldos \/ NeedIncidentField

Continue ==
  /\ step = "export" /\ ~Solves
  /\ step' = "transformation" /\ nt' = nt + 1
  /\ UNCHANGED <<geometry, inputs, runs, n, ns0, reads, T, U, M, files, outputs>>

\* LUFactorize works in place; the solutions are made from it, the right-hand
\* sides and the fields from the present places of the surfaces.
LUFactorize ==
  /\ step = "export" /\ Solves
  /\ step' = "restore"
  /\ M' = EmptyMatrix
  /\ UNCHANGED <<geometry, inputs, runs, n, nt, ns0, reads, T, U, files, outputs>>

\* Mutant: the last transformation of a frequency is not undone.
RestoreForNext ==
  /\ step = "restore" /\ step' = "transformation" /\ nt' = nt + 1
  /\ IF Applied /\ nt < NumTransformations THEN UnTransform ELSE UNCHANGED geometry
  /\ UNCHANGED <<inputs, runs, n, ns0, reads, T, U, M, files, outputs>>

Restore ==
  /\ step = "restore" /\ step' = "transformation" /\ nt' = nt + 1
  /\ IF Applied THEN UnTransform ELSE UNCHANGED geometry
  /\ UNCHANGED <<inputs, runs, n, ns0, reads, T, U, M, files, outputs>>

\* scuff-ldos goes through the transformations again to write the results.
StartOutput ==
  /\ step = "transformation" /\ nt > NumTransformations /\ ldos
  /\ step' = "rows" /\ nt' = 1 /\ nm' = 1
  /\ UNCHANGED <<geometry, inputs, runs, n, ns0, reads, T, U, M, files, Result, row>>

Value(freq, trans, matrix) == [omega |-> freq, transformation |-> trans, matrix |-> matrix]

\* GetLDOS appends the values of this transformation and file of points to
\* Result, which has room for one transformation; WriteData reads them at an
\* offset that depends on the file of points alone.  A store past the end of
\* the array may end the program or go unnoticed.
WriteRow ==
  LET k == (nt - 1) * NumXMatrices + nm
  IN  /\ step = "rows" /\ nt <= NumTransformations
      /\ Result' = IF k <= NumXMatrices THEN [Result EXCEPT ![k] = Value(n, nt, nm)] ELSE Result
      /\ row' = [omega |-> n, label |-> nt, matrix |-> nm, value |-> Result'[nm]]
      /\ IF nm < NumXMatrices THEN nm' = nm + 1 /\ nt' = nt ELSE nm' = 1 /\ nt' = nt + 1
      /\ step' \in {"rows"} \cup (IF k > NumXMatrices THEN {"crashed"} ELSE {})
      /\ UNCHANGED <<geometry, inputs, runs, n, ns0, reads, T, U, M, files>>

NextOmega ==
  /\ nt > NumTransformations
  /\ step = IF ldos THEN "rows" ELSE "transformation"
  /\ n' = n + 1
  /\ step' = IF n' < MaxOmega THEN "omega" ELSE "done"
  /\ UNCHANGED <<geometry, inputs, runs, nt, ns0, reads, T, U, M, files, outputs>>

Stopped == step \in {"done", "crashed"} /\ runs = MaxRuns /\ UNCHANGED vars

Next ==
  \/ RunAgain \/ StartOmega \/ ReadSelf \/ AssembleSelf \/ CopyMate \/ AssembleRest
  \/ ApplyTransformation \/ AssembleBlocks \/ Stamp \/ Continue \/ LUFactorize \/ Restore
  \/ StartOutput \/ WriteRow \/ NextOmega \/ Stopped

Spec == Init /\ [][Next]_vars

-----------------------------------------------------------------------------
\* The state has the shape the code gives it: the loops stay in their bounds and
\* the geometry is at home at the start of a frequency if every transformation
\* was undone.
TypeOK ==
  /\ step \in {"omega", "self", "transformation", "blocks", "stamp", "export", "restore",
               "rows", "done", "crashed"}
  /\ n \in 0..MaxOmega /\ nt \in 1..NumTransformations + 1 /\ ns0 \in 1..NS + 1
  /\ loaded \subseteq Surfaces /\ unread \subseteq Surfaces
  /\ Solves /\ step \in {"omega", "self", "rows", "done"} => GT = Home

\* The matrix that is exported, factorized and solved.
InUse == step = "export"

\* A surface of the pair that transformation k moves.
Moves(p, k) == p[1] \in GTCs[k] \/ p[2] \in GTCs[k]

\* Exceptions: a single transformation comes after the matrix or not at all; a
\* run without incident fields adds each transformation to the ones before; and
\* the blocks below the diagonal are conjugated if there are several
\* transformations, which shows at frequencies that are not imaginary.
TooLate(p)     == Single /\ Moves(p, 1)
Accumulated(p) == ~Solves /\ \/ \E k \in 1..nt - 1 : Moves(p, k)
                             \/ n > 0 /\ \E k \in 1..NumTransformations : Moves(p, k)
Conjugated     == ~Single /\ n \notin ImagOmega

\* The blocks that couple two surfaces are of this frequency and of the
\* geometry that this transformation gives when applied to the original state
\* (doc/docs/reference/Transformations.md), and those below the diagonal are
\* their transposes, with the named exceptions.
MatrixRight ==
  InUse => \A p \in Pairs :
             /\ M.U[p] = RightBlock(n, p, nt) \/ TooLate(p) \/ Accumulated(p)
             /\ M.L[p].of = M.U[p]
             /\ M.L[p].how = "transpose" \/ Conjugated

\* What the name and the size of a T-block file tell of its content.
SameName(ns) ==
  { Self(k, mesh, mat) :
      k \in { j \in Omegas : Printed[j] = Printed[n] },
      mesh \in { m \in Meshes : /\ FileBase[m] = FileBase[geo.mesh[ns]]
                              /\ NumBFs[m] = NumBFs[geo.mesh[ns]] },
      mat \in Materials }

\* A diagonal block that was not read from a file is that of its own surface, for
\* this frequency and these materials, all of it.  One that was read is that of a
\* mesh of the same base name and size at the same printed frequency, perhaps of
\* other materials, but only in the first half of its storage; if there is one
\* transformation, the part of this half below the diagonal is overwritten from
\* the half that was not read.
SelfBlocksRight ==
  InUse => \A ns \in Surfaces :
             IF Owner(ns) \in loaded
               THEN /\ M.T[ns].lead \in SameName(ns)
                    /\ M.T[ns].below = IF Single THEN M.T[ns].rest ELSE M.T[ns].lead
               ELSE M.T[ns] = Whole(Own(ns))

\* A T-block file that fits a surface which needs it is never written again by
\* that surface unless it could not be opened or read: a file changes only for a
\* surface that it does not fit or that could not read it, and then has the
\* block of this surface or is left incomplete.
FilesKept ==
  [][\A f \in FileNames :
       files'[f] # files[f] =>
         \E ns \in Surfaces \ loaded : /\ FileName(ns) = f
                                      /\ Fits(ns) => ns \in unread'
                                      /\ files'[f] \in {Own(ns), Torn}]_vars

\* Each output quantity is reported separately for each transformation
\* (doc/docs/reference/Transformations.md): the row that is labelled with a
\* transformation has the values of this transformation.
ReportedSeparately == row # None => row.value = Value(row.omega, row.label, row.matrix)
=============================================================================
