# scuff-em in TLA+

A verification project for the boundary-element code scuff-em: TLA+ modules of
the parts of the program that have state worth reasoning about, TLC runs that
check them on small instances, and TLAPS proofs of what matters most for every
size. Source paths below are relative to `src/`.

scuff-em is numerical code. What can go wrong in it beyond a wrong formula is
*reuse*: nearly every layer keeps results (integrals, pairs of edges, matrix
blocks, matrices, solutions, files) and decides later, from a key, a flag, a
counter or the history of a loop, that a kept result is the one it needs. The
modules here model those decisions with their interleavings, failures and
crashes, and state that what is used is what would have been computed. The
numbers themselves are abstracted to what they depend on: an integral is the
class of its pair of edges, a matrix block is the frequency and the places of its
two surfaces for which it was assembled.

## 1. The system

### Layers and how they interact

    applications     scuff-cas3D   scuff-neq   scuff-static   scuff-scatter, -ldos, -rf, ...
                          |            |            |            (drivers: loops over frequencies,
                          |            |            |             transformations, excitations)
                     Transform / UnTransform, AssembleBEMMatrixBlock, LUFactorize, files
                          |            |            |
    libscuff         RWGGeometry (surfaces, regions, mates)     libStaticSolver, libscuffSolver
                     block assembly (2009-2018 routine, 2018 routine with edge-pair tables)
                          |
                     panel and edge-pair integrals  <-- FIBBI cache, FIPPI cache (shared by
                          |                              threads, kept in files between runs)
    support          libhmat (matrices, HDF5), libhrutil, libMatProp, libIncField,
                     libSubstrate, libSGJC, libTriInt, libMDInterp

Everything is calls within one process; threads exist only inside the parallel
loops of block assembly and of the edge-pair tables (OpenMP). Processes meet in
files: the `.scuffcache` files, T-block files, `.byXi` files and HDF5 solutions.

### Inventory

| component | state it keeps | operations | what is hard | what makes it correct |
|---|---|---|---|---|
| **Edge-pair tables** `libs/libscuff/EquivalentEdgePairs.cc` | maps from parents to children, from children to parents, from signatures to representatives; one per thread, then merged | constructor (parallel scan, sequential merge), AddEquivalentPair, ReParent, HasParent, GetParents, GetChildren | any distribution of pairs to threads; the merge changes the representative of a class | the result is a two-level forest, the same for every number of threads |
| **Block assembly, 2018** `AssembleBEMMatrix2018.cc` | the block; the tables, created at the first call and kept | parallel computation of pairs without a parent, children, lower triangle | entries computed by other threads; tables kept while surfaces move | every entry is that of its own pair at this frequency and placement |
| **Block assembly, 2009-2018** `AssembleBEMMatrix.cc`, `SurfaceSurfaceInteractions.cc` | T-block files; accelerators of periodic geometries | AssembleBEMMatrix(Block), TBlockCacheOp, CreateABMBAccelerator | keys that leave out what a block depends on | a block that is read or kept is the one that would be computed |
| **FIBBI cache** `FIBBICache.cc` | hash table, read-write lock, counters, name and record count of the last file | GetFIBBIData, PreLoad, Store | threads between unlock and lock; insertion rehashes; crash or error inside Store; skip test of Store | each caller gets integrals of its own key; nothing stored is lost by skipping |
| **FIPPI cache** `FIPPICache.cc` | the same for panel pairs | GetQIFIPPIData, PreLoad, Store | as above | as above |
| **Geometry** `RWGGeometry.cc`, `RWGSurface.cc`, `InitEdgeList.cc`, `GTransformation.cc` | surfaces, regions, mates, nesting; each surface's accumulated transformation; SurfaceMoved | read files, Transform, UnTransform, UpdateCachedEpsMuValues | Transform acts on the current place, not the original one | after UnTransform every surface is at home |
| **scuff-cas3D** `applications/scuff-cas3D` | T and U blocks, the matrix, integrand slots, convergence flags and sums; the `.byXi` file shared by runs | GetCasimirIntegrand under a list of frequencies, a Matsubara sum, quadratures; CacheRead, GetXiIntegrand | reuse across transformations and frequencies; transformations skipped once converged; runs that are killed while they append and runs that read what others wrote | each integrand comes from the matrix of its frequency and transformation and lands in its slot, computed or read; sums have no holes |
| **scuff-neq** `applications/scuff-neq` | exterior and interior parts of T blocks, U blocks, regions switched off | WriteFlux for each frequency | regions switched on and off around each block; reuse of U blocks | sources and matrix made of the right parts |
| **scuff-static** `applications/scuff-static` | T and U blocks, equivalent pairs of surfaces, solution, HDF5 file | CreateBMAccelerator, ReassembleBEMMatrix, FileOp, outputs | three kinds of reuse at once; kill and rerun | matrix of the transformation at hand; outputs labelled with what they were computed for |
| **scuff-scatter, scuff-ldos** `applications/scuff-scatter`, `applications/scuff-ldos` | T and U blocks, matrix, T-block files, rows of results | loop over frequencies, transformations, incident fields or points | `continue` before UnTransform; one transformation is a special case; runs with other materials in one directory of T-block files | matrix of the frequency and transformation at hand, diagonal blocks of the materials at hand, rows with their own label |
| **scuff-caspol** | nothing between points | Brillouin-zone integrands | none of the kinds above | numerical accuracy |
| **libscuffSolver, scuff-rf** `libs/libscuffSolver` | substrate notes, matrix, block cache, port matrix, solution, cached excitation, each with its own mark of what makes it stale | SetSubstrateFile, AddSubstrateLayer, Transform, UnTransform, EnableSystemBlockCache, AssembleSystemMatrix, Solve, GetZMatrix | any order of calls; two ways of moving a surface, one of which tells the geometry; blocks of equivalent pairs | a solve uses the matrix, port matrix and substrate of its frequency and places |
| **libSubstrate, GBarAccelerator** | interpolation tables with their ranges | init, query | table kept when the range grows | no query outside the table's range |
| **PBC, PFT, fields, excitations, libhmat, libMatProp, libIncField, libSGJC, libTriInt, libMDInterp, libSpherical, other applications** | results only, or options | numerical routines | none of the kinds above, or only in library code | numerical accuracy, outside TLA+ |

`PROJECT.json` lists every component with its sources and says for each one that
is not modelled why; it also lists the hazards, each at its line.

## 2. Modules

| module | models |
|---|---|
| `EquivalentEdgePairs` | `EquivalentEdgePairTable`: a step per pair a thread scans, per parent and per child of the merge |
| `BEMBlock2018` | extends it with `AssembleBEMMatrixBlock2018`: table at the first call, dynamic schedule, barrier, children, lower triangle, surfaces moved between calls |
| `FIBBICache` | `GetFIBBIData` by threads, a step per lock operation, lookup, counter load and store |
| `MemoTable` | abstract specification: a table of values that answers with a value of the key it was asked for and never changes its mind about a recorded one |
| `FIBBICacheFile` | the constructor, `PreLoad` and `Store` of a process, with its end at any moment and failing reads, opens and writes |
| `TransformedGeometry` | `RWGGeometry::Transform` and `UnTransform`, shared by the applications' loops, and what the documentation promises of a `.trans` file |
| `CasimirIntegrand` | `GetCasimirIntegrand` under two of its drivers: the list of frequencies of `main` and `GetMatsubaraSum` |
| `CasimirRuns` | extends it with the runs of a directory: the `.byXi` file that `GetXiIntegrand` appends to and `CacheRead` reads, runs killed anywhere |
| `WriteFlux` | `WriteFlux` and the frequency loop of scuff-neq |
| `BMAccelerator` | `CreateBMAccelerator`, `GetEquivalentPairMatrix`, `ReassembleBEMMatrix` and the transformation loop |
| `ScuffStatic` | extends it with the rest of scuff-static's `main`: solution file, excitations, kills and reruns |
| `ScatterLoop` | the loops of scuff-scatter's `main` and of `GetLDOS`, over `TransformedGeometry`, with `TBlockCacheOp` and the files it leaves to later runs |
| `SurfacePairs` | `FindEquivalentSurfacePair` and the two ways in which libscuffSolver assembles a whole matrix, as operators |
| `RFSolver` | a `scuffSolver` object over them: every public call that changes state, in any order |
| `MC*` | instances for TLC |
| `*_proof` | theorems and their proofs |

How state and actions correspond to the code:

*Edge-pair tables.* `table[nt]` is the branch table of thread `nt` (three maps, an
absent key is `None`), `todo[nt]` the rest of its iterations, `branch`,
`parentsLeft`, `branchParent`, `treeParent`, `kidsLeft` the locals of
`MergeEEPSubTables`. `AddEquivalentPair` and `ReParent` are operators on tables
with the names and the branches of the routines. The signature up to sign, and the
thread a hash sends a pair to, are arbitrary functions chosen in `Init`.

*Block assembly.* An entry records kernel, class of the pair, sign and call; 0 is
what the storage held before. `inFlight` is the pair each thread computes.
`Transform` changes the classes of pairs between two surfaces, not within one.

*FIBBI cache.* `pc` has a value for every point between two accesses to shared
memory. `Hits++` is a load and a store. A key stands for several pairs, because it
is rounded to floats, and pairs of one key have integrals that differ in the last
bits.

*Cache file.* A file is its signature, whole records and possibly a torn one. What
a dead or failing process leaves is any prefix; the order of records in it is that
of a hash map, so any subset may come first.

*Transformations.* `GT[ns]` is the sequence of transformations applied to a surface
since it was at home. `Block(freq, here, there)` is what a block was assembled
for. `RightBlock` is that of the geometry `doc/docs/reference/Transformations.md`
describes: every section applied to the original state.

*The `.byXi` file.* A line is its tag, its frequency and its values; a preamble is a
line without any. A value is the set of integrands it sums, so that zero is the
empty set and a number cut short is `{NoIntegrand}`. The frequency of an integrand is
its place in the run's list while a run works with it (`Integrand`) and the frequency
itself in the file (`Recorded`, `Taken`). A job is what a run is asked for; runs that
share a file may have different ones. `Compute` and `GoOn` are the actions of
`CasimirIntegrand`, with the convergence test of `GetMatsubaraSum` made as exact as
the values allow (zero added is no change, a zero sum has no relative change).

*scuff-scatter, scuff-ldos.* A diagonal block is kept in three parts, since a T-block
file has the first half of its storage, columns first: of this half, the entries whose
mirror is in it too (`lead`) and those below the diagonal whose mirror is not (`below`);
the other half is `rest`. With one transformation what is below the diagonal is
overwritten by what is above, in blocks that were read too (`Symmetrized`): by
`AssembleBEMMatrix` at its end, and by each computed diagonal block in the whole matrix.
`files` maps the base name of a mesh file and a printed frequency to a file that is
absent, torn, or the half of a block. A file is read if it has the right size (`Fits`:
`NumBFs`); opening or reading it may fail all the same, and then the block is computed
and written (`unread` is the history of this). `ldos`, `NeedIncidentField`, `TBlockPath` and
`geo` choose among the program's paths. `LUFactorize` works in place and leaves no
matrix; `row` is the last line of output with its label.

*libscuffSolver.* Places are integers on a line. `M` records the blocks together
with what was in effect when they were made. `OmegaSIE`, `OmegaPBFI` and `StoredOmega`
are the marks the code compares; `pending`, `untold`, `assembled`,
`movedSincePBFI` and `driven` are history the code does not keep, in terms of which the
exceptions are stated. Every incident field is kept as a PointSource
(`AsPointSource`), because the casts of `Solve` never fail. `AssembleSystemMatrix` only takes the branch; `AssembleAll`
and `UpdateSystemMatrix` are the two ways on from there, the latter ending in
`"crashed"` where the code would stamp a block that was never allocated.

*scuff-cas3D, scuff-neq, scuff-static.* `TBlocks`/`T`, `U`/`UBlocks` hold what each
block was last assembled for, `M` what was stamped. `step`, `n`, `nt` are the
control of the loops. In `ScuffStatic` the file is absent, broken, or one dataset
with its label, because every write truncates it. Its surfaces lie on a line; a motion
turns round or not and then displaces. `Vertices` is where each surface is, `Position` where
a transformation puts it, and `Told` where the search for equivalent pairs takes it to
be: BMAccelerator.cc:113-123 composes the transformation before the placement by the
`.scuffgeo` file, `RWGSurface::Transform` after it. For displacements the two agree; on a
line a turn commutes with no displacement, so every turn of a surface that is not
at 0 shows the difference (`OutOfOrder`).

## 3. Runs

| run | instance | what it shows |
|---|---|---|
| `eep_table` | 6 pairs of 3 edges, 3 threads, 2 signatures, all assignments | two-level forest at every step, the same table whatever the threads, no pair forgotten by a merge |
| `block_offdiag`, `block_diag` | two surfaces with 2x2 edges and 2 threads; one surface with 3 edges and 1 thread, so that entries below the diagonal are filled in that nothing else has written; 1 or 2 functions per edge, 2 calls, 1 move, with and without tables | every entry filled in is right, but for pairs whose parent is out of date |
| `fibbi_cache` | 2 threads, 3 pairs on 2 keys, 4 calls | no look-up during an insertion, a record for every call that returned, counters that never overcount, no lost wake-up; refinement of `MemoTable` |
| `cache_file` | 3 records, every earlier pair of files, every set of faults | a skipped Store would not have changed the file; what a whole file ever held is lost only through a Store that is cut short, unless a read failed |
| `casimir` | 3 surfaces with a mate, 3 files of 2 transformations, 2 quantities, 2 runs of any of 5 jobs of 4 frequencies, killed anywhere, with one `.byXi` file | right matrix, right values whether computed or read, sums without holes, with named exceptions |
| `casimir_skipped` | one run, every file of 2 transformations, sums of up to 5 terms converging in any order | **violation**: a block of an earlier frequency when the first transformation has converged |
| `flux` | 3 bodies, one nested, every file of 3 transformations, 2 frequencies | regions and blocks, but for surfaces that went home |
| `static` | 6 bodies, 1 or 2 meshes, in rows of many orders and one in which equivalences chain, moves and turns of any of four by one transformation, substrate, excitations, 2 runs with a kill anywhere | blocks, labels of the file and of outputs |
| `rf_solver` | 4 copies and one other surface in a row or with two exchanged, or 5 copies; 2 frequencies, 2 moves, 2 assemblies, 1 substrate call, any solves between | matrix, port matrix, excitation kept and substrate in effect, with named exceptions |
| `scatter` | 3 surfaces of meshes of one base name, two of which have one size, and 1 or 2 materials, 1 or 2 transformations, 3 frequencies (2 print alike, 1 is imaginary), 2 runs | matrix and diagonal blocks with named exceptions; no T-block file is written again by a surface that it fits, unless it could not be read |
| `ldos_rows` | the same | **violation**: rows of scuff-ldos labelled with the second transformation have the values of the first |

Every property of a passing run has a mutant: an operator `... Mutant: ...` next to
the one it would replace, a plausible slip under which the property fails.

Bounds and why they are enough:
* *6 pairs, 3 threads*: two branches are merged one after the other, and classes of
  up to six pairs let either branch bring a parent less than the tree's, with
  children on both sides.
* *2x2 edges*: a parent with three children, and all four kernels of the 2x2
  sub-block. The second call meets the first one's table and storage.
* *3 edges* (`block_diag`): the first number at which the part of the lower triangle that
  is filled in has an entry nothing else writes. One thread, because what two may do
  to a block is seen in `block_offdiag`.
* *2 threads, 4 calls* (`FIBBICache!MaxCalls`): two threads that miss the same key,
  a third call that hits while one inserts, and a fourth that finds what stayed.
* *3 records*: a file that lacks one record of the table and has one it lacks.
* *transformations*: three make "moved, left alone, moved again" and "moved by the
  one before last" (scuff-neq); two suffice for scuff-cas3D and scuff-scatter, whose
  tests look at one frequency only. In `casimir_skipped` sums of five frequencies meet
  every convergence order; in `casimir` four frequencies make a converged sum get
  one more term, with six sets of sums that converge together (`SmallSets`).
* *jobs* (`Jobs`, `MaxRuns` 2): a sum, one at twice the temperature whose frequencies
  are every other one, a list with another quantity that repeats a frequency, one that
  asks twice for the same frequency under tags that coincide, and one with the tags the
  other way round. Two runs already let a
  run read what was cut short, what converged and what is of others; a third run
  (12 million states) showed nothing new and is left out.
* *6 bodies* (`static`): the first number at which equivalences can chain. In one of the
  layouts the pair 5, 6 is the pair 4, 3 and the pair 3, 4 is the pair 1, 3; in the others
  the first five stand in any order with one place to spare, so that distances differ
  and a pair may be another one turned round. One transformation moves any of the first
  four of a row, all alike, each by its own distance, all round one point, or each round
  a point of its own so that the search finds a pair in one surface (`OnSpot`).
* *5 surfaces* (`rf_solver`, numbered from 0): the first number with a flipped pair and
  with one that takes its block from a pair that takes its own from a third.
  `MaxMoves` 2 lets a surface move and return, or move twice in the two ways;
  `MaxAssemblies` 2 is one that fills the cache and one that reuses it; `MaxSettings` 1
  is a change of substrate before or after the first assembly. The frequencies are
  interchangeable, so that symmetry is sound.
* *meshes* (`scatter`): two files of one base name and one size, which share T-block
  files, and one of another size, which takes their name but not their files.
* *3 frequencies* (`scatter`): two that share a T-block file and one at which blocks
  are real. `MaxRuns` 2: the second run meets the first one's files with other
  materials.
* `MaxXiPoints`, `MaxOmega`, `MaxMoves` 1 in the block runs, `NumExcitations` 2 bound loops
  that the code bounds by its input.

`CHECK_DEADLOCK FALSE` stands where the routine simply ends (the table is built,
all calls are made); the applications' modules have a step for that instead.

Fairness: only `FIBBICache!FairSpec` needs it, weak fairness of each thread's next
step inside a call. The threads belong to an OpenMP loop the process waits for, so
none is suspended for ever, and every step but the two lock operations is always
enabled. `CallsReturn` then says that no wait for the lock is endless, with the
bounded number of calls a loop makes; nothing is claimed of an endless stream of
readers, against which `pthread_rwlock` need not protect writers. The other
modules are of sequential programs, whose termination is that of their loops.

## 4. Proofs

All theorems hold for every value of the constants allowed by the modules'
assumptions (sizes, functions, sets of input files).

* `BEMBlock2018_proof`, for any edges, threads, signatures, hash and moves. Of the table:
  `TypeCorrect`, `ForestCorrect`, `CanonicalCorrect`. The inductive invariant adds to
  `Forest` what the scan has done so far (each thread's table covers exactly the pairs
  it has visited, representatives are least among them) and what the merge has (the
  tree covers the branches before, plus those parents and children of the current one
  that are not left). `AddEquivalentPairIs` reduces the routine, on tables that are
  forests, to one set equation, and from the same lemmas a step never unlinks a pair it
  does not link elsewhere (`NothingForgotten`, an action property). Of the block:
  `BlockIsCorrect`. `WorldInv` says that surfaces have their first relative places until
  one is moved, `StageInv` that the table is complete before it is used and that threads
  hold pairs in the parallel loop only, `FilledInv` which pairs wait, are in a thread's
  hands or are computed at each stage; that a child's entry is its own rests on the forest (a child
  copies from a pair that has no parent, hence was computed).
* `FIBBICache_proof`: types, lock, answers, records, write-once, counters, and
  `CacheIsMemoTable`, the refinement of `MemoTable`. The invariant says who holds
  the lock at each place and what buffer and table contain there.
* `FIBBICacheFile_proof`: types, `SkipCorrect` and `OnlyCutShortLoses` for any set of keys
  and faults. The invariant says what the counters claim of the file Store writes while no
  write or open has failed; finiteness and cardinality of the table turn equal counts
  into equal sets, and bound the counters (`CountInv`). For the second, the table has
  what the file has while the process runs, and one of the two what a whole file ever
  held (`Kept`), where no read fails; what a kill inside `Store` takes away is not
  bounded, because `fopen` has truncated the only copy by then.
* `CasimirRuns_proof`. Of one run: types and `MatrixIsCorrect` for any surfaces and any
  `.trans` file, with the left-over blocks as the one exception; the invariant tells for
  each block in store which transformation and frequency it was last assembled for. Of
  any number of runs with any jobs: the same, since runs start where one run does, and
  reading a dataset or being killed keeps the invariant (`ReadKeepsIInv`,
  `KillKeepsIInv`); `RunsSumsHaveNoHoles`; and `RunsValuesAreRight`. The slots filled at
  a frequency are those of its integrands (`SlotInv`, from `FilledSlot`, which is where
  `\div` and `%` come in), and with that each accumulation adds exactly one term
  (`SumInv`); `EarlyInv`, that an unconverged sum has counted fewer small changes than
  terms, gives the three terms. For the values, `LinesInv` says what the file looks
  like, wherever runs were killed: each line with all its values belongs to a dataset,
  a stretch of lines in the order of the transformations of some job, ended by the
  length of the job, by a line cut short or by a preamble. `CacheRead` takes what
  follows the first line that matches, and that line begins a dataset unless
  `FirstTagMoved`; hence the lines after it are those of the run's own transformations
  (`ReadInv`).
* `WriteFlux_proof`: types, `MatrixIsCorrect` and `SourcesAreRight` for any arrangement
  of regions and any `.trans` file, by the same kind of invariant.
* `ScuffStatic_proof`: all six properties of the run for any number of surfaces, meshes,
  materials, layouts in which copies lie apart, `.trans` files and runs. `EquivalentFacts`
  and `FirstFacts` give what the search of `GetEquivalentPairMatrix` finds, by the least
  element of the set it runs over; `SeenParts` and `MotionFacts` are what it takes of
  composition and inversion, for any displacements and turns. Then `FilesInv` and `StepsInv` (the control of the loops),
  `PlaceInv` (where a surface is), `BlocksInv` (for which transformation each block was
  last assembled), `StampInv` (what the matrix was made from); `FileInv` and `SigmaInv` say what
  the file and the solution in hand came from.
* `ScatterLoop_proof`: all four properties of the run, for any surfaces, materials,
  `.trans` files, frequencies and numbers of runs. `PlaceInv` says where a surface is
  if what moved it was undone, `MatrixInv` what the matrix was made from, with what is below the diagonal a copy of what is above if there is one
  transformation; `FileInv` what a complete file may contain, `SelfInv` which diagonal
  blocks are in hand at each place of the loop and which part of one that was read is
  the file's.
* `RFSolver_proof`: all six properties of the run for any number of surfaces, any
  layout without two surfaces in one place and any sequence of calls.
  `GeometryInv` and `NoteInv` say what is still to be set up, `PlaceInv` and `PortInv` what
  the matrix and the port matrix in hand belong to, `DrivenInv` which excitations can have
  been left over, `CacheInv` which cached blocks are up to date when the marks say so. `ParentComputed` (a pair that is not flipped is copied from
  a block that was computed) rests on the least pair being chosen. `NoStampCrash`
  restates `StampsAssembled` for geometries without chains.

So every invariant, action property and refinement that a passing run checks is also a
theorem, from the named assumptions on constants alone, which TLC evaluates in the runs.
Only model-checked are the liveness property `CallsReturn`, because TLAPS treats neither
fairness nor `ENABLED`, and of course the two violations.

Two proofs failed at first because the property was false, which the runs' instances
were too small to show; TLC confirmed each on a larger one, and the instances now
include it:
* `DatasetRight`: with six copies of a mesh equivalences may chain, and then the
  solution that is written to the file comes from a block that was never assembled
  (`SomeChain`);
* `ValuesRight`: after a job with the same tags in another order, the first line of the
  `.byXi` file that matches may lie within a dataset, and `CacheRead` then takes the
  values of one transformation for another (`FirstTagMoved`).

A third, `OffDiagonalRight`, needed what the runs had taken for granted: that copies of one
mesh do not lie in one place (`ApartAssumption`), as bodies do not.

## 5. What was found

Shown by violation runs, with the code and the sentence it disagrees with in
`PROJECT.json`:
* scuff-cas3D reuses blocks of an earlier frequency when the first transformation is
  skipped (`casimir_skipped`);
* scuff-ldos keeps the results of all transformations in an array for one and reports
  the first one's values for all (`ldos_rows`).

Named as exceptions in properties that otherwise hold, so that the properties say
exactly where the code can be relied on:
* scuff-neq and scuff-static compute a block again only if one of its surfaces is moved
  by the transformation at hand, not if it went home after the one before
  (`WentHome`), although every transformation is documented to act on the original
  state (doc/docs/reference/Transformations.md);
* edge-pair tables are kept when surfaces move (`BEMBlock2018!OutOfDate`);
* the 2018 routine fills in only part of the lower triangle of a diagonal block of
  a dielectric surface (`FilledIn`);
* scuff-static transposes blocks of dielectric bodies (`Symmetric`), keeps diagonal
  blocks above a substrate (`DiagonalCorrect`), takes pairs at other heights for
  equivalent (`AtOtherHeight`), and from six copies on takes a block from a pair that
  was passed over itself (`Chained`), so that the solution it writes to its file comes
  from a block that was never assembled (`SomeChain` in `DatasetRight`). The comment at
  BMAccelerator.cc:52-55 asks the same relative transformation of two equivalent
  pairs; the code composes those of the `.trans` and `.scuffgeo` files in the other order
  than `RWGSurface::Transform`, and where the two do not commute, as a rotation and a
  displacement, it takes pairs for equivalent that are not (`OutOfOrder`);
* a solution found in the file serves all excitations (`HaveSolution` in
  `OutputRight`), a run that found one for its first transformation goes on with
  diagonal blocks nobody assembled (`found` in `DiagonalRight`), and only the first
  transformation's solution is ever kept (`FirstKept`), because a file that lacks a
  dataset stays open and cannot be created anew;
* a Store that is killed or fails to write leaves a part of the records and no
  other copy (`LostOnlyIfCutShort`); one that failed to open or write its file may later
  be skipped
  (`FIBBICacheFile!SkipIsRewrite` holds where only reads fail);
* scuff-cas3D takes from a `.byXi` file the zeros of sums that had converged
  (`ZeroOfEarlierSum`), as many values of other quantities (`OtherQuantities`), a
  number the file ended within (`WasCut`), and values of other transformations if an
  earlier run had the same tags in another order (`FirstTagMoved`);
* scuff-scatter and scuff-ldos: a single transformation is applied after the matrix is
  assembled, or never (`TooLate`); without incident fields transformations accumulate
  (`Accumulated`); the lower triangle is conjugated if there are several
  transformations (`Conjugated`, scuff-scatter.cc:452), and is not if there is one;
  a T-block file may be of other materials, or of another mesh file of the same base
  name and size, has only half of a block, and with one transformation part of that
  half is overwritten by what was never read (`SelfBlocksRight`); a file that could not
  be read is truncated and written anew (`unread` in `FilesKept`);
* libscuffSolver: `scuffSolver::Transform` does not tell the geometry that a surface
  moved, so that its cached blocks are kept (`MovedUntold`); a block is taken from a pair
  that was passed over when it was last due (`PassedOver`); with ports, a flipped
  pair is copied from below the diagonal before that is filled in (`CopiedTooEarly`);
  equivalences may chain, and then the program stops (`Chained`); an incident field of any
  class is kept as a PointSource, and without the rest of its list (`Miscopied`), and
  the excitation of the last solve of the other kind is kept too, so that fields are
  computed from both (`ExcitationKept`; RWGPorts.cc:628 and the cached incident field);
  without buffers of
  their own the threads add to the previous port matrix (`PortsRight`); and a substrate
  given by the `.scuffgeo` file is freed and then used (`SubstrateLive`,
  scuffSolver.cc:162), although doc/docs/applications/scuff-rf/scuff-rf.md (2B) offers that
  way of defining it.

Also met while modelling: `FileOp` of scuff-static frees an error message twice; a
T-block file holds half of a complex block, because the sizes of real and complex
entries are exchanged (AssembleBEMMatrix.cc:167); an incomplete dataset of the `.byXi`
file hides complete ones behind it, and with seven quantities no line ever matches,
because `LineMatches` reads no more than seven numbers.

## 6. Not modelled, and why

* Integrals, Green's functions, linear algebra, interpolation, post-processing:
  numbers without control. They appear as arbitrary functions. Most lines of the
  repository are of this kind: tables of quadrature rules and special functions
  (libSGJC, libTriInt, libSpherical, libTDRT, Faddeeva) and headers of LAPACK make up four
  fifths of it. The share of lines the models cover is therefore small by nature;
  it is to be compared with the parts that keep state.
* scuff-cas3D beyond compact geometries (Brillouin-zone integration, the `.byXikBloch`
  file) and its quadrature over frequencies; scuff-neq's Rytov matrix and output
  formulas; scuff-static's `--polfile`, `--capfile` and `--CMatrix` outputs; periodic
  geometries in scuff-scatter and scuff-ldos; how scuff-rf collects meshes and ports.
* Two processes that store to one cache file at the same time: the outcome depends on
  the buffers of stdio, and nothing in the code says what they may expect.
* Blocks kept for all Bloch vectors of a frequency (`ABMBAccelerator`, `KBIMBCache`).
* The third-party libraries, and applications that keep nothing between steps.

## 7. Plan

Order: what most results depend on first. Done: the edge-pair tables and the block
assembled from them; the FIBBI cache and its file; the loops of scuff-cas3D, with the file
its runs share, of scuff-neq, scuff-static, scuff-scatter and scuff-ldos, with the
T-block files; the solver object of libscuffSolver; eight modules of proofs.

Left, each with its own abstract statement:
1. `BlochBlockCache`: accelerators kept for all Bloch vectors of a frequency, with the
   Brillouin-zone integration that calls them.
2. The FIPPI cache as a second implementation of `MemoTable`.
3. `RegionNesting`: the nesting sort and the mates as pure algorithms against a
   reference definition.
4. With each of them its proofs; those of the modules so far are complete but for
   liveness.

Runs are few on purpose: a new module brings one passing run, and violations that
the exceptions of properties already name do not get runs of their own.
