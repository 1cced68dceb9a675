---------------------------- MODULE ScuffStatic ----------------------------
(***************************************************************************)
(* The main loop of scuff-static --SolutionFile around the accelerator of  *)
(* BMAccelerator: the solution for each transformation is looked up in an  *)
(* HDF5 file before it is computed and is written there when it has been,  *)
(* so that later runs, and runs after a kill, can go on from it.  The      *)
(* matrix is assembled only where a solution is missing.                   *)
(*                                                                         *)
(* What HDF5 does is modelled from its use: a file this process has open   *)
(* cannot be created anew, creating one truncates it, and one whose writer *)
(* was killed may be readable or not.                                      *)
(***************************************************************************)
EXTENDS BMAccelerator

CONSTANTS NumExcitations,
          MaxRuns,           \* how often the program is run
          Absent, Broken     \* no file; a file with no dataset

Solutions == [nt : Transformations, n : 1..NumExcitations, complete : BOOLEAN]
ASSUME RunsAssumption ==
  /\ NumExcitations \in Nat \ {0} /\ MaxRuns \in Nat \ {0}
  /\ Absent # Broken /\ None \notin Solutions
  /\ {Absent, Broken} \intersect [label : Transformations, sol : Solutions] = {}

VARIABLES
  file,      \* Absent, Broken or a solution with the label it is stored under
  run,
  at, n,     \* where the body of the loop is, and the excitation
  HaveSolution,
  Sigma,     \* the transformation and excitation of the solution vector, and
             \* whether its matrix was complete
  leaked,    \* has a failed read left the file open?
  found      \* the transformations whose solution was found in this run (history)

process == <<at, n, HaveSolution, Sigma, leaked, found>>
allVars == <<vars, file, run, process>>

Solution(k, e, complete) == [nt |-> k, n |-> e, complete |-> complete]
Dataset(label, sol) == [label |-> label, sol |-> sol]
HasDataset == file \notin {Absent, Broken}

StaticInit ==
  /\ Init
  /\ file = Absent /\ run = 1
  /\ at = "loop" /\ n = 1 /\ HaveSolution = FALSE
  /\ Sigma = None /\ leaked = FALSE /\ found = {}

Accelerate == CreateBMAccelerator /\ UNCHANGED <<file, run, process>>

StartTransformation ==
  /\ ApplyTransformation /\ at' = "lookup"
  /\ UNCHANGED <<file, run, n, HaveSolution, Sigma, leaked, found>>

\* Mutant: the dataset's name does not tell the transformation.
ReadHitAnyLabel ==
  /\ at = "lookup" /\ HasDataset
  /\ Sigma' = file.sol /\ HaveSolution' = TRUE /\ found' = found \union {nt}
  /\ at' = "excite" /\ n' = 1
  /\ UNCHANGED <<vars, file, run, leaked>>

ReadHit ==
  /\ at = "lookup" /\ HasDataset /\ file.label = nt
  /\ Sigma' = file.sol /\ HaveSolution' = TRUE /\ found' = found \union {nt}
  /\ at' = "excite" /\ n' = 1
  /\ UNCHANGED <<vars, file, run, leaked>>

\* A file that could be opened and lacks the dataset is not closed.
ReadMiss ==
  /\ at = "lookup" /\ ~(HasDataset /\ file.label = nt)
  /\ \/ file # Absent /\ leaked' = TRUE
     \/ file \in {Absent, Broken} /\ UNCHANGED leaked
  /\ HaveSolution' = FALSE /\ at' = "assemble"
  /\ UNCHANGED <<vars, file, run, n, Sigma, found>>

\* ReassembleBEMMatrix, and the first excitation.
Reassemble ==
  /\ at = "assemble"
  /\ \/ AssembleBlocks /\ UNCHANGED <<at, n>>
     \/ StampBlocks /\ at' = "excite" /\ n' = 1
  /\ UNCHANGED <<file, run, HaveSolution, Sigma, leaked, found>>

\* A solution that was found is used for every excitation.
UseSolution ==
  /\ at = "excite" /\ HaveSolution /\ at' = "output"
  /\ UNCHANGED <<vars, file, run, n, HaveSolution, Sigma, leaked, found>>

Complete == \A ab \in Surfaces \X Surfaces : M[ab].block # None

LUSolve ==
  /\ at = "excite" /\ ~HaveSolution /\ at' = "write"
  /\ Sigma' = Solution(nt, n, Complete)
  /\ UNCHANGED <<vars, file, run, n, HaveSolution, leaked, found>>

\* Mutant: the file is created anew although it is still open.
CreateFileAlways ==
  /\ at = "write"
  /\ file' = Broken /\ at' = "writing"
  /\ UNCHANGED <<vars, run, n, HaveSolution, Sigma, leaked, found>>

\* The context that is opened to write the vector truncates the file; where the
\* file is still open this fails, which is logged, and the program goes on.
CreateFile ==
  /\ at = "write"
  /\ IF leaked THEN at' = "output" /\ UNCHANGED file
     ELSE file' = Broken /\ at' = "writing"
  /\ UNCHANGED <<vars, run, n, HaveSolution, Sigma, leaked, found>>

WriteDataset ==
  /\ at = "writing" /\ at' = "output"
  /\ file' = Dataset(nt, Sigma)
  /\ UNCHANGED <<vars, run, n, HaveSolution, Sigma, leaked, found>>

\* Charges and fields are written for this transformation and excitation.
Output ==
  /\ at = "output"
  /\ IF n < NumExcitations THEN n' = n + 1 /\ at' = "excite" /\ UNCHANGED vars
     ELSE EndTransformation /\ at' = "loop" /\ UNCHANGED n
  /\ UNCHANGED <<file, run, HaveSolution, Sigma, leaked, found>>

\* The program has ended, is killed anywhere or aborts, and is run again with
\* the same files.
RunAgain ==
  /\ run < MaxRuns /\ run' = run + 1
  /\ GT' = Home /\ SurfaceMoved' = {} /\ Vertices' = Layout /\ step' = "create" /\ nt' = 1
  /\ PairMatrix' = [p \in Pairs |-> None]
  /\ TBlocks' = [ns \in Surfaces |-> None] /\ UBlocks' = [p \in Pairs |-> None]
  /\ M' = None
  /\ at' = "loop" /\ n' = 1 /\ HaveSolution' = FALSE
  /\ Sigma' = None /\ leaked' = FALSE /\ found' = {}
  /\ UNCHANGED <<GTCs, files, file>>

Finished == step = "done" /\ run = MaxRuns /\ UNCHANGED allVars

StaticNext ==
  \/ Accelerate \/ StartTransformation \/ ReadHit \/ ReadMiss \/ Reassemble
  \/ UseSolution \/ LUSolve \/ CreateFile \/ WriteDataset \/ Output
  \/ RunAgain \/ Finished

StaticSpec == StaticInit /\ [][StaticNext]_allVars

-----------------------------------------------------------------------------
\* The loops count within their bounds, the accelerator is at the step the loop
\* is at, and the file is absent, broken or holds a dataset with a label.
StaticTypeOK ==
  /\ TypeOK
  /\ at \in {"loop", "lookup", "assemble", "excite", "write", "writing", "output"}
  /\ at = "loop" <=> step \in {"create", "transformation", "done"}
  /\ at \in {"write", "writing"} => step = "solve"
  /\ run \in 1..MaxRuns /\ n \in 1..NumExcitations
  /\ HasDataset => file.label \in 1..NumTransformations
  /\ at = "output" => Sigma # None

\* The matrix of a transformation is right although every block of it may be left
\* over from another one, and from a transformation whose matrix was not needed
\* there is none; if the first transformation's solution was found, it is not,
\* because most blocks are assembled there.
DiagonalRight == 1 \notin found => DiagonalCorrect
OffDiagonalRight == 1 \notin found => OffDiagonalCorrect

\* Whatever runs and kills there have been, outputs are computed from a solution
\* for the transformation they are written under, and for the excitation they are
\* written under if the solution is not one that was found.
OutputRight == at = "output" => Sigma.nt = nt /\ (Sigma.n = n \/ HaveSolution)

\* The file never holds the solution of another transformation than its label
\* says, nor, unless equivalences chain, one computed from a matrix with blocks that
\* were never assembled.
DatasetRight == HasDataset => file.sol.nt = file.label /\ (file.sol.complete \/ SomeChain)

\* Only the first transformation's solution is ever kept, so that no run finds
\* another one: the file stays open when it lacks the next one.
FirstKept == HasDataset => file.label = 1
=============================================================================
