---------------------------- MODULE CasimirRuns ----------------------------
(***************************************************************************)
(* Runs of scuff-cas3D one after the other in a directory: the .byXi file, *)
(* to which GetXiIntegrand appends the integrands of every frequency and   *)
(* from which CacheRead takes them back with --UseExistingData.            *)
(*                                                                         *)
(* A job is what a run is asked for: the driver, the frequencies in their  *)
(* order, the tags of the transformations and the quantities.  All runs    *)
(* have one .scuffgeo and one .trans file (but for its tags) and equally   *)
(* many quantities.  Frequencies that differ are far enough apart for the  *)
(* file to tell them apart; the digits it drops are not modelled.          *)
(***************************************************************************)
EXTENDS CasimirIntegrand

CONSTANTS Frequencies, Tags, Quantities, Jobs,
          SmallSets,      \* bound: the sums whose changes are small at the same time
          MaxRuns         \* bound: runs that share the file

ASSUME RunsAssumption ==
  /\ Jobs \subseteq [Driver : {"XiPoints", "Matsubara"}, Xi : [0..MaxXiPoints - 1 -> Frequencies],
                     Tag : [Transformations -> Tags], Quantity : [1..NumQuantities -> Quantities]]
  \* WhichQuantities has a bit for each
  /\ \A jb \in Jobs : \A p, q \in 1..NumQuantities : jb.Quantity[p] = jb.Quantity[q] => p = q
  /\ NumQuantities <= 6            \* LineMatches reads no more than seven numbers
  /\ SmallSets \subseteq SUBSET Slots /\ MaxRuns \in Nat
  /\ None \notin Frequencies /\ None \notin Quantities

VARIABLES
  job, UseExistingData,
  byXi,            \* the lines of the .byXi file
  written,         \* this frequency has been appended to it
  read,            \* the integrands of this frequency came from it
  gaps,            \* slots whose sum got a wrong value from it
  run, earlier     \* the number of the run, the jobs of the ones before

fileVars == <<run, earlier, job, UseExistingData, byXi, written, read, gaps>>
runVars  == <<vars, fileVars>>

Xi == job.Xi[n]

\* A recorded value is the set of integrands it sums, named for all runs; a
\* number that is none, such as one cut short, is {NoIntegrand}.
NoIntegrand == [xi |-> None, nt |-> 0, quantity |-> None]
Recorded(v) ==
  { IF d.freq = None \/ d.nq = 0 THEN NoIntegrand
    ELSE [xi |-> job.Xi[d.freq], nt |-> d.nt, quantity |-> job.Quantity[d.nq]] : d \in v }

\* What a recorded value is to this run.
Position(q) == LET At == { nq \in 1..NumQuantities : job.Quantity[nq] = q }
               IN  IF At = {} THEN 0 ELSE CHOOSE nq \in At : TRUE
Taken(v) == { Integrand(IF g.xi = Xi THEN n ELSE None, g.nt, Position(g.quantity)) : g \in v }

\* Lines: the preamble of a run, or the values of a transformation.
Preamble == [tag |-> None, xi |-> None, values |-> <<>>]
Line(k) == [tag |-> job.Tag[k], xi |-> Xi,
            values |-> [nq \in 1..NumQuantities |-> Recorded(dEFT[SlotOf(k, nq)])]]
Dataset == [k \in Transformations |-> Line(k)]

RunsInit ==
  /\ Init
  /\ job \in Jobs /\ Driver = job.Driver /\ UseExistingData \in BOOLEAN
  /\ run = 1 /\ earlier = {}
  /\ byXi = <<Preamble>>
  /\ written = FALSE /\ read = FALSE /\ gaps = {}

\* The next run, which finds these lines in the file.
StartRun(lines) ==
  /\ run < MaxRuns /\ run' = run + 1
  /\ job' \in Jobs /\ Driver' = job'.Driver /\ UseExistingData' \in BOOLEAN
  /\ earlier' = earlier \cup {job}
  /\ byXi' = lines
  /\ written' = FALSE /\ read' = FALSE /\ gaps' = {}
  /\ step' = "frequency" /\ n' = 0 /\ nt' = 1 /\ ntnq' = 0
  /\ TBlocks' = [ns \in Surfaces |-> None] /\ UBlocks' = [p \in Pairs |-> None] /\ M' = None
  /\ SurfaceNeverMoved' = {} /\ GT' = Home /\ SurfaceMoved' = {} /\ UNCHANGED GTCs
  /\ dEFT' = [i \in Slots |-> Junk] /\ EFT' = [i \in Slots |-> {}]
  /\ ConvergedIters' = [i \in Slots |-> 0] /\ XiConverged' = {}

\* Mutant: a run that takes up the file writes no preamble.
RunAgainNoPreamble == StartRun(byXi)

\* A finished run, or one killed anywhere, is followed by another.
RunAgain == StartRun(Append(byXi, Preamble))

-----------------------------------------------------------------------------
\* LineMatches, and the number of values that follow tag and frequency.
LineMatches(i, k) ==
  /\ i \in DOMAIN byXi
  /\ byXi[i].tag = job.Tag[k] /\ byXi[i].xi = Xi
  /\ Len(byXi[i].values) = NumQuantities

\* The first line of the dataset CacheRead looks at: no other is tried when the
\* lines after this one turn out not to be of the other transformations.
FirstMatch == { i \in DOMAIN byXi : LineMatches(i, 1) /\ \A j \in 1..i - 1 : ~LineMatches(j, 1) }

Found(i) == \A k \in Transformations : LineMatches(i + k - 1, k)
CacheReadSucceeds == UseExistingData /\ \E i \in FirstMatch : Found(i)

\* What stands in the slots of a dataset.
TakenSlots(i) ==
  [s \in Slots |-> LET k == ((s - 1) \div NumQuantities) + 1
                   IN  Taken(byXi[i + k - 1].values[s - ((k - 1) * NumQuantities)])]

\* GetCasimirIntegrand returns before it computes anything.
CacheRead ==
  /\ step = "frequency" /\ CacheReadSucceeds
  /\ \E i \in FirstMatch : dEFT' = TakenSlots(i)
  /\ step' = "transformation" /\ nt' = NT + 1 /\ ntnq' = NTNQ
  /\ read' = TRUE
  /\ UNCHANGED <<geometry, Driver, n, blocks, SurfaceNeverMoved, sums,
                 run, earlier, job, UseExistingData, byXi, written, gaps>>

\* ... or it is computed, as CasimirIntegrand has it.
Compute ==
  /\ \/ AssembleT /\ ~CacheReadSucceeds
     \/ SkipTransformation \/ ApplyTransformation \/ AssembleU \/ Factorize \/ ComputeQuantities
  /\ UNCHANGED <<Driver, fileVars>>

\* GetXiIntegrand appends what it got, computed or read.
AppendDataset ==
  /\ EndTransformations /\ ~written
  /\ byXi' = byXi \o Dataset
  /\ written' = TRUE
  /\ UNCHANGED <<vars, run, earlier, job, UseExistingData, read, gaps>>

\* The part of a line that has been written may end within a number.
CutLines(k) ==
  { [Line(k) EXCEPT !.values = SubSeq(@, 1, nq)] : nq \in 0..NumQuantities - 1 } \cup
  { [Line(k) EXCEPT !.values = Append(SubSeq(@, 1, nq), {NoIntegrand})] : nq \in 0..NumQuantities - 1 }

\* The run ends before all of it is in the file.
KilledWhileAppending ==
  /\ EndTransformations /\ ~written
  /\ \E k \in Transformations :
       \E last \in {<<>>} \cup { <<l>> : l \in CutLines(k) } :
         byXi' = byXi \o SubSeq(Dataset, 1, k - 1) \o last
  /\ step' = "done"
  /\ UNCHANGED <<geometry, Driver, n, nt, ntnq, blocks, SurfaceNeverMoved, dEFT, sums,
                 run, earlier, job, UseExistingData, written, read, gaps>>

\* The integrand a slot is for, the value it should have, and the first terms of
\* its sum.
SlotIntegrand(freq, i) ==
  Integrand(freq, ((i - 1) \div NumQuantities) + 1, ((i - 1) % NumQuantities) + 1)
Wanted(i)   == {SlotIntegrand(n, i)}
Terms(i, m) == { SlotIntegrand(freq, i) : freq \in 0..m - 1 }

\* The driver goes on.  A relative change is not a number or one as long as the
\* sum is zero, and zero when a zero is added.
GoOn ==
  /\ written /\ written' = FALSE /\ read' = FALSE
  /\ NextXiPoint \/ Accumulate
  /\ Driver = "Matsubara" =>
       \E small \in SmallSets : \A i \in Slots \ XiConverged :
         ConvergedIters'[i] = IF EFT[i] # {} /\ (i \in small \/ dEFT[i] = {})
                                THEN ConvergedIters[i] + 1 ELSE 0
  /\ gaps' = gaps \cup { i \in Slots : /\ read /\ dEFT[i] # Wanted(i)
                                   /\ ~(i \in XiConverged /\ dEFT[i] = {}) }
  /\ UNCHANGED <<Driver, run, earlier, job, UseExistingData, byXi>>

Finished == step = "done" /\ run = MaxRuns /\ UNCHANGED runVars

RunsNext ==
  \/ RunAgain \/ CacheRead \/ Compute \/ AppendDataset \/ KilledWhileAppending \/ GoOn \/ Finished

RunsSpec == RunsInit /\ [][RunsNext]_runVars

-----------------------------------------------------------------------------
\* Why a value that was read may be another one than the run would compute: a
\* sum had converged in an earlier run, the numbers were of other quantities, the
\* file ended within a number, or an earlier run has the tag of this run's first
\* transformation at a later one, so that the lines that match may begin within a
\* dataset.  A dataset that was read is appended again, and so is what is wrong
\* with it.
ZeroOfEarlierSum == \E jb \in earlier \cup {job} : jb.Driver = "Matsubara"
OtherQuantities  == \E jb \in earlier : jb.Quantity # job.Quantity
WasCut           == \E i \in DOMAIN byXi : \E nq \in DOMAIN byXi[i].values : byXi[i].values[nq] = {NoIntegrand}
FirstTagMoved    == \E jb \in earlier : \E k \in Transformations :
                      jb.Tag[k] = job.Tag[1] /\ jb.Tag[1] # job.Tag[1]

\* At each frequency each slot holds the integrand of this frequency, of this
\* transformation and of this quantity, or zero if its sum has converged, also
\* if it came from the file: whichever jobs wrote to the file in any order,
\* wherever they were killed, however often a dataset is in it and even if the
\* tags of transformations coincide; with the four exceptions.
ValuesRight ==
  EndTransformations =>
    \A i \in Slots :
      \/ dEFT[i] = Wanted(i)
      \/ dEFT[i] = {} /\ i \in XiConverged
      \/ read /\ \/ dEFT[i] = {} /\ ZeroOfEarlierSum
                 \/ OtherQuantities
                 \/ WasCut
                 \/ FirstTagMoved

\* A Matsubara sum that took no wrong value from the file has no holes before it
\* counts as converged, after three terms at least, and never a term that is not
\* its own, whether its terms were computed or read and however the file came
\* about.
RunSumGapFree ==
  Driver = "Matsubara" /\ step \in {"frequency", "done"} =>
    \A i \in Slots \ gaps :
      IF i \in XiConverged THEN Terms(i, 3) \subseteq EFT[i] /\ EFT[i] \subseteq Terms(i, n + 1)
                           ELSE EFT[i] = Terms(i, n)
=============================================================================
