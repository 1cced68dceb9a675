---------------------------- MODULE BEMBlock2018 ----------------------------
(***************************************************************************)
(* AssembleBEMMatrixBlock2018 (AssembleBEMMatrix2018.cc): one block of the *)
(* system matrix, computed by threads for the edge pairs that have no      *)
(* parent in the table of EquivalentEdgePairs and copied, with a sign, to  *)
(* their children.  The block is assembled at MaxCalls frequencies into    *)
(* the same storage with the same table.                                   *)
(***************************************************************************)
EXTENDS EquivalentEdgePairs

CONSTANTS NBFPEA, NBFPEB,  \* basis functions per edge: 1 on PEC surfaces, else 2
          SignPatterns,    \* the sign patterns that occur, in [Kernels -> BOOLEAN]
          MaxCalls,        \* bound: number of frequencies
          MaxMoves         \* bound: calls of RWGGeometry::Transform in between

Kernels == {"G", "C"}
ASSUME BlockAssumption ==
  /\ {NBFPEA, NBFPEB} \subseteq {1, 2} /\ (SameSurface => NBFPEA = NBFPEB)
  /\ SignPatterns \subseteq [Kernels -> BOOLEAN]
  /\ MaxCalls \in Nat /\ MaxMoves \in Nat

Rows  == 0 .. NEA * NBFPEA - 1
Cols  == 0 .. NEB * NBFPEB - 1

VARIABLES
  UseEEPs,     \* EEPTables exist and SCUFF_IGNORE_EEPS is unset
  signs,       \* [Pairs -> SignPatterns]: EdgePair::Signs
  sigNow,      \* the signatures of the surfaces where they are now
  related,     \* NumCommonRegions # 0
  block,       \* the entries of the block
  call,        \* calls made; also stands for the frequency of the last one
  stage,       \* where the call is
  unclaimed,   \* pairs the dynamic schedule has not handed out
  inFlight,    \* the pair each thread computes
  parentsTodo, \* parents whose children are still to be filled in
  moves

callVars  == <<block, call, stage, unclaimed, inFlight, parentsTodo>>
worldVars == <<UseEEPs, signs, sigNow, related, moves>>
blockVars == <<vars, callVars, worldVars>>

\* Entries: a kernel integral of a class of pairs at a frequency, up to a sign;
\* ZERO where there is no common region; call 0 is what the storage held before.
Entry(k, s, f, n) == [kernel |-> k, sig |-> s, flipped |-> f, omega |-> n]
Zero(n)           == [zero |-> n]

BlockInit ==
  /\ Init
  /\ UseEEPs \in BOOLEAN
  /\ signs \in [Pairs -> SignPatterns]
  /\ sigNow = signature
  /\ related \in BOOLEAN
  /\ block = [rc \in Rows \X Cols |-> Zero(0)]
  /\ call = 0 /\ stage = "idle" /\ moves = 0
  /\ unclaimed = {} /\ parentsTodo = {}
  /\ inFlight = [nt \in Threads |-> None]

\* The edge pair whose 1x1 ... 2x2 sub-block an entry lies in, and its kernel.
PairOf(rc)   == << rc[1] \div NBFPEA, rc[2] \div NBFPEB >>
KernelOf(rc) == IF rc[1] % NBFPEA = rc[2] % NBFPEB THEN "G" ELSE "C"

\* GetSIEMatrixElements.
MatrixElement(p, k) == Entry(k, sigNow[p], signs[p][k], call)

InsertBlock(p) ==
  [rc \in Rows \X Cols |-> IF PairOf(rc) = p THEN MatrixElement(p, KernelOf(rc)) ELSE block[rc]]

\* The entry of the routine: the table is created by the first call.
Begin ==
  /\ stage \in {"idle", "moved"} /\ call < MaxCalls
  /\ call' = call + 1
  /\ stage' = IF UseEEPs /\ phase # "done" THEN "build" ELSE "regions"
  /\ UNCHANGED <<vars, worldVars, block, unclaimed, inFlight, parentsTodo>>

BuildTable ==
  /\ stage = "build"
  /\ \/ Next /\ UNCHANGED stage
     \/ phase = "done" /\ stage' = "regions" /\ UNCHANGED vars
  /\ UNCHANGED <<worldVars, block, call, unclaimed, inFlight, parentsTodo>>

CommonRegions ==
  /\ stage = "regions"
  /\ IF related
       THEN stage' = "direct" /\ unclaimed' = Pairs /\ UNCHANGED block
       ELSE /\ stage' = "idle"
            /\ block' = [rc \in Rows \X Cols |-> Zero(call)]
            /\ UNCHANGED unclaimed
  /\ UNCHANGED <<vars, worldVars, call, inFlight, parentsTodo>>

\* schedule(dynamic,1): a free thread takes the next iteration of the loop, and
\* continues at once when the pair has a parent.
TakePair(nt) ==
  /\ stage = "direct" /\ inFlight[nt] = None
  /\ \E p \in unclaimed :
       /\ IsFirst(p, unclaimed)
       /\ unclaimed' = unclaimed \ {p}
       /\ inFlight' = [inFlight EXCEPT ![nt] = IF UseEEPs /\ HasParent(p) THEN None ELSE p]
  /\ UNCHANGED <<vars, worldVars, block, call, stage, parentsTodo>>

ComputePair(nt) ==
  /\ inFlight[nt] # None
  /\ block' = InsertBlock(inFlight[nt])
  /\ inFlight' = [inFlight EXCEPT ![nt] = None]
  /\ UNCHANGED <<vars, worldVars, call, stage, unclaimed, parentsTodo>>

DirectBarrier ==
  /\ stage = "direct" /\ unclaimed = {} /\ \A nt \in Threads : inFlight[nt] = None
  /\ stage' = IF UseEEPs THEN "children" ELSE "lower"
  /\ parentsTodo' = IF UseEEPs THEN GetParents ELSE {}
  /\ UNCHANGED <<vars, worldVars, block, call, unclaimed, inFlight>>

Xor(a, b) == a # b

\* The parent's entry at the place that rc has in its own sub-block.
ParentEntry(parent, rc) ==
  block[<< (parent[1] * NBFPEA) + (rc[1] % NBFPEA), (parent[2] * NBFPEB) + (rc[2] % NBFPEB) >>]

\* Mutant: the sign of the G kernel is used for every entry.
ChildEntryOneSign(parent, child, rc) ==
  [ParentEntry(parent, rc) EXCEPT !.flipped = Xor(@, Xor(signs[child]["G"], signs[parent]["G"]))]

\* ... times GCSign[kernel], the relative sign of child and parent.
ChildEntry(parent, child, rc) ==
  LET k == KernelOf(rc)
  IN  [ParentEntry(parent, rc) EXCEPT !.flipped = Xor(@, Xor(signs[child][k], signs[parent][k]))]

FillChildren ==
  /\ stage = "children"
  /\ \E p \in parentsTodo :
       /\ IsFirst(p, parentsTodo)
       /\ parentsTodo' = parentsTodo \ {p}
       /\ block' = [rc \in Rows \X Cols |->
                      IF PairOf(rc) \in GetChildren(p)
                        THEN ChildEntry(p, PairOf(rc), rc) ELSE block[rc]]
  /\ UNCHANGED <<vars, worldVars, call, stage, unclaimed, inFlight>>

ChildrenDone ==
  /\ stage = "children" /\ parentsTodo = {}
  /\ stage' = "lower"
  /\ UNCHANGED <<vars, worldVars, block, call, unclaimed, inFlight, parentsTodo>>

\* Mutant: the loop over the rows ends one row early.
FillLowerShort ==
  /\ stage = "lower"
  /\ stage' = "idle"
  /\ block' = [rc \in Rows \X Cols |->
                 IF SameSurface /\ rc[1] \in 1 .. NEA - 2 /\ rc[2] < rc[1]
                   THEN block[<< rc[2], rc[1] >>] ELSE block[rc]]
  /\ UNCHANGED <<vars, worldVars, call, unclaimed, inFlight, parentsTodo>>

\* `for nr < NEA': NEA, whatever the number of basis functions per edge.
FillLower ==
  /\ stage = "lower"
  /\ stage' = "idle"
  /\ block' = [rc \in Rows \X Cols |->
                 IF SameSurface /\ rc[1] \in 1 .. NEA - 1 /\ rc[2] < rc[1]
                   THEN block[<< rc[2], rc[1] >>] ELSE block[rc]]
  /\ UNCHANGED <<vars, worldVars, call, unclaimed, inFlight, parentsTodo>>

\* RWGGeometry::Transform between two calls.  It moves one surface against the
\* other, so that pairs of their edges change class, or one surface as a whole;
\* EEPTables is left as it is.
Transform ==
  /\ stage = "idle" /\ call > 0 /\ moves < MaxMoves
  /\ moves' = moves + 1 /\ stage' = "moved"
  /\ sigNow' \in IF SameSurface THEN {sigNow} ELSE [Pairs -> Sigs]
  /\ UNCHANGED <<vars, block, call, unclaimed, inFlight, parentsTodo, UseEEPs, signs, related>>

BlockNext ==
  \/ Begin \/ BuildTable \/ CommonRegions
  \/ \E nt \in Threads : TakePair(nt) \/ ComputePair(nt)
  \/ DirectBarrier \/ FillChildren \/ ChildrenDone \/ FillLower
  \/ Transform

BlockSpec == BlockInit /\ [][BlockNext]_blockVars

-----------------------------------------------------------------------------
\* What an entry should be: the element of its pair, or of the transposed pair
\* below the diagonal of a diagonal block, for this frequency and these
\* positions of the surfaces.
TrueEntry(rc) ==
  LET p == PairOf(rc)
      q == IF p \in Pairs THEN p ELSE << p[2], p[1] >>
  IN  IF related THEN MatrixElement(q, KernelOf(rc)) ELSE Zero(call)

Returned == stage = "idle" /\ call > 0

\* The entries the routine fills in: those of the pairs that are visited, and
\* those below the diagonal of a diagonal block that FillLower reaches.
FilledIn(rc) == PairOf(rc) \in Pairs \/ rc[1] < NEA

\* A pair that was given a parent before one of two surfaces moved.
OutOfDate(p) == moves > 0 /\ ~SameSurface /\ UseEEPs /\ HasParent(p)

\* After every call each entry that the routine fills in holds the element of
\* its own pair with its own signs, for the frequency of the call and the
\* positions of the surfaces: none is forgotten by the skip of pairs with a
\* parent, filled from a parent not yet computed, or left from the last call.
\* The one exception are pairs whose parent is out of date.
BlockCorrect ==
  Returned => \A rc \in Rows \X Cols :
                FilledIn(rc) /\ ~OutOfDate(PairOf(rc)) => block[rc] = TrueEntry(rc)
=============================================================================
