------------------------ MODULE EquivalentEdgePairs ------------------------
(***************************************************************************)
(* EquivalentEdgePairTable of libscuff (EquivalentEdgePairs.cc): the table *)
(* of pairs of RWG edges with identical matrix elements, built by          *)
(* NumThreads threads into one branch table each and merged sequentially   *)
(* into the table of thread 0.                                             *)
(*                                                                         *)
(* The geometric data are abstracted: `signature' is the absolute value of *)
(* the NSME signature (EPSigEqual compares absolute values), `task' is     *)
(* GetEdgePairHash % NumThreads.  Both are chosen freely in Init.          *)
(***************************************************************************)
EXTENDS Integers

CONSTANTS NEA, NEB,      \* numbers of edges of the two surfaces
          SameSurface,   \* nsa == nsb
          NumThreads,
          Sigs,          \* the signatures that can occur
          None           \* "not in this map"

EdgesA  == 0 .. NEA - 1
EdgesB  == 0 .. NEB - 1
Threads == 0 .. NumThreads - 1

\* The pairs the constructor's double loop visits.
Pairs == { p \in EdgesA \X EdgesB : SameSurface => p[1] <= p[2] }

ASSUME SizesAssumption ==
  /\ NEA \in Nat /\ NEB \in Nat /\ SameSurface \in BOOLEAN
  /\ SameSurface => NEA = NEB
ASSUME ThreadsAssumption == NumThreads \in Nat \ {0}
ASSUME NoneAssumption == None \notin Pairs /\ \A S \in SUBSET Pairs : None # S

\* EdgePair::LessThan, the order of the std::set and of the scan.
LessThan(p, q) == IF p[1] # q[1] THEN p[1] < q[1] ELSE p[2] < q[2]

VARIABLES
  signature,     \* [Pairs -> Sigs], fixed by the geometry
  task,          \* [Pairs -> Threads], fixed by the geometry
  table,         \* BranchTables
  todo,          \* the pairs each thread still has to visit
  phase,         \* "scan", "merge" or "done"
  branch,        \* the branch being merged into table[0]
  parentsLeft,   \* its parents MergeEEPSubTables has not reached
  branchParent, treeParent,  \* locals of its loop body, None outside it
  kidsLeft       \* the children of branchParent still to be added

geometry == <<signature, task>>
merging  == <<branch, parentsLeft, branchParent, treeParent, kidsLeft>>
vars     == <<geometry, table, todo, phase, merging>>

-----------------------------------------------------------------------------
(* EquivalentEdgePairSubTable and the routines that modify one.            *)

Tables == [ children : [Pairs -> (SUBSET Pairs) \cup {None}],
            parents  : [Pairs -> Pairs \cup {None}],
            reps     : [Sigs -> Pairs \cup {None}] ]

EmptyTable == [ children |-> [p \in Pairs |-> None],
                parents  |-> [p \in Pairs |-> None],
                reps     |-> [s \in Sigs |-> None] ]

IsParentIn(T, p) == T.children[p] # None
IsChildIn(T, p)  == T.parents[p] # None
PairInTable(T, p) == IsParentIn(T, p) \/ IsChildIn(T, p)

\* What operator[] on the std::map yields: an absent key is an empty set.
ChildrenOf(T, p) == IF IsParentIn(T, p) THEN T.children[p] ELSE {}

AddChildPair(T, parent, child) ==
  [T EXCEPT !.children = [@ EXCEPT ![parent] = ChildrenOf(T, parent) \cup {child}],
            !.parents  = [@ EXCEPT ![child] = parent]]

\* Mutant: the old parent itself is not entered as a child of the new one.
ReParentLosesOld(T, old, new) ==
  LET moved == ChildrenOf(T, old)
  IN  [children |-> [T.children EXCEPT ![old] = None, ![new] = moved],
       parents  |-> [p \in Pairs |-> IF p \in moved THEN new ELSE T.parents[p]],
       reps     |-> [T.reps EXCEPT ![signature[new]] = new]]

\* Mutant: the moved children keep pointing at the old parent.
ReParentKeepsPointers(T, old, new) ==
  LET moved == ChildrenOf(T, old)
  IN  [children |-> [T.children EXCEPT ![old] = None, ![new] = moved \cup {old}],
       parents  |-> [T.parents EXCEPT ![old] = new],
       reps     |-> [T.reps EXCEPT ![signature[new]] = new]]

ReParent(T, old, new) ==
  LET moved == ChildrenOf(T, old)
  IN  [children |-> [T.children EXCEPT ![old] = None, ![new] = moved \cup {old}],
       parents  |-> [p \in Pairs |-> IF p \in moved \cup {old} THEN new ELSE T.parents[p]],
       reps     |-> [T.reps EXCEPT ![signature[new]] = new]]

AddEquivalentPair(T, parent, child) ==
  LET held == IF IsParentIn(T, child) THEN child ELSE T.parents[child]
  IN  IF parent = child \/ (PairInTable(T, parent) /\ PairInTable(T, child))
        THEN T
      ELSE IF ~PairInTable(T, child)
        THEN AddChildPair(T, IF ~IsParentIn(T, parent) /\ IsChildIn(T, parent)
                               THEN T.parents[parent] ELSE parent, child)
      ELSE IF LessThan(held, parent)
        THEN AddChildPair(T, held, parent)
      ELSE ReParent(T, held, parent)

-----------------------------------------------------------------------------
(* The constructor.                                                       *)

\* What GetEdgePairSignature, up to sign, and GetEdgePairHash % NumThreads can
\* be on the edges of a geometry: nothing ties the one to the other.
SignatureFunctions == [Pairs -> Sigs]
TaskFunctions      == [Pairs -> Threads]

Init ==
  /\ signature \in SignatureFunctions
  /\ task \in TaskFunctions
  /\ table = [nt \in Threads |-> EmptyTable]
  /\ todo = [nt \in Threads |-> { p \in Pairs : task[p] = nt }]
  /\ phase = "scan"
  /\ branch = 0
  /\ parentsLeft = {}
  /\ branchParent = None /\ treeParent = None
  /\ kidsLeft = {}

\* p is the element of S an ordered walk reaches next.
IsFirst(p, S) == p \in S /\ \A q \in S \ {p} : LessThan(p, q)

\* One iteration of the constructor's loop in thread nt, on a pair of its own.
Visit(T, p) ==
  LET s == signature[p]
  IN  IF IsChildIn(T, p) THEN T
      ELSE IF T.reps[s] = None
        THEN [T EXCEPT !.reps = [@ EXCEPT ![s] = p],
                       !.children = [@ EXCEPT ![p] = {}]]
      ELSE AddEquivalentPair(T, T.reps[s], p)

ScanPair(nt) ==
  /\ phase = "scan"
  /\ \E p \in todo[nt] :
       /\ IsFirst(p, todo[nt])
       /\ table' = [table EXCEPT ![nt] = Visit(@, p)]
       /\ todo' = [todo EXCEPT ![nt] = @ \ {p}]
  /\ UNCHANGED <<geometry, phase, merging>>

ParentsOf(nt) == { p \in Pairs : IsParentIn(table[nt], p) }

\* The end of the parallel loop: all threads are done.
ScanBarrier ==
  /\ phase = "scan"
  /\ \A nt \in Threads : todo[nt] = {}
  /\ phase' = IF NumThreads = 1 THEN "done" ELSE "merge"
  /\ branch' = IF NumThreads = 1 THEN 0 ELSE 1
  /\ parentsLeft' = IF NumThreads = 1 THEN {} ELSE ParentsOf(1)
  /\ UNCHANGED <<geometry, table, todo, branchParent, treeParent, kidsLeft>>

\* Mutant: the class of a new branch parent gets no representative.
AdoptParentForgets(T, p) ==
  LET s == signature[p]
  IN  IF T.reps[s] # None /\ LessThan(p, T.reps[s]) THEN ReParent(T, T.reps[s], p) ELSE T

\* Mutant: the tree keeps its representative even when the branch's is less.
AdoptParentNoReParent(T, p) ==
  LET s == signature[p]
  IN  IF T.reps[s] = None THEN [T EXCEPT !.reps = [@ EXCEPT ![s] = p]] ELSE T

\* The head of the loop of MergeEEPSubTables: find or change the tree's
\* representative of the class of the branch parent p.
AdoptParent(T, p) ==
  LET s == signature[p]
  IN  IF T.reps[s] = None THEN [T EXCEPT !.reps = [@ EXCEPT ![s] = p]]
      ELSE IF LessThan(p, T.reps[s]) THEN ReParent(T, T.reps[s], p)
      ELSE T

MergeParent ==
  /\ phase = "merge" /\ branchParent = None
  /\ \E p \in parentsLeft :
       LET T == AdoptParent(table[0], p)
       IN  /\ IsFirst(p, parentsLeft)
           /\ table' = [table EXCEPT ![0] = T]
           /\ parentsLeft' = parentsLeft \ {p}
           /\ branchParent' = p
           /\ treeParent' = T.reps[signature[p]]
           /\ kidsLeft' = ChildrenOf(table[branch], p)
  /\ UNCHANGED <<geometry, todo, phase, branch>>

MergeChild ==
  /\ phase = "merge" /\ branchParent # None
  /\ \E c \in kidsLeft :
       /\ IsFirst(c, kidsLeft)
       /\ table' = [table EXCEPT ![0] =
                      AddEquivalentPair(@, treeParent, c)]
       /\ kidsLeft' = kidsLeft \ {c}
  /\ UNCHANGED <<geometry, todo, phase, branch, parentsLeft, branchParent, treeParent>>

\* The tail of the loop body: the branch parent itself becomes a child.
MergeParentItself ==
  /\ phase = "merge" /\ branchParent # None /\ kidsLeft = {}
  /\ table' = [table EXCEPT ![0] =
                 AddEquivalentPair(@, treeParent, branchParent)]
  /\ branchParent' = None /\ treeParent' = None
  /\ UNCHANGED <<geometry, todo, phase, branch, parentsLeft, kidsLeft>>

\* `delete Branch', and the next one.
MergeNextBranch ==
  /\ phase = "merge" /\ branchParent = None /\ parentsLeft = {}
  /\ table' = [table EXCEPT ![branch] = EmptyTable]
  /\ IF branch + 1 < NumThreads
       THEN /\ branch' = branch + 1
            /\ parentsLeft' = ParentsOf(branch + 1)
            /\ UNCHANGED phase
       ELSE /\ phase' = "done"
            /\ UNCHANGED <<branch, parentsLeft>>
  /\ UNCHANGED <<geometry, todo, branchParent, treeParent, kidsLeft>>

Merge == MergeParent \/ MergeChild \/ MergeParentItself \/ MergeNextBranch

Next == (\E nt \in Threads : ScanPair(nt)) \/ ScanBarrier \/ Merge

Spec == Init /\ [][Next]_vars

-----------------------------------------------------------------------------
(* What the table answers once it is built.                                *)

HasParent(p) == IsChildIn(table[0], p)
GetParents == ParentsOf(0)
GetChildren(p) == ChildrenOf(table[0], p)

-----------------------------------------------------------------------------
(* Properties.                                                             *)

TypeOK ==
  /\ signature \in [Pairs -> Sigs]
  /\ task \in [Pairs -> Threads]
  /\ table \in [Threads -> Tables]
  /\ todo \in [Threads -> SUBSET Pairs]
  /\ phase \in {"scan", "merge", "done"}
  /\ branch \in Threads
  /\ parentsLeft \in SUBSET Pairs
  /\ branchParent \in Pairs \cup {None} /\ treeParent \in Pairs \cup {None}
  /\ treeParent = None <=> branchParent = None
  /\ kidsLeft \in SUBSET Pairs

\* A table is a forest of depth one over pairs of equal signature: the two maps
\* are inverse to each other, no parent is a child, and every parent is the
\* representative of its signature and less than its children.
TwoLevelForest(T) ==
  /\ \A c \in Pairs : IsChildIn(T, c) =>
       /\ IsParentIn(T, T.parents[c])
       /\ c \in T.children[T.parents[c]]
       /\ signature[T.parents[c]] = signature[c]
       /\ LessThan(T.parents[c], c)
  /\ \A p \in Pairs : IsParentIn(T, p) =>
       /\ ~IsChildIn(T, p)
       /\ T.reps[signature[p]] = p
       /\ \A c \in T.children[p] : T.parents[c] = p

\* No step of a thread or of the merge, ReParent included, leaves a pair whose
\* parent does not list it or is itself a child: GetChildren and HasParent
\* would then disagree and a matrix entry would never be written.
Forest == \A nt \in Threads : TwoLevelForest(table[nt])

IsClassLeast(p) ==
  \A q \in Pairs : q # p /\ signature[q] = signature[p] => LessThan(p, q)

\* The finished table is the same for every number of threads and every
\* assignment of pairs to threads: the parent of a pair is the least pair with
\* its signature, and only that pair has none.
Canonical ==
  phase = "done" =>
    \A p \in Pairs :
      IF IsClassLeast(p) THEN ~HasParent(p)
      ELSE /\ HasParent(p)
           /\ IsClassLeast(table[0].parents[p])
           /\ signature[table[0].parents[p]] = signature[p]

\* A pair that was entered in the master's table is never lost from it by the
\* re-parenting of its class.
NeverForgets ==
  [][\A p \in Pairs : PairInTable(table[0], p) => PairInTable(table'[0], p)]_vars
=============================================================================
