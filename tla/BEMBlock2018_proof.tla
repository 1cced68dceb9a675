-------------------------- MODULE BEMBlock2018_proof --------------------------
(***************************************************************************)
(* Proofs about EquivalentEdgePairs, for every number of edges and         *)
(* threads, and about BEMBlock2018, which reads and copies matrix entries  *)
(* by such a table: for every block, sign pattern, number of frequencies   *)
(* and of moves of the surfaces.                                           *)
(***************************************************************************)
EXTENDS BEMBlock2018, TLAPS

-----------------------------------------------------------------------------
(* The order of the pairs.                                                 *)

\* EdgePair::LessThan is a strict total order on the pairs.
LEMMA LessThanOrder ==
  ASSUME NEW p \in Pairs, NEW q \in Pairs, NEW r \in Pairs
  PROVE  /\ ~LessThan(p, p)
         /\ LessThan(p, q) => ~LessThan(q, p)
         /\ p # q => LessThan(p, q) \/ LessThan(q, p)
         /\ LessThan(p, q) /\ LessThan(q, r) => LessThan(p, r)
BY SizesAssumption DEF LessThan, Pairs, EdgesA, EdgesB

-----------------------------------------------------------------------------
(* What the routines do to one table.                                      *)

\* The invariant of one table: well-typed, a two-level forest, and every
\* representative is the representative of its own signature and no child.
TableInv(T) ==
  /\ T \in Tables
  /\ TwoLevelForest(T)
  /\ \A s \in Sigs : T.reps[s] # None =>
       signature[T.reps[s]] = s /\ ~IsChildIn(T, T.reps[s])

\* p has been entered: as the representative of its signature or as a child.
Accounted(T, p) == T.reps[signature[p]] = p \/ IsChildIn(T, p)

SignatureOK == signature \in [Pairs -> Sigs]

LEMMA EmptyTableInv == TableInv(EmptyTable)
BY DEF TableInv, EmptyTable, Tables, TwoLevelForest, IsChildIn, IsParentIn

\* Adding a child, greater and of equal signature, to the representative.
LEMMA AddChildPairInv ==
  ASSUME SignatureOK, NEW T, TableInv(T), NEW p \in Pairs, NEW c \in Pairs,
         T.reps[signature[p]] = p, ~PairInTable(T, c),
         signature[c] = signature[p], LessThan(p, c)
  PROVE  /\ TableInv(AddChildPair(T, p, c))
         /\ AddChildPair(T, p, c).reps = T.reps
         /\ \A q \in Pairs : IsChildIn(AddChildPair(T, p, c), q) <=> IsChildIn(T, q) \/ q = c
<1> DEFINE U == AddChildPair(T, p, c)
<1>1. /\ U.children = [T.children EXCEPT ![p] = ChildrenOf(T, p) \cup {c}]
      /\ U.parents = [T.parents EXCEPT ![c] = p]
      /\ U.reps = T.reps
      /\ U \in Tables
  BY NoneAssumption, ZenonT(60) DEF AddChildPair, TableInv, Tables, ChildrenOf, IsParentIn
<1>2. p # c /\ ~IsChildIn(T, p)
  <2>1. p # c
    BY LessThanOrder
  <2>2. signature[p] \in Sigs /\ T.reps[signature[p]] # None
    BY NoneAssumption DEF SignatureOK
  <2> QED BY <2>1, <2>2 DEF TableInv
<1>3. T \in Tables BY DEF TableInv
<1>4. \A q \in Pairs : IsChildIn(U, q) <=> IsChildIn(T, q) \/ q = c
  BY <1>1, <1>3, NoneAssumption DEF IsChildIn, Tables
<1>5. \A q \in Pairs : IsParentIn(U, q) <=> IsParentIn(T, q) \/ q = p
  BY <1>1, <1>3, NoneAssumption DEF IsParentIn, Tables, ChildrenOf
<1>6. TwoLevelForest(U)
  <2>1. ASSUME NEW q \in Pairs, IsChildIn(U, q)
        PROVE  /\ IsParentIn(U, U.parents[q])
               /\ q \in U.children[U.parents[q]]
               /\ signature[U.parents[q]] = signature[q]
               /\ LessThan(U.parents[q], q)
    <3>1. CASE q = c
      BY <3>1, <1>1, <1>3, <1>5 DEF Tables
    <3>2. CASE q # c
      BY <3>2, <2>1, <1>1, <1>3, <1>4, <1>5, NoneAssumption
      DEF Tables, TableInv, TwoLevelForest, IsChildIn, ChildrenOf, IsParentIn
    <3> QED BY <3>1, <3>2
  <2>2. ASSUME NEW q \in Pairs, IsParentIn(U, q)
        PROVE  /\ ~IsChildIn(U, q)
               /\ U.reps[signature[q]] = q
               /\ \A d \in U.children[q] : U.parents[d] = q
    <3>1. CASE q = p
      BY <3>1, <1>1, <1>2, <1>3, <1>4 DEF Tables, TableInv, TwoLevelForest, ChildrenOf, IsParentIn
    <3>2. CASE q # p
      BY <3>2, <2>2, <1>1, <1>3, <1>4, <1>5, NoneAssumption
      DEF Tables, TableInv, TwoLevelForest, PairInTable, IsParentIn, IsChildIn
    <3> QED BY <3>1, <3>2
  <2> QED BY <2>1, <2>2 DEF TwoLevelForest
<1>7. \A s \in Sigs : U.reps[s] # None =>
        signature[U.reps[s]] = s /\ ~IsChildIn(U, U.reps[s])
  <2> SUFFICES ASSUME NEW s \in Sigs, T.reps[s] # None
               PROVE  signature[T.reps[s]] = s /\ ~IsChildIn(U, T.reps[s])
    BY <1>1
  <2>1. T.reps[s] \in Pairs /\ signature[T.reps[s]] = s /\ ~IsChildIn(T, T.reps[s])
    BY <1>3 DEF TableInv, Tables
  <2>2. T.reps[s] # c
    BY <2>1, <1>2
  <2> QED BY <2>1, <2>2, <1>4
<1> QED BY <1>1, <1>4, <1>6, <1>7 DEF TableInv

\* Changing the representative, old, of a class for a lesser pair, new.
LEMMA ReParentInv ==
  ASSUME SignatureOK, NEW T, TableInv(T), NEW old \in Pairs, NEW new \in Pairs,
         T.reps[signature[old]] = old, signature[new] = signature[old],
         LessThan(new, old)
  PROVE  /\ TableInv(ReParent(T, old, new))
         /\ ReParent(T, old, new).reps = [T.reps EXCEPT ![signature[new]] = new]
         /\ \A q \in Pairs : Accounted(T, q) => Accounted(ReParent(T, old, new), q)
<1> DEFINE U == ReParent(T, old, new)
           moved == ChildrenOf(T, old)
<1>0. T \in Tables /\ TwoLevelForest(T)
  BY DEF TableInv
<1>1. moved \in SUBSET Pairs
  BY <1>0 DEF ChildrenOf, IsParentIn, Tables
<1>2. /\ U.children = [T.children EXCEPT ![old] = None, ![new] = moved \cup {old}]
      /\ U.parents = [q \in Pairs |-> IF q \in moved \cup {old} THEN new ELSE T.parents[q]]
      /\ U.reps = [T.reps EXCEPT ![signature[new]] = new]
  BY DEF ReParent
<1>3. U \in Tables
  BY <1>0, <1>1 DEF ReParent, Tables, SignatureOK
<1>4. /\ new # old /\ ~IsChildIn(T, old)
      /\ signature[old] \in Sigs
      /\ ~LessThan(old, new)
  <2>1. new # old /\ ~LessThan(old, new)
    BY LessThanOrder
  <2>2. signature[old] \in Sigs /\ T.reps[signature[old]] # None
    BY NoneAssumption DEF SignatureOK
  <2> QED BY <2>1, <2>2 DEF TableInv
<1>5. \A c \in moved : /\ T.parents[c] = old /\ signature[c] = signature[old]
                       /\ LessThan(old, c) /\ c # new
  BY <1>0, <1>1, <1>4, NoneAssumption DEF ChildrenOf, TwoLevelForest, IsChildIn, IsParentIn
\* The new parent is not in the table yet.
<1>6. ~IsParentIn(T, new) /\ ~IsChildIn(T, new)
  <2>1. ~IsParentIn(T, new)
    BY <1>0, <1>4 DEF TwoLevelForest
  <2>2. ASSUME IsChildIn(T, new) PROVE FALSE
    <3>1. T.parents[new] \in Pairs
      BY <2>2, <1>0 DEF Tables, IsChildIn
    <3>2. T.parents[new] = old
      BY <2>2, <3>1, <1>0 DEF TwoLevelForest
    <3> QED BY <2>2, <3>2, <1>0, <1>4 DEF TwoLevelForest
  <2> QED BY <2>1, <2>2
\* Nobody else's parent is old.
<1>7. \A q \in Pairs : T.parents[q] = old => q \in moved
  BY <1>0, NoneAssumption DEF TwoLevelForest, IsChildIn, ChildrenOf
<1>8. \A q \in Pairs : IsChildIn(U, q) <=> IsChildIn(T, q) \/ q = old
  BY <1>2, <1>5, NoneAssumption DEF IsChildIn
<1>9. \A q \in Pairs : IsParentIn(U, q) <=> (IsParentIn(T, q) /\ q # old) \/ q = new
  BY <1>0, <1>1, <1>2, <1>4, NoneAssumption DEF IsParentIn, Tables
<1>10. TwoLevelForest(U)
  <2>1. ASSUME NEW q \in Pairs, IsChildIn(U, q)
        PROVE  /\ IsParentIn(U, U.parents[q])
               /\ q \in U.children[U.parents[q]]
               /\ signature[U.parents[q]] = signature[q]
               /\ LessThan(U.parents[q], q)
    <3>1. CASE q \in moved \cup {old}
      <4>1. U.parents[q] = new /\ U.children[new] = moved \cup {old}
        BY <3>1, <1>0, <1>2 DEF Tables
      <4>2. LessThan(new, q)
        BY <3>1, <1>5, LessThanOrder
      <4> QED BY <3>1, <4>1, <4>2, <1>5, <1>9
    <3>2. CASE q \notin moved \cup {old}
      <4>1. U.parents[q] = T.parents[q] /\ IsChildIn(T, q)
        BY <3>2, <2>1, <1>2, <1>8
      <4>2. T.parents[q] \in Pairs /\ T.parents[q] # old
        BY <3>2, <4>1, <1>0, <1>7 DEF Tables, IsChildIn
      <4>3. /\ IsParentIn(T, T.parents[q]) /\ q \in T.children[T.parents[q]]
            /\ signature[T.parents[q]] = signature[q] /\ LessThan(T.parents[q], q)
        BY <4>1, <1>0 DEF TwoLevelForest
      <4>4. U.children[T.parents[q]] = T.children[T.parents[q]]
        BY <4>2, <4>3, <1>0, <1>2, <1>6 DEF Tables
      <4> QED BY <4>1, <4>2, <4>3, <4>4, <1>9
    <3> QED BY <3>1, <3>2
  <2>2. ASSUME NEW q \in Pairs, IsParentIn(U, q)
        PROVE  /\ ~IsChildIn(U, q)
               /\ U.reps[signature[q]] = q
               /\ \A d \in U.children[q] : U.parents[d] = q
    <3>1. CASE q = new
      BY <3>1, <1>0, <1>1, <1>2, <1>4, <1>6, <1>8 DEF Tables
    <3>2. CASE q # new
      <4>1. IsParentIn(T, q) /\ q # old
        BY <3>2, <2>2, <1>9
      <4>2. ~IsChildIn(T, q) /\ T.reps[signature[q]] = q /\ \A d \in T.children[q] : T.parents[d] = q
        BY <4>1, <1>0 DEF TwoLevelForest
      <4>3. signature[q] # signature[old]
        BY <4>1, <4>2
      <4>4. U.children[q] = T.children[q] /\ T.children[q] \subseteq Pairs
        BY <3>2, <4>1, <1>0, <1>2 DEF Tables, IsParentIn
      <4>5. \A d \in T.children[q] : d \notin moved \cup {old}
        BY <4>1, <4>2, <4>4, <1>4, <1>5, NoneAssumption DEF IsChildIn
      <4> QED BY <3>2, <4>1, <4>2, <4>3, <4>4, <4>5, <1>0, <1>2, <1>8 DEF Tables
    <3> QED BY <3>1, <3>2
  <2> QED BY <2>1, <2>2 DEF TwoLevelForest
<1>11. \A s \in Sigs : U.reps[s] # None =>
         signature[U.reps[s]] = s /\ ~IsChildIn(U, U.reps[s])
  <2> SUFFICES ASSUME NEW s \in Sigs, U.reps[s] # None
               PROVE  signature[U.reps[s]] = s /\ ~IsChildIn(U, U.reps[s])
    OBVIOUS
  <2>1. CASE s = signature[new]
    BY <2>1, <1>0, <1>2, <1>4, <1>6, <1>8 DEF Tables
  <2>2. CASE s # signature[new]
    <3>1. U.reps[s] = T.reps[s] /\ T.reps[s] \in Pairs
      BY <2>2, <1>0, <1>2 DEF Tables
    <3>2. signature[T.reps[s]] = s /\ ~IsChildIn(T, T.reps[s])
      BY <3>1 DEF TableInv
    <3> QED BY <2>2, <3>1, <3>2, <1>8
  <2> QED BY <2>1, <2>2
<1>12. \A q \in Pairs : Accounted(T, q) => Accounted(U, q)
  BY <1>0, <1>2, <1>8 DEF Accounted, Tables, SignatureOK
<1> QED BY <1>2, <1>3, <1>10, <1>11, <1>12 DEF TableInv

\* Called with the representative of a class, AddEquivalentPair enters the child
\* unless it is there: its other branches are never taken.
LEMMA AddEquivalentPairIs ==
  ASSUME SignatureOK, NEW T, TableInv(T), NEW p \in Pairs, NEW c \in Pairs,
         T.reps[signature[p]] = p, signature[c] = signature[p]
  PROVE  AddEquivalentPair(T, p, c) =
           IF p = c \/ PairInTable(T, c) THEN T ELSE AddChildPair(T, p, c)
<1>0. T \in Tables /\ TwoLevelForest(T)
  BY DEF TableInv
<1>1. ~IsChildIn(T, p)
  BY NoneAssumption DEF TableInv, SignatureOK
<1>2. PairInTable(T, c) /\ p # c => PairInTable(T, p)
  <2>1. IsParentIn(T, c) => p = c
    BY <1>0 DEF TwoLevelForest
  <2>2. ASSUME IsChildIn(T, c) PROVE IsParentIn(T, p)
    <3>1. T.parents[c] \in Pairs
      BY <2>2, <1>0 DEF Tables, IsChildIn
    <3>2. IsParentIn(T, T.parents[c]) /\ signature[T.parents[c]] = signature[p]
      BY <2>2, <1>0 DEF TwoLevelForest
    <3>3. T.parents[c] = p
      BY <3>1, <3>2, <1>0 DEF TwoLevelForest
    <3> QED BY <3>2, <3>3
  <2> QED BY <2>1, <2>2 DEF PairInTable
<1> QED BY <1>1, <1>2 DEF AddEquivalentPair

LEMMA AddEquivalentPairInv ==
  ASSUME SignatureOK, NEW T, TableInv(T), NEW p \in Pairs, NEW c \in Pairs,
         T.reps[signature[p]] = p, signature[c] = signature[p],
         p = c \/ LessThan(p, c)
  PROVE  /\ TableInv(AddEquivalentPair(T, p, c))
         /\ AddEquivalentPair(T, p, c).reps = T.reps
         /\ \A q \in Pairs : Accounted(AddEquivalentPair(T, p, c), q) <=> Accounted(T, q) \/ q = c
<1>0. T \in Tables /\ TwoLevelForest(T)
  BY DEF TableInv
<1>1. CASE p = c \/ PairInTable(T, c)
  <2>1. AddEquivalentPair(T, p, c) = T
    BY <1>1, AddEquivalentPairIs
  <2>2. Accounted(T, c)
    BY <1>0, <1>1 DEF Accounted, PairInTable, TwoLevelForest
  <2> QED BY <2>1, <2>2
<1>2. CASE ~(p = c \/ PairInTable(T, c))
  <2> DEFINE U == AddChildPair(T, p, c)
  <2>1. AddEquivalentPair(T, p, c) = U
    BY <1>2, AddEquivalentPairIs
  <2>2. /\ TableInv(U) /\ U.reps = T.reps
        /\ \A q \in Pairs : IsChildIn(U, q) <=> IsChildIn(T, q) \/ q = c
    BY <1>2, AddChildPairInv
  <2> HIDE DEF U
  <2> QED BY <2>1, <2>2 DEF Accounted
<1> QED BY <1>1, <1>2

\* The head of the merge loop leaves a representative of p's class that is p or
\* less than p, and loses nobody.
LEMMA AdoptParentInv ==
  ASSUME SignatureOK, NEW T, TableInv(T), NEW p \in Pairs,
         NEW U, U = AdoptParent(T, p), NEW r, r = U.reps[signature[p]]
  PROVE  /\ TableInv(U)
         /\ r \in Pairs /\ signature[r] = signature[p]
         /\ r = p \/ LessThan(r, p)
         /\ \A q \in Pairs : Accounted(T, q) => Accounted(U, q)
<1> DEFINE s == signature[p]
           old == T.reps[s]
<1>0. T \in Tables /\ TwoLevelForest(T) /\ s \in Sigs
  BY DEF TableInv, SignatureOK
<1>1. CASE old = None
  <2>1. U.reps = [T.reps EXCEPT ![s] = p] /\ U.children = T.children /\ U.parents = T.parents
        /\ U \in Tables
    BY <1>0, <1>1 DEF AdoptParent, Tables
  <2>2. \A q \in Pairs : signature[q] = s => ~IsParentIn(T, q) /\ ~IsChildIn(T, q)
    <3>1. ASSUME NEW q \in Pairs, signature[q] = s, IsParentIn(T, q) PROVE FALSE
      BY <3>1, <1>0, <1>1, NoneAssumption DEF TwoLevelForest
    <3>2. ASSUME NEW q \in Pairs, signature[q] = s, IsChildIn(T, q) PROVE FALSE
      <4>1. T.parents[q] \in Pairs
        BY <3>2, <1>0 DEF Tables, IsChildIn
      <4> QED BY <3>1, <3>2, <4>1, <1>0 DEF TwoLevelForest
    <3> QED BY <3>1, <3>2
  <2>3. \A q \in Pairs : (IsParentIn(U, q) <=> IsParentIn(T, q)) /\ (IsChildIn(U, q) <=> IsChildIn(T, q))
    BY <2>1 DEF IsParentIn, IsChildIn
  <2>4. TwoLevelForest(U)
    <3>1. \A q \in Pairs : IsChildIn(T, q) => T.parents[q] \in Pairs
      BY <1>0 DEF Tables, IsChildIn
    <3>2. \A q \in Pairs : IsParentIn(T, q) => U.reps[signature[q]] = q
      BY <1>0, <2>1, <2>2 DEF TwoLevelForest, Tables, SignatureOK
    <3> QED BY <1>0, <2>1, <2>3, <3>1, <3>2 DEF TwoLevelForest
  <2>5. \A t \in Sigs : U.reps[t] # None =>
          signature[U.reps[t]] = t /\ ~IsChildIn(U, U.reps[t])
    <3> SUFFICES ASSUME NEW t \in Sigs, U.reps[t] # None
                 PROVE  signature[U.reps[t]] = t /\ ~IsChildIn(U, U.reps[t])
      OBVIOUS
    <3>1. CASE t = s
      BY <3>1, <1>0, <2>1, <2>2, <2>3 DEF Tables
    <3>2. CASE t # s
      <4>1. U.reps[t] = T.reps[t] /\ T.reps[t] \in Pairs
        BY <3>2, <1>0, <2>1 DEF Tables
      <4> QED BY <4>1, <2>3 DEF TableInv
    <3> QED BY <3>1, <3>2
  <2>6. \A q \in Pairs : Accounted(T, q) => Accounted(U, q)
    BY <1>0, <1>1, <2>1, <2>3, NoneAssumption DEF Accounted, Tables, SignatureOK
  <2>7. U.reps[s] = p
    BY <1>0, <2>1 DEF Tables
  <2> QED BY <2>1, <2>4, <2>5, <2>6, <2>7 DEF TableInv
<1>2. CASE old # None /\ LessThan(p, old)
  <2>1. old \in Pairs /\ signature[old] = s
    BY <1>0, <1>2 DEF Tables, TableInv
  <2>2. U = ReParent(T, old, p)
    BY <1>2 DEF AdoptParent
  <2>3. /\ TableInv(U)
        /\ U.reps = [T.reps EXCEPT ![s] = p]
        /\ \A q \in Pairs : Accounted(T, q) => Accounted(U, q)
    BY <1>2, <2>1, <2>2, ReParentInv
  <2>4. U.reps[s] = p
    BY <1>0, <2>3 DEF Tables
  <2> QED BY <2>3, <2>4
<1>3. CASE old # None /\ ~LessThan(p, old)
  <2>1. old \in Pairs /\ signature[old] = s
    BY <1>0, <1>3 DEF Tables, TableInv
  <2>2. U = T
    BY <1>3 DEF AdoptParent
  <2>3. old = p \/ LessThan(old, p)
    BY <1>3, <2>1, LessThanOrder
  <2> QED BY <2>1, <2>2, <2>3
<1> QED BY <1>1, <1>2, <1>3

\* In a branch every representative is listed as a parent.
RepsAreParents(T) == \A s \in Sigs : T.reps[s] # None => IsParentIn(T, T.reps[s])

\* A thread that visits pairs in increasing order enters the pair it visits.
LEMMA VisitInv ==
  ASSUME SignatureOK, NEW T, TableInv(T), RepsAreParents(T), NEW p \in Pairs,
         ~Accounted(T, p), \A q \in Pairs : Accounted(T, q) => LessThan(q, p),
         NEW U, U = Visit(T, p)
  PROVE  /\ TableInv(U) /\ RepsAreParents(U)
         /\ \A q \in Pairs : Accounted(U, q) <=> Accounted(T, q) \/ q = p
<1> DEFINE s == signature[p]
           r == T.reps[s]
<1>0. T \in Tables /\ TwoLevelForest(T) /\ s \in Sigs /\ ~IsChildIn(T, p) /\ r # p
  BY DEF TableInv, SignatureOK, Accounted
<1>1. CASE r = None
  <2>1. /\ U.children = [T.children EXCEPT ![p] = {}]
        /\ U.parents = T.parents
        /\ U.reps = [T.reps EXCEPT ![s] = p]
        /\ U \in Tables
    BY <1>0, <1>1 DEF Visit, Tables
  <2>2. \A q \in Pairs : signature[q] = s => ~IsParentIn(T, q)
    BY <1>0, <1>1, NoneAssumption DEF TwoLevelForest
  <2>3. \A q \in Pairs : IsChildIn(T, q) =>
          T.parents[q] \in Pairs /\ T.parents[q] # p
    BY <1>0, <2>2 DEF TwoLevelForest, Tables, IsChildIn
  <2>4. /\ \A q \in Pairs : IsParentIn(U, q) <=> IsParentIn(T, q) \/ q = p
        /\ \A q \in Pairs : IsChildIn(U, q) <=> IsChildIn(T, q)
    BY <1>0, <2>1, NoneAssumption DEF IsParentIn, IsChildIn, Tables
  <2>5. TwoLevelForest(U)
    <3>1. ASSUME NEW q \in Pairs, IsChildIn(U, q)
          PROVE  /\ IsParentIn(U, U.parents[q])
                 /\ q \in U.children[U.parents[q]]
                 /\ signature[U.parents[q]] = signature[q]
                 /\ LessThan(U.parents[q], q)
      BY <3>1, <1>0, <2>1, <2>3, <2>4 DEF TwoLevelForest, Tables
    <3>2. ASSUME NEW q \in Pairs, IsParentIn(U, q)
          PROVE  /\ ~IsChildIn(U, q)
                 /\ U.reps[signature[q]] = q
                 /\ \A d \in U.children[q] : U.parents[d] = q
      <4>1. CASE q = p
        BY <4>1, <1>0, <2>1, <2>4 DEF Tables
      <4>2. CASE q # p
        BY <4>2, <3>2, <1>0, <2>1, <2>2, <2>4 DEF TwoLevelForest, Tables, SignatureOK
      <4> QED BY <4>1, <4>2
    <3> QED BY <3>1, <3>2 DEF TwoLevelForest
  <2>6. \A t \in Sigs : U.reps[t] # None =>
          /\ signature[U.reps[t]] = t /\ ~IsChildIn(U, U.reps[t])
          /\ IsParentIn(U, U.reps[t])
    <3> SUFFICES ASSUME NEW t \in Sigs, U.reps[t] # None
                 PROVE  /\ signature[U.reps[t]] = t /\ ~IsChildIn(U, U.reps[t])
                        /\ IsParentIn(U, U.reps[t])
      OBVIOUS
    <3>1. CASE t = s
      BY <3>1, <1>0, <2>1, <2>4 DEF Tables
    <3>2. CASE t # s
      <4>1. U.reps[t] = T.reps[t] /\ T.reps[t] \in Pairs
        BY <3>2, <1>0, <2>1 DEF Tables
      <4> QED BY <4>1, <2>4 DEF TableInv, RepsAreParents
    <3> QED BY <3>1, <3>2
  <2>7. \A q \in Pairs : Accounted(U, q) <=> Accounted(T, q) \/ q = p
    BY <1>0, <1>1, <2>1, <2>4, NoneAssumption DEF Accounted, Tables, SignatureOK
  <2> QED BY <2>1, <2>5, <2>6, <2>7 DEF TableInv, RepsAreParents
<1>2. CASE r # None
  <2>1. r \in Pairs /\ signature[r] = s /\ Accounted(T, r) /\ IsParentIn(T, r)
    BY <1>0, <1>2 DEF Tables, TableInv, RepsAreParents, Accounted
  <2>2. LessThan(r, p)
    BY <2>1
  <2>3. U = AddEquivalentPair(T, r, p)
    BY <1>0, <1>2 DEF Visit
  <2>4. /\ TableInv(U) /\ U.reps = T.reps
        /\ \A q \in Pairs : Accounted(U, q) <=> Accounted(T, q) \/ q = p
    BY <2>1, <2>2, <2>3, AddEquivalentPairInv
  <2>5. U = T \/ U = AddChildPair(T, r, p)
    BY <2>1, <2>3, AddEquivalentPairIs
  <2>6. \A q \in Pairs : IsParentIn(T, q) => IsParentIn(U, q)
    <3>1. ASSUME U = AddChildPair(T, r, p), NEW q \in Pairs, IsParentIn(T, q)
          PROVE  IsParentIn(U, q)
      <4>1. U.children = [T.children EXCEPT ![r] = T.children[r] \cup {p}]
        BY <2>1, <3>1 DEF AddChildPair, ChildrenOf
      <4>2. T.children[r] \cup {p} \in SUBSET Pairs
        BY <1>0, <2>1 DEF IsParentIn, Tables
      <4> QED BY <3>1, <4>1, <4>2, <1>0, NoneAssumption DEF IsParentIn, Tables
    <3> QED BY <2>5, <3>1
  <2>7. RepsAreParents(U)
    BY <1>0, <2>4, <2>6 DEF RepsAreParents, Tables
  <2> QED BY <2>4, <2>7
<1> QED BY <1>1, <1>2

-----------------------------------------------------------------------------
(* The inductive invariant of the constructor.                             *)

\* A branch holds exactly the pairs its thread has visited, all of them less
\* than those it has not.
BranchInv(nt) ==
  /\ RepsAreParents(table[nt])
  /\ \A p \in todo[nt] : task[p] = nt
  /\ \A p \in Pairs : Accounted(table[nt], p) <=> task[p] = nt /\ p \notin todo[nt]
  /\ \A p \in Pairs, q \in todo[nt] : Accounted(table[nt], p) => LessThan(p, q)

\* The parent in the branch being merged that brings p into the tree.
HeadOf(p) == IF IsChildIn(table[branch], p) THEN table[branch].parents[p] ELSE p

\* p is in the tree or will be brought there by what is left of this branch.
Reached(p) ==
  \/ Accounted(table[0], p)
  \/ HeadOf(p) \in parentsLeft
  \/ HeadOf(p) = branchParent /\ (p = branchParent \/ p \in kidsLeft)

BodyInv ==
  /\ branchParent \in ParentsOf(branch)
  /\ kidsLeft \subseteq table[branch].children[branchParent]
  /\ treeParent \in Pairs
  /\ signature[treeParent] = signature[branchParent]
  /\ table[0].reps[signature[treeParent]] = treeParent
  /\ treeParent = branchParent \/ LessThan(treeParent, branchParent)

MergeInv ==
  /\ branch > 0
  /\ \A nt \in Threads : nt >= branch =>
       /\ RepsAreParents(table[nt])
       /\ \A p \in Pairs : task[p] = nt => Accounted(table[nt], p)
  /\ parentsLeft \subseteq ParentsOf(branch)
  /\ branchParent = None => kidsLeft = {}
  /\ branchParent # None => BodyInv
  /\ \A p \in Pairs : /\ task[p] < branch => Accounted(table[0], p)
                      /\ task[p] = branch => Reached(p)

IInv ==
  /\ TypeOK
  /\ \A nt \in Threads : TableInv(table[nt])
  /\ phase = "scan" => /\ branchParent = None /\ kidsLeft = {}
                       /\ \A nt \in Threads : BranchInv(nt)
  /\ phase = "merge" => MergeInv
  /\ phase = "done" => \A p \in Pairs : Accounted(table[0], p)

LEMMA ThreadZero == 0 \in Threads
BY ThreadsAssumption DEF Threads

LEMMA InitIInv == Init => IInv
<1> SUFFICES ASSUME Init PROVE IInv
  OBVIOUS
<1>1. TypeOK
  <2>1. EmptyTable \in Tables
    BY EmptyTableInv DEF TableInv
  <2> QED BY <2>1, ThreadZero, NoneAssumption DEF Init, TypeOK, SignatureFunctions, TaskFunctions
<1>2. \A nt \in Threads : TableInv(table[nt])
  BY EmptyTableInv DEF Init
<1>3. ASSUME NEW nt \in Threads PROVE BranchInv(nt)
  <2>1. table[nt] = EmptyTable /\ todo[nt] = {p \in Pairs : task[p] = nt}
    BY DEF Init
  <2>2. \A p \in Pairs : ~Accounted(EmptyTable, p)
    BY <1>1, NoneAssumption DEF Accounted, EmptyTable, IsChildIn, TypeOK
  <2>3. RepsAreParents(EmptyTable)
    BY DEF RepsAreParents, EmptyTable
  <2> QED BY <2>1, <2>2, <2>3 DEF BranchInv
<1> QED BY <1>1, <1>2, <1>3 DEF IInv, Init

LEMMA ScanPairIInv ==
  ASSUME IInv, NEW nt \in Threads, ScanPair(nt)
  PROVE  IInv'
<1> PICK p \in todo[nt] : /\ IsFirst(p, todo[nt])
                          /\ table' = [table EXCEPT ![nt] = Visit(table[nt], p)]
                          /\ todo' = [todo EXCEPT ![nt] = todo[nt] \ {p}]
  BY DEF ScanPair
<1> DEFINE U == Visit(table[nt], p)
<1>0. /\ phase = "scan" /\ phase' = phase /\ UNCHANGED <<geometry, merging>>
      /\ TypeOK /\ SignatureOK
      /\ p \in Pairs
      /\ BranchInv(nt) /\ TableInv(table[nt])
  BY DEF ScanPair, IInv, TypeOK, SignatureOK
<1>1. /\ TableInv(U) /\ RepsAreParents(U)
      /\ \A q \in Pairs : Accounted(U, q) <=> Accounted(table[nt], q) \/ q = p
  <2>1. ~Accounted(table[nt], p) /\ \A q \in Pairs : Accounted(table[nt], q) => LessThan(q, p)
    BY <1>0 DEF BranchInv
  <2> QED BY <1>0, <2>1, VisitInv DEF BranchInv
<1>2. table' \in [Threads -> Tables] /\ table'[nt] = U
      /\ \A m \in Threads : m # nt => table'[m] = table[m]
  <2>1. table' = [table EXCEPT ![nt] = U] /\ U \in Tables
    BY <1>1 DEF TableInv
  <2> HIDE DEF U
  <2> QED BY <2>1, <1>0 DEF TypeOK
<1> HIDE DEF U
<1>3. todo' \in [Threads -> SUBSET Pairs] /\ todo'[nt] = todo[nt] \ {p}
      /\ \A m \in Threads : m # nt => todo'[m] = todo[m]
  BY <1>0 DEF TypeOK
<1>4. TypeOK'
  BY <1>0, <1>2, <1>3 DEF TypeOK, geometry, merging
<1>5. ASSUME NEW m \in Threads PROVE TableInv(table[m])' /\ BranchInv(m)'
  <2>0. /\ signature' = signature /\ task' = task
        /\ \A q \in todo[nt] \ {p} : LessThan(p, q)
        /\ TableInv(table[m]) /\ BranchInv(m)
    BY <1>0 DEF geometry, IsFirst, IInv
  <2>1. CASE m = nt
    <3>1. TableInv(table[m])'
      BY <2>0, <2>1, <1>1, <1>2 DEF TableInv, TwoLevelForest
    <3>2. BranchInv(m)'
      BY <2>0, <2>1, <1>0, <1>1, <1>2, <1>3 DEF BranchInv, Accounted, TypeOK
    <3> QED BY <3>1, <3>2
  <2>2. CASE m # nt
    BY <2>0, <2>2, <1>2, <1>3 DEF TableInv, TwoLevelForest, BranchInv, Accounted
  <2> QED BY <2>1, <2>2
<1>6. branchParent' = None /\ kidsLeft' = {}
  BY <1>0 DEF IInv, merging
<1> QED BY <1>0, <1>4, <1>5, <1>6 DEF IInv

LEMMA ScanBarrierIInv ==
  ASSUME IInv, ScanBarrier
  PROVE  IInv'
<1>0. /\ phase = "scan" /\ TypeOK /\ \A nt \in Threads : todo[nt] = {}
      /\ \A nt \in Threads : BranchInv(nt) /\ TableInv(table[nt])
      /\ UNCHANGED <<signature, task, table, todo, branchParent, treeParent, kidsLeft>>
  BY DEF ScanBarrier, IInv, geometry
<1>1. /\ \A nt \in Threads, p \in Pairs : task[p] = nt => Accounted(table[nt], p)
      /\ \A nt \in Threads : RepsAreParents(table[nt])
  BY <1>0 DEF BranchInv
<1>2. \A nt \in Threads : TableInv(table[nt])'
  BY <1>0 DEF TableInv, TwoLevelForest
<1>3. CASE NumThreads = 1
  <2>1. phase' = "done" /\ branch' = 0 /\ parentsLeft' = {}
    BY <1>3 DEF ScanBarrier
  <2>2. TypeOK'
    BY <1>0, <2>1, ThreadZero DEF TypeOK
  <2>3. \A p \in Pairs : task[p] = 0
    BY <1>0, <1>3 DEF TypeOK, Threads
  <2> QED BY <1>0, <1>1, <1>2, <2>1, <2>2, <2>3, ThreadZero DEF IInv, Accounted
<1>4. CASE NumThreads # 1
  <2>1. phase' = "merge" /\ branch' = 1 /\ parentsLeft' = ParentsOf(1)
    BY <1>4 DEF ScanBarrier
  <2>2. 1 \in Threads
    BY <1>4, ThreadsAssumption DEF Threads
  <2>3. TypeOK'
    BY <1>0, <2>1, <2>2 DEF TypeOK, ParentsOf
  <2>4. branchParent' = None /\ kidsLeft' = {}
    BY <1>0 DEF IInv
  <2>5. ASSUME NEW p \in Pairs, task[p] = 1 PROVE HeadOf(p)' \in ParentsOf(1)
    <3>1. TableInv(table[1]) /\ RepsAreParents(table[1]) /\ Accounted(table[1], p)
      BY <1>0, <1>1, <2>2, <2>5
    <3>2. HeadOf(p)' = IF IsChildIn(table[1], p) THEN table[1].parents[p] ELSE p
      BY <1>0, <2>1 DEF HeadOf
    <3>3. table[1].reps[signature[p]] = p => IsParentIn(table[1], p)
      BY <3>1, <1>0, NoneAssumption DEF RepsAreParents, TypeOK
    <3>4. IsChildIn(table[1], p) => /\ table[1].parents[p] \in Pairs
                                    /\ IsParentIn(table[1], table[1].parents[p])
      BY <3>1 DEF TableInv, TwoLevelForest, Tables, IsChildIn
    <3> QED BY <3>1, <3>2, <3>3, <3>4 DEF ParentsOf, Accounted
  <2>6. \A p \in Pairs : task[p] < 1 => Accounted(table[0], p)
    <3>1. \A p \in Pairs : task[p] < 1 => task[p] = 0
      BY <1>0 DEF TypeOK, Threads
    <3> QED BY <3>1, <1>1, ThreadZero
  <2>7. MergeInv'
    BY <1>0, <1>1, <2>1, <2>4, <2>5, <2>6 DEF MergeInv, Reached, ParentsOf, Accounted
  <2> QED BY <1>2, <2>1, <2>3, <2>7 DEF IInv
<1> QED BY <1>3, <1>4

LEMMA MergeParentIInv ==
  ASSUME IInv, MergeParent
  PROVE  IInv'
<1> PICK p \in parentsLeft :
      /\ table' = [table EXCEPT ![0] = AdoptParent(table[0], p)]
      /\ parentsLeft' = parentsLeft \ {p}
      /\ branchParent' = p
      /\ treeParent' = AdoptParent(table[0], p).reps[signature[p]]
      /\ kidsLeft' = ChildrenOf(table[branch], p)
  BY DEF MergeParent
<1> DEFINE U == AdoptParent(table[0], p)
           r == U.reps[signature[p]]
           B == table[branch]
<1>0. /\ phase = "merge" /\ phase' = phase /\ branchParent = None /\ kidsLeft = {}
      /\ UNCHANGED <<signature, task, todo, branch>>
      /\ TypeOK /\ SignatureOK /\ MergeInv /\ \A nt \in Threads : TableInv(table[nt])
      /\ p \in Pairs /\ p \in ParentsOf(branch) /\ branch \in Threads /\ branch # 0
  BY DEF MergeParent, IInv, TypeOK, SignatureOK, MergeInv, geometry
<1>1. /\ TableInv(U)
      /\ r \in Pairs /\ signature[r] = signature[p]
      /\ r = p \/ LessThan(r, p)
      /\ \A q \in Pairs : Accounted(table[0], q) => Accounted(U, q)
  BY <1>0, ThreadZero, AdoptParentInv
<1>2. table' \in [Threads -> Tables] /\ table'[0] = U
      /\ \A m \in Threads : m # 0 => table'[m] = table[m]
  <2>1. table' = [table EXCEPT ![0] = U] /\ U \in Tables
    BY <1>1 DEF TableInv
  <2> HIDE DEF U
  <2> QED BY <2>1, <1>0, ThreadZero DEF TypeOK
<1>3. B \in Tables /\ TwoLevelForest(B) /\ IsParentIn(B, p)
      /\ table'[branch] = B /\ kidsLeft' = B.children[p]
  BY <1>0, <1>2 DEF TableInv, ParentsOf, ChildrenOf
<1>4. TypeOK'
  <2>1. kidsLeft' \in SUBSET Pairs
    BY <1>0, <1>3 DEF Tables, IsParentIn
  <2>2. branchParent' \in Pairs /\ treeParent' \in Pairs /\ branchParent' # None /\ treeParent' # None
    BY <1>0, <1>1, NoneAssumption
  <2> QED BY <1>0, <1>2, <2>1, <2>2 DEF TypeOK
<1>5. \A nt \in Threads : TableInv(table[nt])'
  BY <1>0, <1>1, <1>2 DEF TableInv, TwoLevelForest
<1>6. BodyInv'
  <2>1. treeParent' = r /\ branchParent' = p
    OBVIOUS
  <2> HIDE DEF U, r, B
  <2>2. p \in ParentsOf(branch)'
    BY <1>0, <1>3 DEF ParentsOf
  <2>3. table'[0].reps[signature'[treeParent']] = treeParent'
    BY <1>0, <1>1, <1>2, <2>1 DEF r
  <2> QED BY <1>0, <1>1, <1>3, <2>1, <2>2, <2>3 DEF BodyInv
<1>7. ASSUME NEW q \in Pairs, task[q] = branch PROVE Reached(q)'
  <2>1. Reached(q)
    BY <1>0, <1>7 DEF MergeInv
  <2>2. HeadOf(q)' = HeadOf(q)
    BY <1>0, <1>3 DEF HeadOf
  <2>3. Accounted(table[0], q) => Accounted(table[0], q)'
    BY <1>0, <1>1, <1>2 DEF Accounted
  <2>4. CASE HeadOf(q) = p
    <3>1. q = p \/ q \in B.children[p]
      BY <2>4, <1>3 DEF HeadOf, TwoLevelForest
    <3> QED BY <3>1, <2>2, <2>4, <1>3 DEF Reached
  <2>5. CASE HeadOf(q) # p
    <3>1. HeadOf(q) # None
      BY <1>0, <1>3, NoneAssumption DEF HeadOf, IsChildIn
    <3> QED BY <1>0, <2>1, <2>2, <2>3, <2>5, <3>1 DEF Reached
  <2> QED BY <2>4, <2>5
<1>8. \A q \in Pairs : task[q] < branch => Accounted(table[0], q)'
  BY <1>0, <1>1, <1>2 DEF MergeInv, Accounted
<1>9. MergeInv'
  <2>1. \A nt \in Threads : nt >= branch =>
          /\ RepsAreParents(table[nt])'
          /\ \A q \in Pairs : task[q] = nt => Accounted(table[nt], q)'
    <3>1. \A nt \in Threads : nt >= branch => nt # 0
      BY <1>0 DEF Threads, MergeInv
    <3> QED BY <1>0, <1>2, <3>1 DEF MergeInv, Accounted, RepsAreParents
  <2>2. (parentsLeft \subseteq ParentsOf(branch))'
    BY <1>0, <1>3 DEF MergeInv, ParentsOf
  <2>3. branchParent' # None
    BY <1>0, NoneAssumption
  <2> QED BY <1>0, <1>6, <1>7, <1>8, <2>1, <2>2, <2>3 DEF MergeInv
<1> QED BY <1>0, <1>4, <1>5, <1>9 DEF IInv

\* Entering c, a child of the branch parent or the branch parent itself, in the
\* tree keeps what IInv says of the tables and loses nobody.
LEMMA AddToTree ==
  ASSUME IInv, phase = "merge", branchParent # None, NEW c \in Pairs,
         c = branchParent \/ c \in kidsLeft, UNCHANGED <<signature, task>>,
         table' = [table EXCEPT ![0] = AddEquivalentPair(table[0], treeParent, c)]
  PROVE  /\ table' \in [Threads -> Tables]
         /\ \A nt \in Threads : TableInv(table[nt])'
         /\ \A nt \in Threads : nt # 0 => table'[nt] = table[nt]
         /\ table'[0].reps = table[0].reps
         /\ \A q \in Pairs : Accounted(table[0], q) => Accounted(table[0], q)'
         /\ Accounted(table[0], c)'
<1> DEFINE U == AddEquivalentPair(table[0], treeParent, c)
<1>0. /\ TypeOK /\ SignatureOK /\ BodyInv /\ branch \in Threads
      /\ \A nt \in Threads : TableInv(table[nt])
      /\ branchParent \in Pairs /\ treeParent \in Pairs
  BY DEF IInv, MergeInv, BodyInv, TypeOK, SignatureOK, ParentsOf
<1>1. signature[c] = signature[treeParent] /\ (c = treeParent \/ LessThan(treeParent, c))
  <2>1. CASE c = branchParent
    BY <2>1, <1>0 DEF BodyInv
  <2>2. CASE c \in kidsLeft
    <3>1. /\ table[branch].parents[c] = branchParent
          /\ signature[c] = signature[branchParent] /\ LessThan(branchParent, c)
      BY <2>2, <1>0, NoneAssumption DEF BodyInv, TableInv, TwoLevelForest, ParentsOf, IsChildIn
    <3> QED BY <3>1, <1>0, LessThanOrder DEF BodyInv
  <2> QED BY <2>1, <2>2
<1>2. /\ TableInv(U) /\ U.reps = table[0].reps
      /\ \A q \in Pairs : Accounted(U, q) <=> Accounted(table[0], q) \/ q = c
  BY <1>0, <1>1, ThreadZero, AddEquivalentPairInv DEF BodyInv
<1>3. table' \in [Threads -> Tables] /\ table'[0] = U
      /\ \A m \in Threads : m # 0 => table'[m] = table[m]
  <2>1. table' = [table EXCEPT ![0] = U] /\ U \in Tables
    BY <1>2 DEF TableInv
  <2> HIDE DEF U
  <2> QED BY <2>1, <1>0, ThreadZero DEF TypeOK
<1> HIDE DEF U
<1>4. \A nt \in Threads : TableInv(table[nt])'
  BY <1>0, <1>2, <1>3 DEF TableInv, TwoLevelForest
<1>5. \A q \in Pairs : Accounted(table[0], q)' <=> Accounted(table[0], q) \/ q = c
  BY <1>2, <1>3 DEF Accounted
<1> QED BY <1>2, <1>3, <1>4, <1>5

LEMMA MergeChildIInv ==
  ASSUME IInv, MergeChild
  PROVE  IInv'
<1> PICK c \in kidsLeft :
      /\ table' = [table EXCEPT ![0] = AddEquivalentPair(table[0], treeParent, c)]
      /\ kidsLeft' = kidsLeft \ {c}
  BY DEF MergeChild
<1>0. /\ phase = "merge" /\ phase' = phase /\ branchParent # None /\ branchParent' # None
      /\ UNCHANGED <<signature, task, todo, branch, parentsLeft, branchParent, treeParent>>
      /\ TypeOK /\ MergeInv /\ BodyInv /\ branch \in Threads /\ branch # 0 /\ c \in Pairs
  BY DEF MergeChild, IInv, MergeInv, TypeOK, geometry
<1>1. /\ table' \in [Threads -> Tables]
      /\ \A nt \in Threads : TableInv(table[nt])'
      /\ \A nt \in Threads : nt # 0 => table'[nt] = table[nt]
      /\ table'[0].reps = table[0].reps
      /\ \A q \in Pairs : Accounted(table[0], q) => Accounted(table[0], q)'
      /\ Accounted(table[0], c)'
  BY <1>0, AddToTree
<1>2. TypeOK'
  BY <1>0, <1>1 DEF TypeOK
<1>3. MergeInv'
  <2>1. \A nt \in Threads : nt >= branch => nt # 0
    BY <1>0 DEF Threads, MergeInv
  <2>2. \A nt \in Threads : nt >= branch =>
          /\ RepsAreParents(table[nt])'
          /\ \A q \in Pairs : task[q] = nt => Accounted(table[nt], q)'
    BY <1>0, <1>1, <2>1 DEF MergeInv, Accounted, RepsAreParents
  <2>3. BodyInv'
    BY <1>0, <1>1 DEF BodyInv, ParentsOf
  <2>4. ASSUME NEW q \in Pairs, task[q] = branch PROVE Reached(q)'
    <3>1. Reached(q) /\ HeadOf(q)' = HeadOf(q)
      BY <2>4, <1>0, <1>1 DEF MergeInv, HeadOf
    <3> QED BY <3>1, <1>0, <1>1 DEF Reached
  <2>5. (parentsLeft \subseteq ParentsOf(branch))'
    BY <1>0, <1>1 DEF MergeInv, ParentsOf
  <2>6. \A q \in Pairs : task[q] < branch => Accounted(table[0], q)'
    BY <1>0, <1>1 DEF MergeInv
  <2> QED BY <1>0, <2>2, <2>3, <2>4, <2>5, <2>6 DEF MergeInv
<1> QED BY <1>0, <1>1, <1>2, <1>3 DEF IInv

LEMMA MergeParentItselfIInv ==
  ASSUME IInv, MergeParentItself
  PROVE  IInv'
<1>0. /\ phase = "merge" /\ phase' = phase /\ branchParent # None /\ kidsLeft = {}
      /\ table' = [table EXCEPT ![0] = AddEquivalentPair(table[0], treeParent, branchParent)]
      /\ branchParent' = None /\ treeParent' = None
      /\ UNCHANGED <<signature, task, todo, branch, parentsLeft, kidsLeft>>
      /\ TypeOK /\ MergeInv /\ branch \in Threads /\ branch # 0 /\ branchParent \in Pairs
  BY DEF MergeParentItself, IInv, MergeInv, TypeOK, geometry
<1>1. /\ table' \in [Threads -> Tables]
      /\ \A nt \in Threads : TableInv(table[nt])'
      /\ \A nt \in Threads : nt # 0 => table'[nt] = table[nt]
      /\ \A q \in Pairs : Accounted(table[0], q) => Accounted(table[0], q)'
      /\ \A q \in Pairs : q = branchParent => Accounted(table[0], q)'
  <2>1. PICK c \in Pairs : c = branchParent
    BY <1>0
  <2>2. table' = [table EXCEPT ![0] = AddEquivalentPair(table[0], treeParent, c)]
    BY <1>0, <2>1
  <2>3. /\ table' \in [Threads -> Tables]
        /\ \A nt \in Threads : TableInv(table[nt])'
        /\ \A nt \in Threads : nt # 0 => table'[nt] = table[nt]
        /\ \A q \in Pairs : Accounted(table[0], q) => Accounted(table[0], q)'
        /\ Accounted(table[0], c)'
    BY <1>0, <2>1, <2>2, AddToTree
  <2> QED BY <2>1, <2>3
<1>2. TypeOK'
  BY <1>0, <1>1 DEF TypeOK
<1>3. MergeInv'
  <2>1. \A nt \in Threads : nt >= branch => nt # 0
    BY <1>0 DEF Threads, MergeInv
  <2>2. \A nt \in Threads : nt >= branch =>
          /\ RepsAreParents(table[nt])'
          /\ \A q \in Pairs : task[q] = nt => Accounted(table[nt], q)'
    BY <1>0, <1>1, <2>1 DEF MergeInv, Accounted, RepsAreParents
  <2>3. ASSUME NEW q \in Pairs, task[q] = branch PROVE Reached(q)'
    <3>1. Reached(q) /\ HeadOf(q)' = HeadOf(q)
      BY <2>3, <1>0, <1>1 DEF MergeInv, HeadOf
    <3> QED BY <3>1, <1>0, <1>1 DEF Reached
  <2>4. (parentsLeft \subseteq ParentsOf(branch))'
    BY <1>0, <1>1 DEF MergeInv, ParentsOf
  <2>5. \A q \in Pairs : task[q] < branch => Accounted(table[0], q)'
    BY <1>0, <1>1 DEF MergeInv
  <2> QED BY <1>0, <2>2, <2>3, <2>4, <2>5 DEF MergeInv
<1> QED BY <1>0, <1>1, <1>2, <1>3 DEF IInv

LEMMA MergeNextBranchIInv ==
  ASSUME IInv, MergeNextBranch
  PROVE  IInv'
<1>0. /\ phase = "merge" /\ branchParent = None /\ parentsLeft = {} /\ kidsLeft = {}
      /\ table' = [table EXCEPT ![branch] = EmptyTable]
      /\ UNCHANGED <<signature, task, todo, branchParent, treeParent, kidsLeft>>
      /\ TypeOK /\ MergeInv /\ branch \in Threads /\ branch # 0
      /\ \A nt \in Threads : TableInv(table[nt])
  BY DEF MergeNextBranch, IInv, MergeInv, TypeOK, geometry
<1>1. /\ table' \in [Threads -> Tables] /\ table'[branch] = EmptyTable
      /\ \A nt \in Threads : nt # branch => table'[nt] = table[nt]
      /\ table'[0] = table[0]
  <2>1. EmptyTable \in Tables
    BY EmptyTableInv DEF TableInv
  <2> QED BY <2>1, <1>0, ThreadZero DEF TypeOK
<1>2. ASSUME NEW nt \in Threads PROVE TableInv(table[nt])'
  BY <1>0, <1>1, EmptyTableInv DEF TableInv, TwoLevelForest
<1>3. \A p \in Pairs : task[p] <= branch => Accounted(table[0], p)'
  <2>1. ASSUME NEW p \in Pairs, task[p] = branch PROVE Accounted(table[0], p)
    <3>1. HeadOf(p) # None
      BY NoneAssumption DEF HeadOf, IsChildIn
    <3> QED BY <2>1, <3>1, <1>0 DEF MergeInv, Reached
  <2>2. \A p \in Pairs : task[p] \in Int /\ branch \in Int
    BY <1>0 DEF TypeOK, Threads
  <2> QED BY <2>1, <2>2, <1>0, <1>1 DEF MergeInv, Accounted
<1>4. CASE branch + 1 < NumThreads
  <2>1. branch' = branch + 1 /\ parentsLeft' = ParentsOf(branch + 1) /\ phase' = "merge"
    BY <1>0, <1>4 DEF MergeNextBranch
  <2>2. branch + 1 \in Threads /\ branch + 1 # branch
    BY <1>0, <1>4, ThreadsAssumption DEF Threads
  <2>3. TypeOK'
    BY <1>0, <1>1, <2>1, <2>2 DEF TypeOK, ParentsOf
  <2>4. \A nt \in Threads : nt >= branch + 1 =>
          /\ table'[nt] = table[nt]
          /\ RepsAreParents(table[nt])
          /\ \A p \in Pairs : task[p] = nt => Accounted(table[nt], p)
    BY <1>0, <1>1 DEF Threads, MergeInv
  <2>5. (parentsLeft \subseteq ParentsOf(branch))'
    BY <2>1, <2>2, <2>4, <1>1 DEF ParentsOf
  <2>6. ASSUME NEW p \in Pairs, task[p] = branch + 1 PROVE Reached(p)'
    <3>1. /\ TableInv(table[branch + 1]) /\ RepsAreParents(table[branch + 1])
          /\ Accounted(table[branch + 1], p)
      BY <1>0, <2>2, <2>4, <2>6 DEF Threads
    <3>2. HeadOf(p)' = IF IsChildIn(table[branch + 1], p)
                         THEN table[branch + 1].parents[p] ELSE p
      BY <2>1, <2>2, <1>1 DEF HeadOf
    <3>3. table[branch + 1].reps[signature[p]] = p => IsParentIn(table[branch + 1], p)
      BY <3>1, <1>0, NoneAssumption DEF RepsAreParents, TypeOK
    <3>4. IsChildIn(table[branch + 1], p) =>
            /\ table[branch + 1].parents[p] \in Pairs
            /\ IsParentIn(table[branch + 1], table[branch + 1].parents[p])
      BY <3>1 DEF TableInv, TwoLevelForest, Tables, IsChildIn
    <3>5. HeadOf(p)' \in ParentsOf(branch + 1)
      BY <3>1, <3>2, <3>3, <3>4 DEF ParentsOf, Accounted
    <3> QED BY <3>5, <2>1 DEF Reached
  <2>7. \A p \in Pairs : task[p] < branch + 1 => Accounted(table[0], p)'
    BY <1>0, <1>3 DEF TypeOK, Threads
  <2>8. branch + 1 > 0
    BY <1>0 DEF TypeOK, Threads
  <2>9. MergeInv'
    BY <1>0, <2>1, <2>4, <2>5, <2>6, <2>7, <2>8 DEF MergeInv, RepsAreParents, Accounted
  <2> QED BY <1>2, <2>1, <2>3, <2>9 DEF IInv
<1>5. CASE ~(branch + 1 < NumThreads)
  <2>1. phase' = "done" /\ branch' = branch /\ parentsLeft' = parentsLeft
    BY <1>5 DEF MergeNextBranch
  <2>2. TypeOK'
    BY <1>0, <1>1, <2>1 DEF TypeOK
  <2>3. \A p \in Pairs : task[p] <= branch
    BY <1>0, <1>5, ThreadsAssumption DEF TypeOK, Threads
  <2> QED BY <1>2, <1>3, <2>1, <2>2, <2>3 DEF IInv
<1> QED BY <1>4, <1>5

LEMMA StutterIInv ==
  ASSUME IInv, UNCHANGED vars
  PROVE  IInv'
BY DEF IInv, TypeOK, TableInv, TwoLevelForest, BranchInv, MergeInv, BodyInv,
       Reached, HeadOf, RepsAreParents, Accounted, ParentsOf, IsParentIn, IsChildIn,
       vars, geometry, merging

THEOREM Inductive == Spec => []IInv
<1>1. ASSUME IInv, [Next]_vars PROVE IInv'
  <2>1. ASSUME NEW nt \in Threads, ScanPair(nt) PROVE IInv'
    BY <1>1, <2>1, ScanPairIInv
  <2>2. CASE ScanBarrier
    BY <1>1, <2>2, ScanBarrierIInv
  <2>3. CASE MergeParent
    BY <1>1, <2>3, MergeParentIInv
  <2>4. CASE MergeChild
    BY <1>1, <2>4, MergeChildIInv
  <2>5. CASE MergeParentItself
    BY <1>1, <2>5, MergeParentItselfIInv
  <2>6. CASE MergeNextBranch
    BY <1>1, <2>6, MergeNextBranchIInv
  <2>7. CASE UNCHANGED vars
    BY <1>1, <2>7, StutterIInv
  <2> QED BY <1>1, <2>1, <2>2, <2>3, <2>4, <2>5, <2>6, <2>7 DEF Next, Merge
<1> QED BY InitIInv, <1>1, PTL DEF Spec

-----------------------------------------------------------------------------
(* The results.                                                            *)

\* The constructor never leaves the types of its data.
THEOREM TypeCorrect == Spec => []TypeOK
<1>1. IInv => TypeOK
  BY DEF IInv
<1> QED BY <1>1, Inductive, PTL

\* For every surface, signature function, hash and number of threads, all
\* tables are two-level forests at every step of the scan and of the merge.
THEOREM ForestCorrect == Spec => []Forest
<1>1. IInv => Forest
  BY DEF IInv, Forest, TableInv
<1> QED BY <1>1, Inductive, PTL

\* ... and the finished table does not depend on the threads: every pair's
\* parent is the least pair of its class.
THEOREM CanonicalCorrect == Spec => []Canonical
<1>1. ASSUME IInv, phase = "done", NEW p \in Pairs
      PROVE  IF IsClassLeast(p) THEN ~HasParent(p)
             ELSE /\ HasParent(p)
                  /\ IsClassLeast(table[0].parents[p])
                  /\ signature[table[0].parents[p]] = signature[p]
  <2> DEFINE T == table[0]
  <2>0. /\ T \in Tables /\ TwoLevelForest(T) /\ SignatureOK
        /\ \A q \in Pairs : T.reps[signature[q]] = q \/ IsChildIn(T, q)
    BY <1>1, ThreadZero DEF IInv, TableInv, Accounted, TypeOK, SignatureOK
  <2> HIDE DEF T
  <2>1. ASSUME NEW q \in Pairs, IsChildIn(T, q)
        PROVE  /\ T.parents[q] \in Pairs /\ LessThan(T.parents[q], q) /\ T.parents[q] # q
               /\ signature[T.parents[q]] = signature[q]
               /\ T.reps[signature[q]] = T.parents[q]
    <3>1. T.parents[q] \in Pairs
      BY <2>0, <2>1 DEF Tables, IsChildIn
    <3> QED BY <2>0, <2>1, <3>1, LessThanOrder DEF TwoLevelForest
  <2>2. CASE IsClassLeast(p)
    <3>1. ~IsChildIn(T, p)
      BY <2>1, <2>2, LessThanOrder DEF IsClassLeast
    <3> QED BY <2>2, <3>1 DEF HasParent, T
  <2>3. CASE ~IsClassLeast(p)
    <3>1. PICK q \in Pairs : q # p /\ signature[q] = signature[p] /\ ~LessThan(p, q)
      BY <2>3 DEF IsClassLeast
    <3>2. IsChildIn(T, p)
      BY <2>0, <2>1, <3>1
    <3>3. ASSUME NEW d \in Pairs, d # T.parents[p], signature[d] = signature[T.parents[p]]
          PROVE  LessThan(T.parents[p], d)
      BY <2>0, <2>1, <3>2, <3>3
    <3> QED BY <2>1, <2>3, <3>2, <3>3 DEF HasParent, T, IsClassLeast
  <2> QED BY <2>2, <2>3
<1>2. IInv => Canonical
  BY <1>1 DEF Canonical
<1> QED BY <1>2, Inductive, PTL

-----------------------------------------------------------------------------
(* No routine loses a pair that is in a table.                             *)

Keeps(T, U) == \A q \in Pairs : PairInTable(T, q) => PairInTable(U, q)

LEMMA AddChildPairKeeps ==
  ASSUME NEW T \in Tables, NEW p \in Pairs, NEW c \in Pairs
  PROVE  AddChildPair(T, p, c) \in Tables /\ Keeps(T, AddChildPair(T, p, c))
<1> DEFINE U == AddChildPair(T, p, c)
           kids == ChildrenOf(T, p) \cup {c}
<1>1. kids \in SUBSET Pairs /\ kids # None /\ p # None
  BY NoneAssumption DEF Tables, ChildrenOf, IsParentIn
<1> HIDE DEF kids
<1>2. /\ U.children = [T.children EXCEPT ![p] = kids]
      /\ U.parents = [T.parents EXCEPT ![c] = p]
      /\ U \in Tables
  BY <1>1 DEF AddChildPair, Tables, kids
<1>3. ASSUME NEW q \in Pairs, PairInTable(T, q)
      PROVE  PairInTable(U, q)
  BY <1>1, <1>2, <1>3 DEF PairInTable, IsParentIn, IsChildIn, Tables
<1> QED BY <1>2, <1>3 DEF Keeps

LEMMA ReParentKeeps ==
  ASSUME SignatureOK, NEW T \in Tables, NEW old \in Pairs, NEW new \in Pairs
  PROVE  Keeps(T, ReParent(T, old, new))
<1> DEFINE U == ReParent(T, old, new)
           kids == ChildrenOf(T, old) \cup {old}
<1>1. kids \in SUBSET Pairs /\ kids # None /\ new # None /\ old \in kids
  BY NoneAssumption DEF Tables, ChildrenOf, IsParentIn
<1>2. /\ U.children = [T.children EXCEPT ![old] = None, ![new] = kids]
      /\ U.parents = [q \in Pairs |-> IF q \in kids THEN new ELSE T.parents[q]]
  BY DEF ReParent
<1> HIDE DEF kids, U
<1>3. T.children \in [Pairs -> (SUBSET Pairs) \cup {None}]
  BY DEF Tables
<1>4. ASSUME NEW q \in Pairs, PairInTable(T, q)
      PROVE  PairInTable(U, q)
  <2>1. CASE q \in kids
    <3>1. U.parents[q] = new
      BY <1>2, <2>1
    <3> QED BY <1>1, <3>1 DEF PairInTable, IsChildIn
  <2>2. CASE q \notin kids
    <3>1. U.parents[q] = T.parents[q]
      BY <1>2, <2>2
    <3>2. q # old
      BY <1>1, <2>2
    <3>3. U.children[q] = IF q = new THEN kids ELSE T.children[q]
      BY <1>2, <1>3, <3>2
    <3> QED BY <1>1, <1>4, <3>1, <3>3 DEF PairInTable, IsParentIn, IsChildIn
  <2> QED BY <2>1, <2>2
<1> QED BY <1>4 DEF Keeps, U

LEMMA AddEquivalentPairKeeps ==
  ASSUME SignatureOK, NEW T \in Tables, NEW p \in Pairs, NEW c \in Pairs
  PROVE  Keeps(T, AddEquivalentPair(T, p, c))
<1> DEFINE held == IF IsParentIn(T, c) THEN c ELSE T.parents[c]
           top == IF ~IsParentIn(T, p) /\ IsChildIn(T, p) THEN T.parents[p] ELSE p
           U == AddEquivalentPair(T, p, c)
<1>1. PairInTable(T, c) => held \in Pairs
  BY DEF PairInTable, IsChildIn, Tables
<1>2. top \in Pairs
  BY DEF IsChildIn, Tables
<1>3. \/ U = T \/ U = AddChildPair(T, top, c)
      \/ PairInTable(T, c) /\ U = AddChildPair(T, held, p)
      \/ PairInTable(T, c) /\ U = ReParent(T, held, p)
  BY DEF AddEquivalentPair
<1> HIDE DEF held, top, U
<1>4. U = T => Keeps(T, U)
  BY DEF Keeps
<1> QED BY <1>1, <1>2, <1>3, <1>4, AddChildPairKeeps, ReParentKeeps DEF U

LEMMA VisitKeeps ==
  ASSUME SignatureOK, NEW T \in Tables, NEW p \in Pairs
  PROVE  Keeps(T, Visit(T, p))
<1> DEFINE s == signature[p]
<1>1. s \in Sigs /\ T.reps[s] \in Pairs \cup {None}
  BY DEF SignatureOK, Tables
<1>2. CASE T.reps[s] = None /\ ~IsChildIn(T, p)
  <2> DEFINE U == Visit(T, p)
  <2>1. U.children = [T.children EXCEPT ![p] = {}] /\ U.parents = T.parents
    BY <1>2 DEF Visit, Tables
  <2> HIDE DEF U
  <2>2. ASSUME NEW q \in Pairs, PairInTable(T, q)
        PROVE  PairInTable(U, q)
    <3>1. {} # None
      BY NoneAssumption
    <3>2. U.children[q] = IF q = p THEN {} ELSE T.children[q]
      BY <2>1 DEF Tables
    <3> QED BY <2>1, <2>2, <3>1, <3>2 DEF PairInTable, IsParentIn, IsChildIn
  <2> QED BY <2>2 DEF Keeps, U
<1>3. CASE T.reps[s] # None /\ ~IsChildIn(T, p)
  BY <1>1, <1>3, AddEquivalentPairKeeps DEF Visit
<1>4. CASE IsChildIn(T, p)
  BY <1>4 DEF Visit, Keeps
<1> QED BY <1>2, <1>3, <1>4

LEMMA AdoptParentKeeps ==
  ASSUME SignatureOK, NEW T \in Tables, NEW p \in Pairs
  PROVE  Keeps(T, AdoptParent(T, p))
<1> DEFINE s == signature[p]
<1>1. s \in Sigs /\ T.reps[s] \in Pairs \cup {None}
  BY DEF SignatureOK, Tables
<1>2. CASE T.reps[s] = None
  <2>1. /\ AdoptParent(T, p).children = T.children
        /\ AdoptParent(T, p).parents = T.parents
    BY <1>2 DEF AdoptParent, Tables
  <2> QED BY <2>1 DEF Keeps, PairInTable, IsParentIn, IsChildIn
<1>3. CASE T.reps[s] # None /\ LessThan(p, T.reps[s])
  BY <1>1, <1>3, ReParentKeeps DEF AdoptParent
<1>4. CASE T.reps[s] # None /\ ~LessThan(p, T.reps[s])
  BY <1>4 DEF AdoptParent, Keeps
<1> QED BY <1>2, <1>3, <1>4

\* Re-parenting a class, merging a branch and deleting it lose no pair of the
\* table that is being built.
THEOREM NothingForgotten == Spec => NeverForgets
<1>1. ASSUME IInv, [Next]_vars PROVE Keeps(table[0], table'[0])
  <2>0. /\ table \in [Threads -> Tables] /\ SignatureOK /\ 0 \in Threads
        /\ treeParent \in Pairs \cup {None} /\ branchParent \in Pairs \cup {None}
        /\ treeParent = None <=> branchParent = None
        /\ Keeps(table[0], table[0])
    BY <1>1, ThreadZero DEF IInv, TypeOK, SignatureOK, Keeps
  <2>1. ASSUME NEW nt \in Threads, ScanPair(nt) PROVE Keeps(table[0], table'[0])
    <3>1. PICK p \in todo[nt] : table' = [table EXCEPT ![nt] = Visit(@, p)]
      BY <2>1 DEF ScanPair
    <3>2. p \in Pairs
      BY <1>1, <3>1 DEF IInv, TypeOK
    <3>3. table'[0] = IF nt = 0 THEN Visit(table[0], p) ELSE table[0]
      BY <2>0, <3>1
    <3> QED BY <2>0, <3>2, <3>3, VisitKeeps
  <2>2. CASE ScanBarrier \/ UNCHANGED vars
    BY <2>0, <2>2 DEF ScanBarrier, vars
  <2>3. CASE MergeParent
    <3>1. PICK p \in parentsLeft : table' = [table EXCEPT ![0] = AdoptParent(table[0], p)]
      BY <2>3 DEF MergeParent
    <3>2. p \in Pairs
      BY <1>1, <3>1 DEF IInv, TypeOK
    <3> QED BY <2>0, <3>1, <3>2, AdoptParentKeeps
  <2>4. CASE MergeChild
    <3>1. PICK c \in kidsLeft : table' = [table EXCEPT ![0] = AddEquivalentPair(@, treeParent, c)]
      BY <2>4 DEF MergeChild
    <3>2. c \in Pairs /\ treeParent \in Pairs
      BY <1>1, <2>0, <2>4 DEF IInv, TypeOK, MergeChild
    <3> QED BY <2>0, <3>1, <3>2, AddEquivalentPairKeeps
  <2>5. CASE MergeParentItself
    <3>1. /\ table' = [table EXCEPT ![0] = AddEquivalentPair(@, treeParent, branchParent)]
          /\ branchParent \in Pairs /\ treeParent \in Pairs
      BY <2>0, <2>5 DEF MergeParentItself
    <3> QED BY <2>0, <3>1, AddEquivalentPairKeeps
  <2>6. CASE MergeNextBranch
    <3>1. branch # 0
      BY <1>1, <2>6 DEF MergeNextBranch, IInv, MergeInv
    <3>2. table'[0] = table[0]
      BY <2>0, <2>6, <3>1 DEF MergeNextBranch
    <3> QED BY <2>0, <3>2
  <2> QED BY <1>1, <2>1, <2>2, <2>3, <2>4, <2>5, <2>6 DEF Next, Merge
<1>2. IInv /\ [Next]_vars => \A p \in Pairs : PairInTable(table[0], p) => PairInTable(table'[0], p)
  BY <1>1 DEF Keeps
<1>3. IInv /\ [Next]_vars => [\A p \in Pairs : PairInTable(table[0], p) => PairInTable(table'[0], p)]_vars
  BY <1>2
<1> QED BY <1>3, Inductive, PTL DEF Spec, NeverForgets

-----------------------------------------------------------------------------
(* The table as the assembly of a block uses it.                           *)

LEMMA TableStep == IInv /\ [Next]_vars => IInv'
<1> SUFFICES ASSUME IInv, [Next]_vars PROVE IInv'
  OBVIOUS
<1>1. ASSUME NEW nt \in Threads, ScanPair(nt) PROVE IInv'
  BY <1>1, ScanPairIInv
<1>2. Merge => IInv'
  BY MergeParentIInv, MergeChildIInv, MergeParentItselfIInv, MergeNextBranchIInv DEF Merge
<1> QED BY <1>1, <1>2, ScanBarrierIInv, StutterIInv DEF Next

LEMMA TableUnderBlock == BlockNext \/ UNCHANGED blockVars => [Next]_vars
BY DEF BlockNext, blockVars, Begin, BuildTable, CommonRegions, TakePair, ComputePair,
       DirectBarrier, FillChildren, ChildrenDone, FillLower, Transform

\* A child is listed by its parent only, which has its signature and no parent.
LEMMA ParentFacts ==
  ASSUME IInv
  PROVE  /\ GetParents \subseteq { p \in Pairs : ~HasParent(p) }
         /\ \A p \in Pairs : HasParent(p) =>
              /\ table[0].parents[p] \in GetParents
              /\ p \in GetChildren(table[0].parents[p])
              /\ signature[table[0].parents[p]] = signature[p]
         /\ \A q \in GetParents : \A c \in GetChildren(q) :
              c \in Pairs /\ HasParent(c) /\ table[0].parents[c] = q
<1> DEFINE T == table[0]
<1>1. TwoLevelForest(T) /\ T \in Tables
  BY ThreadZero DEF IInv, TableInv
<1> HIDE DEF T
<1>2. ASSUME NEW p \in Pairs, IsParentIn(T, p)
      PROVE  /\ ~IsChildIn(T, p) /\ T.children[p] \subseteq Pairs
             /\ \A c \in T.children[p] : T.parents[c] = p
  BY <1>1, <1>2 DEF TwoLevelForest, Tables, IsParentIn
<1>3. ASSUME NEW c \in Pairs, IsChildIn(T, c)
      PROVE  /\ T.parents[c] \in Pairs /\ IsParentIn(T, T.parents[c])
             /\ c \in T.children[T.parents[c]] /\ signature[T.parents[c]] = signature[c]
  BY <1>1, <1>3 DEF TwoLevelForest, Tables, IsChildIn
<1>4. GetParents \subseteq { p \in Pairs : ~HasParent(p) }
  BY <1>2 DEF GetParents, ParentsOf, HasParent, T
<1>5. ASSUME NEW p \in Pairs, HasParent(p)
      PROVE  /\ table[0].parents[p] \in GetParents
             /\ p \in GetChildren(table[0].parents[p])
             /\ signature[table[0].parents[p]] = signature[p]
  BY <1>3, <1>5 DEF GetParents, ParentsOf, HasParent, GetChildren, ChildrenOf, T
<1>6. ASSUME NEW q \in GetParents, NEW c \in GetChildren(q)
      PROVE  c \in Pairs /\ HasParent(c) /\ table[0].parents[c] = q
  <2>1. q \in Pairs /\ IsParentIn(T, q) /\ c \in T.children[q]
    BY <1>6 DEF GetParents, ParentsOf, GetChildren, ChildrenOf, T
  <2>2. c \in Pairs /\ T.parents[c] = q
    BY <1>2, <2>1
  <2>3. q # None
    BY <2>1, NoneAssumption
  <2> QED BY <2>2, <2>3 DEF HasParent, IsChildIn, T
<1> QED BY <1>4, <1>5, <1>6

-----------------------------------------------------------------------------
(* The places of the entries.                                              *)

LEMMA PlaceFacts ==
  ASSUME NEW rc \in Rows \X Cols
  PROVE  /\ PairOf(rc) \in EdgesA \X EdgesB /\ KernelOf(rc) \in Kernels
         /\ PairOf(rc) \notin Pairs => SameSurface /\ rc[2] < rc[1] /\ rc[1] >= 1
<1>1. /\ NEA \in Nat /\ NEB \in Nat /\ NBFPEA \in {1, 2} /\ NBFPEB \in {1, 2}
      /\ SameSurface => NBFPEA = NBFPEB
  BY SizesAssumption, BlockAssumption
<1>2. /\ rc[1] \in Nat /\ rc[2] \in Nat
      /\ rc[1] < NEA * NBFPEA /\ rc[2] < NEB * NBFPEB
  BY <1>1 DEF Rows, Cols
<1>3. rc[1] \div NBFPEA \in EdgesA
  <2>1. CASE NBFPEA = 1
    BY <1>1, <1>2, <2>1 DEF EdgesA
  <2>2. CASE NBFPEA = 2
    BY <1>1, <1>2, <2>2 DEF EdgesA
  <2> QED BY <1>1, <2>1, <2>2
<1>4. rc[2] \div NBFPEB \in EdgesB
  <2>1. CASE NBFPEB = 1
    BY <1>1, <1>2, <2>1 DEF EdgesB
  <2>2. CASE NBFPEB = 2
    BY <1>1, <1>2, <2>2 DEF EdgesB
  <2> QED BY <1>1, <2>1, <2>2
<1>5. ASSUME PairOf(rc) \notin Pairs
      PROVE  SameSurface /\ rc[2] < rc[1] /\ rc[1] >= 1
  <2>1. SameSurface /\ ~(rc[1] \div NBFPEA <= rc[2] \div NBFPEB) /\ NBFPEA = NBFPEB
    BY <1>1, <1>3, <1>4, <1>5 DEF PairOf, Pairs
  <2>2. CASE NBFPEA = 1
    BY <1>2, <2>1, <2>2
  <2>3. CASE NBFPEA = 2
    BY <1>2, <2>1, <2>3
  <2> QED BY <1>1, <2>1, <2>2, <2>3
<1> QED BY <1>3, <1>4, <1>5 DEF PairOf, KernelOf, Kernels

\* The place in another pair's sub-block that corresponds to an entry's own.
PlaceIn(p, rc) ==
  << (p[1] * NBFPEA) + (rc[1] % NBFPEA), (p[2] * NBFPEB) + (rc[2] % NBFPEB) >>

LEMMA PlaceInFacts ==
  ASSUME NEW rc \in Rows \X Cols, NEW p \in Pairs
  PROVE  /\ PlaceIn(p, rc) \in Rows \X Cols /\ PairOf(PlaceIn(p, rc)) = p
         /\ KernelOf(PlaceIn(p, rc)) = KernelOf(rc)
<1>1. /\ NEA \in Nat /\ NEB \in Nat /\ NBFPEA \in {1, 2} /\ NBFPEB \in {1, 2}
  BY SizesAssumption, BlockAssumption
<1>2. rc[1] \in Nat /\ rc[2] \in Nat
  BY <1>1 DEF Rows, Cols
<1>3. p[1] \in 0..NEA - 1 /\ p[2] \in 0..NEB - 1 /\ p = <<p[1], p[2]>>
  BY DEF Pairs, EdgesA, EdgesB
<1> DEFINE row == (p[1] * NBFPEA) + (rc[1] % NBFPEA)
           col == (p[2] * NBFPEB) + (rc[2] % NBFPEB)
<1>4. row \in Rows /\ row \div NBFPEA = p[1] /\ row % NBFPEA = rc[1] % NBFPEA
  <2>1. CASE NBFPEA = 1
    BY <1>1, <1>2, <1>3, <2>1 DEF Rows
  <2>2. CASE NBFPEA = 2
    BY <1>1, <1>2, <1>3, <2>2 DEF Rows
  <2> QED BY <1>1, <2>1, <2>2
<1>5. col \in Cols /\ col \div NBFPEB = p[2] /\ col % NBFPEB = rc[2] % NBFPEB
  <2>1. CASE NBFPEB = 1
    BY <1>1, <1>2, <1>3, <2>1 DEF Cols
  <2>2. CASE NBFPEB = 2
    BY <1>1, <1>2, <1>3, <2>2 DEF Cols
  <2> QED BY <1>1, <2>1, <2>2
<1> HIDE DEF row, col
<1>6. PlaceIn(p, rc) = <<row, col>>
  BY DEF PlaceIn, row, col
<1> QED BY <1>3, <1>4, <1>5, <1>6 DEF PairOf, KernelOf

\* The mirror image of an entry below the diagonal of a diagonal block.
LEMMA MirrorFacts ==
  ASSUME SameSurface, NEW rc \in Rows \X Cols, rc[2] < rc[1]
  PROVE  LET mirror == << rc[2], rc[1] >>
             p == PairOf(rc)
         IN  /\ mirror \in Rows \X Cols /\ KernelOf(mirror) = KernelOf(rc)
             /\ PairOf(mirror) \in Pairs
             /\ PairOf(mirror) = IF p \in Pairs THEN p ELSE << p[2], p[1] >>
<1>1. /\ NEA \in Nat /\ NEA = NEB /\ NBFPEA \in {1, 2} /\ NBFPEA = NBFPEB
  BY SizesAssumption, BlockAssumption
<1>2. rc[1] \in Rows /\ rc[2] \in Rows /\ Rows = Cols /\ rc[1] \in Nat /\ rc[2] \in Nat
  BY <1>1 DEF Rows, Cols
<1> DEFINE mirror == << rc[2], rc[1] >>
           q1 == rc[1] \div NBFPEA
           q2 == rc[2] \div NBFPEA
<1>3. q1 \in EdgesA /\ q2 \in EdgesA /\ EdgesA = EdgesB /\ q2 <= q1
  <2>1. CASE NBFPEA = 1
    BY <1>1, <1>2, <2>1 DEF EdgesA, EdgesB, Rows
  <2>2. CASE NBFPEA = 2
    BY <1>1, <1>2, <2>2 DEF EdgesA, EdgesB, Rows
  <2> QED BY <1>1, <2>1, <2>2
<1>4. q1 \in Int /\ q2 \in Int
  BY <1>1, <1>3 DEF EdgesA
<1> HIDE DEF q1, q2
<1>5. PairOf(mirror) = << q2, q1 >> /\ PairOf(rc) = << q1, q2 >>
  BY <1>1 DEF PairOf, q1, q2
<1>6. << q2, q1 >> \in Pairs /\ (<< q1, q2 >> \in Pairs => q1 = q2)
  BY <1>3, <1>4 DEF Pairs
<1>7. mirror \in Rows \X Cols /\ KernelOf(mirror) = KernelOf(rc)
  BY <1>1, <1>2 DEF KernelOf
<1> QED BY <1>5, <1>6, <1>7

-----------------------------------------------------------------------------
(* Where the assembly is.                                                  *)

\* The surfaces have their first relative positions until one is moved.
WorldInv ==
  /\ signs \in [Pairs -> SignPatterns] /\ moves \in Nat /\ call \in Nat
  /\ moves = 0 \/ SameSurface => sigNow = signature

\* The table is complete before it is used, and threads work in the loop only.
StageInv ==
  /\ stage \in {"idle", "moved", "build", "regions", "direct", "children", "lower"}
  /\ UseEEPs /\ stage \in {"regions", "direct", "children", "lower"} => phase = "done"
  /\ inFlight \in [Threads -> Pairs \cup {None}]
  /\ \A nt \in Threads : inFlight[nt] # None => stage = "direct"
  /\ unclaimed \subseteq Pairs
  /\ stage \in {"direct", "children", "lower"} => related
  /\ stage = "children" => UseEEPs /\ parentsTodo \subseteq GetParents

LEMMA StageInit == BlockInit => WorldInv /\ StageInv
<1> SUFFICES ASSUME BlockInit PROVE WorldInv /\ StageInv
  OBVIOUS
<1>1. inFlight \in [Threads -> Pairs \cup {None}] /\ \A nt \in Threads : inFlight[nt] = None
  BY DEF BlockInit
<1> QED BY <1>1 DEF BlockInit, WorldInv, StageInv

LEMMA WorldStep == WorldInv /\ (BlockNext \/ UNCHANGED blockVars) => WorldInv'
<1> SUFFICES ASSUME WorldInv, BlockNext \/ UNCHANGED blockVars PROVE WorldInv'
  OBVIOUS
<1>0. signature' = signature
  BY DEF BlockNext, Begin, BuildTable, CommonRegions, TakePair, ComputePair, DirectBarrier,
         FillChildren, ChildrenDone, FillLower, Transform, blockVars, vars, geometry, Next,
         ScanPair, ScanBarrier, Merge, MergeParent, MergeChild, MergeParentItself, MergeNextBranch
<1>1. CASE Transform
  BY <1>0, <1>1 DEF Transform, WorldInv
<1>2. CASE UNCHANGED worldVars /\ call' \in {call, call + 1}
  BY <1>0, <1>2 DEF worldVars, WorldInv
<1>3. Transform \/ (UNCHANGED worldVars /\ call' \in {call, call + 1})
  BY DEF BlockNext, Begin, BuildTable, CommonRegions, TakePair, ComputePair, DirectBarrier,
         FillChildren, ChildrenDone, FillLower, blockVars, callVars
<1> QED BY <1>1, <1>2, <1>3

LEMMA StageStep ==
  ASSUME IInv, StageInv, BlockNext \/ UNCHANGED blockVars
  PROVE  StageInv'
<1>0. GetParents' = GetParents \/ table' # table
  BY DEF GetParents, ParentsOf, IsParentIn
<1>1. CASE Begin
  BY <1>1 DEF Begin, StageInv, worldVars, vars
<1>2. CASE BuildTable
  <2>1. /\ stage = "build" /\ stage' \in {"build", "regions"}
        /\ stage' = "regions" => phase' = "done"
        /\ UNCHANGED <<worldVars, unclaimed, inFlight>>
    BY <1>2 DEF BuildTable, vars
  <2> QED BY <2>1 DEF StageInv, worldVars
<1>3. CASE CommonRegions
  BY <1>3 DEF CommonRegions, StageInv, worldVars, vars
<1>4. ASSUME NEW nt \in Threads, TakePair(nt)
      PROVE  StageInv'
  <2>1. PICK p \in unclaimed :
          /\ unclaimed' = unclaimed \ {p}
          /\ inFlight' = [inFlight EXCEPT ![nt] = IF UseEEPs /\ HasParent(p) THEN None ELSE p]
    BY <1>4 DEF TakePair
  <2>2. stage = "direct" /\ UNCHANGED <<vars, worldVars, stage>>
    BY <1>4 DEF TakePair
  <2>3. inFlight' \in [Threads -> Pairs \cup {None}]
    BY <2>1 DEF StageInv
  <2> QED BY <2>1, <2>2, <2>3 DEF StageInv, worldVars, vars
<1>5. ASSUME NEW nt \in Threads, ComputePair(nt)
      PROVE  StageInv'
  <2>1. /\ inFlight' = [inFlight EXCEPT ![nt] = None] /\ stage = "direct"
        /\ UNCHANGED <<vars, worldVars, stage, unclaimed>>
    BY <1>5 DEF ComputePair, StageInv
  <2>2. inFlight' \in [Threads -> Pairs \cup {None}]
    BY <2>1 DEF StageInv
  <2> QED BY <2>1, <2>2 DEF StageInv, worldVars, vars
<1>6. CASE DirectBarrier
  <2>1. /\ stage = "direct" /\ stage' = IF UseEEPs THEN "children" ELSE "lower"
        /\ parentsTodo' = IF UseEEPs THEN GetParents ELSE {}
        /\ \A nt \in Threads : inFlight[nt] = None
        /\ UNCHANGED <<vars, worldVars, unclaimed, inFlight>>
    BY <1>6 DEF DirectBarrier
  <2>2. GetParents' = GetParents
    BY <1>0, <2>1 DEF vars
  <2> QED BY <2>1, <2>2 DEF StageInv, worldVars, vars
<1>7. CASE FillChildren
  <2>1. /\ parentsTodo' \subseteq parentsTodo
        /\ UNCHANGED <<vars, worldVars, stage, unclaimed, inFlight>>
    BY <1>7 DEF FillChildren
  <2>2. GetParents' = GetParents
    BY <1>0, <2>1 DEF vars
  <2> QED BY <2>1, <2>2 DEF StageInv, worldVars, vars
<1>8. CASE ChildrenDone
  BY <1>8 DEF ChildrenDone, StageInv, worldVars, vars
<1>9. CASE FillLower
  BY <1>9 DEF FillLower, StageInv, worldVars, vars
<1>10. CASE Transform
  BY <1>10 DEF Transform, StageInv, vars
<1>11. CASE UNCHANGED blockVars
  <2>1. UNCHANGED <<vars, worldVars, stage, unclaimed, inFlight, parentsTodo>>
    BY <1>11 DEF blockVars, callVars
  <2>2. GetParents' = GetParents
    BY <1>0, <2>1 DEF vars
  <2> QED BY <2>1, <2>2 DEF StageInv, worldVars, vars
<1> QED BY <1>1, <1>2, <1>3, <1>4, <1>5, <1>6, <1>7, <1>8, <1>9, <1>10, <1>11 DEF BlockNext

-----------------------------------------------------------------------------
(* What has been filled in.                                                *)

Computed(p) ==
  \A rc \in Rows \X Cols : PairOf(rc) = p => block[rc] = MatrixElement(p, KernelOf(rc))

\* In the parallel loop a pair waits, is in a thread's hands, is skipped for its
\* parent or has been computed; then its children follow, parent by parent.
FilledInv ==
  /\ stage = "direct" => \A p \in Pairs :
       \/ p \in unclaimed \/ \E nt \in Threads : inFlight[nt] = p
       \/ UseEEPs /\ HasParent(p)
       \/ Computed(p)
  /\ stage = "children" => \A p \in Pairs :
       \/ HasParent(p) /\ (table[0].parents[p] \in parentsTodo \/ OutOfDate(p))
       \/ Computed(p)
  /\ stage = "lower" => \A p \in Pairs : OutOfDate(p) \/ Computed(p)

\* What an entry should be, and its exceptions, change with the surfaces, the
\* table and the call only.
LEMMA Kept ==
  ASSUME UNCHANGED <<vars, worldVars, call>>
  PROVE  /\ \A p, k : MatrixElement(p, k)' = MatrixElement(p, k)
         /\ \A p : OutOfDate(p)' = OutOfDate(p) /\ HasParent(p)' = HasParent(p)
         /\ \A rc : TrueEntry(rc)' = TrueEntry(rc)
<1>1. \A p, k : MatrixElement(p, k)' = MatrixElement(p, k)
  BY DEF MatrixElement, worldVars
<1>2. \A p : OutOfDate(p)' = OutOfDate(p) /\ HasParent(p)' = HasParent(p)
  BY DEF OutOfDate, HasParent, IsChildIn, vars, worldVars
<1> QED BY <1>1, <1>2 DEF TrueEntry, Zero, worldVars

LEMMA InsertFacts ==
  ASSUME StageInv, NEW nt \in Threads, ComputePair(nt)
  PROVE  \A p \in Pairs : p = inFlight[nt] \/ Computed(p) => Computed(p)'
<1>1. inFlight[nt] \in Pairs /\ block' = InsertBlock(inFlight[nt])
      /\ UNCHANGED <<vars, worldVars, call>>
  BY DEF ComputePair, StageInv
<1>2. \A p, k : MatrixElement(p, k)' = MatrixElement(p, k)
  BY <1>1, Kept
<1>3. \A rc \in Rows \X Cols :
        block'[rc] = IF PairOf(rc) = inFlight[nt] THEN MatrixElement(inFlight[nt], KernelOf(rc))
                     ELSE block[rc]
  BY <1>1 DEF InsertBlock
<1>4. ASSUME NEW p \in Pairs, p = inFlight[nt] \/ Computed(p), NEW rc \in Rows \X Cols,
             PairOf(rc) = p
      PROVE  block'[rc] = MatrixElement(p, KernelOf(rc))
  BY <1>3, <1>4 DEF Computed
<1> QED BY <1>2, <1>4 DEF Computed

LEMMA ComputedKept ==
  ASSUME UNCHANGED <<vars, worldVars, call, block>>
  PROVE  \A p : Computed(p)' <=> Computed(p)
BY Kept DEF Computed

\* A child gets the entry of its parent with its own signs.
LEMMA ChildFacts ==
  ASSUME IInv, WorldInv, NEW parent \in GetParents, NEW child \in GetChildren(parent),
         Computed(parent), UseEEPs, ~OutOfDate(child),
         NEW rc \in Rows \X Cols, PairOf(rc) = child
  PROVE  ChildEntry(parent, child, rc) = MatrixElement(child, KernelOf(rc))
<1>1. /\ parent \in Pairs /\ child \in Pairs /\ HasParent(child)
      /\ table[0].parents[child] = parent
  BY ParentFacts
<1>2. signature[child] = signature[parent]
  BY <1>1, ParentFacts
<1>3. sigNow[child] = sigNow[parent]
  BY <1>1, <1>2 DEF OutOfDate, WorldInv
<1> DEFINE k == KernelOf(rc)
           e == ParentEntry(parent, rc)
<1>4. k \in Kernels
  BY PlaceFacts
<1>5. e = MatrixElement(parent, k)
  <2>1. e = block[PlaceIn(parent, rc)]
    BY DEF ParentEntry, PlaceIn
  <2>2. PlaceIn(parent, rc) \in Rows \X Cols /\ PairOf(PlaceIn(parent, rc)) = parent
        /\ KernelOf(PlaceIn(parent, rc)) = k
    BY <1>1, PlaceInFacts
  <2> QED BY <2>1, <2>2 DEF Computed
<1>6. signs[parent][k] \in BOOLEAN /\ signs[child][k] \in BOOLEAN
  <2>1. signs[parent] \in [Kernels -> BOOLEAN] /\ signs[child] \in [Kernels -> BOOLEAN]
    BY <1>1, BlockAssumption DEF WorldInv
  <2> QED BY <1>4, <2>1
<1> HIDE DEF k, e
<1>7. Xor(signs[parent][k], Xor(signs[child][k], signs[parent][k])) = signs[child][k]
  <2> DEFINE x == signs[parent][k]
             y == signs[child][k]
  <2>1. x \in BOOLEAN /\ y \in BOOLEAN
    BY <1>6
  <2> HIDE DEF x, y
  <2>2. (x # (y # x)) = y
    BY <2>1
  <2> QED BY <2>2 DEF Xor, x, y
<1>8. ChildEntry(parent, child, rc) =
        [e EXCEPT !.flipped = Xor(e.flipped, Xor(signs[child][k], signs[parent][k]))]
  BY DEF ChildEntry, e, k
<1>9. e = [kernel |-> k, sig |-> sigNow[parent], flipped |-> signs[parent][k], omega |-> call]
  BY <1>5 DEF MatrixElement, Entry
<1>10. e.flipped = signs[parent][k]
  BY <1>9
<1>11. ChildEntry(parent, child, rc) = [e EXCEPT !.flipped = signs[child][k]]
  BY <1>7, <1>8, <1>10, Zenon
<1> DEFINE f == signs[child][k]
<1> HIDE DEF f
<1>12. [e EXCEPT !.flipped = f] =
         [kernel |-> k, sig |-> sigNow[parent], flipped |-> f, omega |-> call]
  BY <1>9
<1> QED BY <1>3, <1>11, <1>12 DEF MatrixElement, Entry, f, k

LEMMA ChildrenFilled ==
  ASSUME IInv, WorldInv, StageInv, FilledInv, FillChildren
  PROVE  FilledInv'
<1> PICK p \in parentsTodo :
      /\ parentsTodo' = parentsTodo \ {p}
      /\ block' = [rc \in Rows \X Cols |->
                     IF PairOf(rc) \in GetChildren(p)
                       THEN ChildEntry(p, PairOf(rc), rc) ELSE block[rc]]
  BY DEF FillChildren
<1>1. /\ stage = "children" /\ UseEEPs /\ p \in GetParents
      /\ UNCHANGED <<vars, worldVars, call, stage>>
  BY DEF FillChildren, StageInv
<1>2. p \in Pairs /\ ~HasParent(p)
  BY <1>1, ParentFacts
<1>3. Computed(p)
  BY <1>1, <1>2 DEF FilledInv
<1>4. \A q, k : MatrixElement(q, k)' = MatrixElement(q, k)
  BY <1>1, Kept
<1>5. ASSUME NEW q \in Pairs
      PROVE  (HasParent(q) /\ (table[0].parents[q] \in parentsTodo' \/ OutOfDate(q))) \/ Computed(q)'
  <2>1. CASE q \in GetChildren(p)
    <3>1. CASE OutOfDate(q)
      BY <1>1, <2>1, <3>1, ParentFacts
    <3>2. CASE ~OutOfDate(q)
      <4>1. ASSUME NEW rc \in Rows \X Cols, PairOf(rc) = q
            PROVE  block'[rc] = MatrixElement(q, KernelOf(rc))
        <5>1. block'[rc] = ChildEntry(p, q, rc)
          BY <2>1, <4>1
        <5> QED BY <1>1, <1>3, <2>1, <3>2, <4>1, <5>1, ChildFacts
      <4> QED BY <1>4, <4>1 DEF Computed
    <3> QED BY <3>1, <3>2
  <2>2. CASE q \notin GetChildren(p)
    <3>1. Computed(q) => Computed(q)'
      <4>1. \A rc \in Rows \X Cols : PairOf(rc) = q => block'[rc] = block[rc]
        BY <2>2
      <4> QED BY <1>4, <4>1 DEF Computed
    <3>2. HasParent(q) => table[0].parents[q] # p
      BY <2>2, ParentFacts
    <3> QED BY <1>1, <3>1, <3>2 DEF FilledInv
  <2> QED BY <2>1, <2>2
<1>6. \A q : OutOfDate(q)' = OutOfDate(q) /\ HasParent(q)' = HasParent(q)
  BY <1>1, Kept
<1>7. table' = table /\ stage' = "children"
  BY <1>1 DEF vars
<1> QED BY <1>5, <1>6, <1>7 DEF FilledInv

LEMMA FilledStep ==
  ASSUME IInv, WorldInv, StageInv, FilledInv, BlockNext \/ UNCHANGED blockVars
  PROVE  FilledInv'
<1>1. CASE Begin \/ BuildTable \/ FillLower \/ Transform
  <2>1. stage' \notin {"direct", "children", "lower"}
    BY <1>1 DEF Begin, BuildTable, FillLower, Transform
  <2> QED BY <2>1 DEF FilledInv
<1>2. CASE CommonRegions
  <2>1. stage' \notin {"children", "lower"} /\ (stage' = "direct" => unclaimed' = Pairs)
    BY <1>2 DEF CommonRegions
  <2> QED BY <2>1 DEF FilledInv
<1>3. ASSUME NEW nt \in Threads, TakePair(nt)
      PROVE  FilledInv'
  <2>1. PICK p \in unclaimed :
          /\ unclaimed' = unclaimed \ {p}
          /\ inFlight' = [inFlight EXCEPT ![nt] = IF UseEEPs /\ HasParent(p) THEN None ELSE p]
    BY <1>3 DEF TakePair
  <2>2. stage = "direct" /\ inFlight[nt] = None
        /\ UNCHANGED <<vars, worldVars, call, stage, block>>
    BY <1>3 DEF TakePair
  <2>3. UseEEPs' = UseEEPs /\ \A q : (HasParent(q)' <=> HasParent(q)) /\ (Computed(q)' <=> Computed(q))
    BY <2>2, Kept, ComputedKept DEF worldVars
  <2>4. ASSUME NEW q \in Pairs
        PROVE  \/ q \in unclaimed' \/ \E m \in Threads : inFlight'[m] = q
               \/ UseEEPs /\ HasParent(q)
               \/ Computed(q)
    <3>1. CASE q = p
      BY <2>1, <3>1 DEF StageInv
    <3>2. ASSUME NEW m \in Threads, inFlight[m] = q
          PROVE  inFlight'[m] = q
      <4>1. m # nt
        BY <2>2, <3>2, NoneAssumption
      <4> QED BY <2>1, <3>2, <4>1 DEF StageInv
    <3> QED BY <2>1, <2>2, <3>1, <3>2 DEF FilledInv
  <2> QED BY <2>2, <2>3, <2>4 DEF FilledInv
<1>4. ASSUME NEW nt \in Threads, ComputePair(nt)
      PROVE  FilledInv'
  <2>1. stage = "direct" /\ inFlight' = [inFlight EXCEPT ![nt] = None]
        /\ UNCHANGED <<vars, worldVars, call, stage, unclaimed>>
    BY <1>4 DEF ComputePair, StageInv
  <2>2. UseEEPs' = UseEEPs /\ \A q : HasParent(q)' <=> HasParent(q)
    BY <2>1, Kept DEF worldVars
  <2>3. ASSUME NEW q \in Pairs
        PROVE  \/ q \in unclaimed \/ \E m \in Threads : inFlight'[m] = q
               \/ UseEEPs /\ HasParent(q)
               \/ Computed(q)'
    <3>1. ASSUME NEW m \in Threads, inFlight[m] = q
          PROVE  inFlight'[m] = q \/ Computed(q)'
      <4>1. CASE m = nt
        BY <1>4, <3>1, <4>1, InsertFacts
      <4>2. CASE m # nt
        BY <2>1, <3>1, <4>2 DEF StageInv
      <4> QED BY <4>1, <4>2
    <3>2. Computed(q) => Computed(q)'
      BY <1>4, InsertFacts
    <3> QED BY <2>1, <3>1, <3>2 DEF FilledInv
  <2> QED BY <2>1, <2>2, <2>3 DEF FilledInv
<1>5. CASE DirectBarrier
  <2>1. /\ stage = "direct" /\ unclaimed = {} /\ \A m \in Threads : inFlight[m] = None
        /\ stage' = IF UseEEPs THEN "children" ELSE "lower"
        /\ UseEEPs => parentsTodo' = GetParents
        /\ UNCHANGED <<vars, worldVars, call, block>>
    BY <1>5 DEF DirectBarrier
  <2>2. \A q : /\ HasParent(q)' <=> HasParent(q)
               /\ OutOfDate(q)' <=> OutOfDate(q)
               /\ Computed(q)' <=> Computed(q)
    BY <2>1, Kept, ComputedKept
  <2>3. ASSUME NEW q \in Pairs
        PROVE  (UseEEPs /\ HasParent(q)) \/ Computed(q)
    BY <2>1, NoneAssumption DEF FilledInv
  <2>4. \A q \in Pairs : HasParent(q) => table[0].parents[q] \in GetParents
    BY ParentFacts
  <2>5. table' = table
    BY <2>1 DEF vars
  <2> QED BY <2>1, <2>2, <2>3, <2>4, <2>5 DEF FilledInv
<1>6. CASE FillChildren
  BY <1>6, ChildrenFilled
<1>7. CASE ChildrenDone
  <2>1. /\ stage = "children" /\ parentsTodo = {} /\ stage' = "lower"
        /\ UNCHANGED <<vars, worldVars, call, block>>
    BY <1>7 DEF ChildrenDone
  <2>2. \A q : (OutOfDate(q)' <=> OutOfDate(q)) /\ (Computed(q)' <=> Computed(q))
    BY <2>1, Kept, ComputedKept
  <2> QED BY <2>1, <2>2 DEF FilledInv
<1>8. CASE UNCHANGED blockVars
  <2>1. UNCHANGED <<vars, worldVars, call, block, stage, unclaimed, inFlight, parentsTodo>>
    BY <1>8 DEF blockVars, callVars
  <2>2. \A q : /\ HasParent(q)' <=> HasParent(q)
               /\ OutOfDate(q)' <=> OutOfDate(q)
               /\ Computed(q)' <=> Computed(q)
    BY <2>1, Kept, ComputedKept
  <2>3. table' = table /\ UseEEPs' = UseEEPs
    BY <2>1 DEF vars, worldVars
  <2> QED BY <2>1, <2>2, <2>3 DEF FilledInv
<1> QED BY <1>1, <1>2, <1>3, <1>4, <1>5, <1>6, <1>7, <1>8 DEF BlockNext

LEMMA LowerFilled ==
  ASSUME WorldInv, StageInv, FilledInv, FillLower
  PROVE  BlockCorrect'
<1>1. /\ stage = "lower" /\ stage' = "idle" /\ related
      /\ UNCHANGED <<vars, worldVars, call>>
  BY DEF FillLower, StageInv
<1>2. \A rc \in Rows \X Cols :
        block'[rc] = IF SameSurface /\ rc[1] \in 1 .. NEA - 1 /\ rc[2] < rc[1]
                       THEN block[<< rc[2], rc[1] >>] ELSE block[rc]
  BY DEF FillLower
<1>3. ASSUME NEW rc \in Rows \X Cols, FilledIn(rc), ~OutOfDate(PairOf(rc))
      PROVE  block'[rc] = TrueEntry(rc)
  <2> DEFINE p == PairOf(rc)
             q == IF p \in Pairs THEN p ELSE << p[2], p[1] >>
  <2>1. TrueEntry(rc) = MatrixElement(q, KernelOf(rc))
    BY <1>1 DEF TrueEntry
  <2>2. rc[1] \in Int /\ NEA \in Nat /\ (p \notin Pairs => SameSurface /\ rc[2] < rc[1] /\ rc[1] >= 1)
    BY PlaceFacts, SizesAssumption, BlockAssumption DEF Rows
  <2>3. CASE SameSurface /\ rc[1] \in 1 .. NEA - 1 /\ rc[2] < rc[1]
    <3> DEFINE mirror == << rc[2], rc[1] >>
    <3>1. mirror \in Rows \X Cols /\ KernelOf(mirror) = KernelOf(rc)
          /\ PairOf(mirror) \in Pairs /\ PairOf(mirror) = q
      BY <2>3, MirrorFacts
    <3>2. Computed(q)
      BY <1>1, <2>3, <3>1 DEF FilledInv, OutOfDate
    <3>3. block[mirror] = MatrixElement(q, KernelOf(rc))
      BY <3>1, <3>2 DEF Computed
    <3> QED BY <1>2, <2>1, <2>3, <3>3
  <2>4. CASE ~(SameSurface /\ rc[1] \in 1 .. NEA - 1 /\ rc[2] < rc[1])
    <3>1. p \in Pairs
      BY <1>3, <2>2, <2>4 DEF FilledIn
    <3>2. Computed(p)
      BY <1>1, <1>3, <3>1 DEF FilledInv
    <3> QED BY <1>2, <2>1, <2>4, <3>1, <3>2 DEF Computed
  <2> QED BY <2>3, <2>4
<1>4. \A rc : TrueEntry(rc)' = TrueEntry(rc) /\ OutOfDate(PairOf(rc))' = OutOfDate(PairOf(rc))
  BY <1>1, Kept DEF PairOf
<1> QED BY <1>3, <1>4 DEF BlockCorrect, FilledIn, PairOf

LEMMA CorrectStep ==
  ASSUME WorldInv, StageInv, FilledInv, BlockCorrect, BlockNext \/ UNCHANGED blockVars
  PROVE  BlockCorrect'
<1>1. CASE FillLower
  BY <1>1, LowerFilled
<1>2. CASE CommonRegions /\ stage' = "idle"
  <2>1. /\ ~related /\ UNCHANGED <<related, call>>
        /\ \A rc \in Rows \X Cols : block'[rc] = Zero(call)
    BY <1>2 DEF CommonRegions, worldVars
  <2> QED BY <2>1 DEF BlockCorrect, TrueEntry, Zero
<1>3. CASE UNCHANGED blockVars
  <2>1. UNCHANGED <<vars, worldVars, call, block, stage>>
    BY <1>3 DEF blockVars, callVars
  <2>2. \A rc : TrueEntry(rc)' = TrueEntry(rc) /\ OutOfDate(PairOf(rc))' = OutOfDate(PairOf(rc))
    BY <2>1, Kept DEF PairOf
  <2> QED BY <2>1, <2>2 DEF BlockCorrect, Returned, FilledIn, PairOf
<1>4. CASE stage' # "idle"
  BY <1>4 DEF BlockCorrect, Returned
<1>5. FillLower \/ (CommonRegions /\ stage' = "idle") \/ UNCHANGED blockVars \/ stage' # "idle"
  BY DEF BlockNext, Begin, BuildTable, CommonRegions, TakePair, ComputePair, DirectBarrier,
         FillChildren, ChildrenDone, Transform, StageInv
<1> QED BY <1>1, <1>2, <1>3, <1>4, <1>5

BlockInv == IInv /\ WorldInv /\ StageInv /\ FilledInv /\ BlockCorrect

\* Whatever the table, the threads and the order in which they take the pairs,
\* every entry that is returned is that of its own pair, for the frequency of the
\* call and the positions of the surfaces, unless the parent is out of date.
THEOREM BlockIsCorrect == BlockSpec => []BlockCorrect
<1>1. BlockInit => BlockInv
  <2> SUFFICES ASSUME BlockInit PROVE BlockInv
    OBVIOUS
  <2>1. IInv
    BY InitIInv DEF BlockInit
  <2>2. stage = "idle" /\ call = 0
    BY DEF BlockInit
  <2> QED BY <2>1, <2>2, StageInit DEF BlockInv, FilledInv, BlockCorrect, Returned
<1>2. BlockInv /\ [BlockNext]_blockVars => BlockInv'
  BY TableUnderBlock, TableStep, WorldStep, StageStep, FilledStep, CorrectStep DEF BlockInv
<1>3. BlockInv => BlockCorrect
  BY DEF BlockInv
<1> QED BY <1>1, <1>2, <1>3, PTL DEF BlockSpec

=============================================================================
