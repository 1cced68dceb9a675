-------------------------- MODULE ScuffStatic_proof --------------------------
(***************************************************************************)
(* Proofs about ScuffStatic and BMAccelerator, for any surfaces, layouts,  *)
(* .trans files, excitations and numbers of runs.                          *)
(***************************************************************************)
EXTENDS ScuffStatic, FiniteSetTheorems, WellFoundedInduction, TLAPS

-----------------------------------------------------------------------------
(* The files a run is started with.                                        *)

FilesInv ==
  /\ Mate \in [Surfaces -> 0..NS] /\ Layout \in [Surfaces -> Motions]
  /\ Motion \in [Transformations -> [Surfaces -> Motions]]
  /\ \A ns \in Surfaces : Mate[ns] # 0 => Mate[Mate[ns]] = 0
  /\ \A ns \in Surfaces : Mate[ns] < ns
  /\ \A a, b \in Surfaces :
       a < b /\ Mate[b] # 0 /\ Mate[b] \in {a, Mate[a]} =>
         \A k \in 1..Len(GTCs) : Position(a, k) # Position(b, k)
  /\ Len(GTCs) \in Nat \ {0} /\ Len(GTCs) \in Transformations
  /\ GTCs \in [1..Len(GTCs) -> SUBSET Surfaces]

LEMMA SurfaceFacts == NS \in Nat /\ Surfaces = 1..NS
BY GeometryAssumption DEF Surfaces

LEMMA TransFileFacts ==
  ASSUME NEW trans \in TransFiles
  PROVE  /\ Len(trans) \in Nat \ {0} /\ Len(trans) \in Transformations
         /\ trans \in [1..Len(trans) -> SUBSET Surfaces]
<1>1. NT \in Nat
  BY GeometryAssumption
<1>2. PICK k \in 1..NT : trans \in [1..k -> SUBSET Surfaces]
  BY GeometryAssumption DEF Transformations
<1>3. trans \in Seq(SUBSET Surfaces) /\ Len(trans) = k
  BY <1>1, <1>2
<1> QED BY <1>1, <1>2, <1>3 DEF Transformations

LEMMA FilesInit == StaticInit => FilesInv
<1> SUFFICES ASSUME StaticInit PROVE FilesInv
  OBVIOUS
<1>1. PICK i \in Inputs :
        GTCs = i.GTCs /\ Motion = i.Motion /\ Mate = i.Mate /\ Layout = i.Layout
  BY DEF StaticInit, Init
<1>2. /\ i.GTCs \in TransFiles /\ i.Mate \in [Surfaces -> 0..NS]
      /\ i.Layout \in [Surfaces -> Motions]
      /\ i.Motion \in [Transformations -> [Surfaces -> Motions]]
  BY StaticAssumption
<1>3. \A ns \in Surfaces : i.Mate[ns] < ns /\ (i.Mate[ns] # 0 => i.Mate[i.Mate[ns]] = 0)
  BY StaticAssumption
<1>4. \A a, b \in Surfaces :
        a < b /\ i.Mate[b] # 0 /\ i.Mate[b] \in {a, i.Mate[a]} =>
          \A k \in DOMAIN i.GTCs : Placed(i.GTCs[k], i.Motion[k], i.Layout, a)
                                   # Placed(i.GTCs[k], i.Motion[k], i.Layout, b)
  BY ApartAssumption
<1>5. DOMAIN i.GTCs = 1..Len(i.GTCs)
  BY <1>2, TransFileFacts
<1> QED BY <1>1, <1>2, <1>3, <1>4, <1>5, TransFileFacts DEF FilesInv, Position

LEMMA FilesStep == FilesInv /\ [StaticNext]_allVars => FilesInv'
<1> SUFFICES ASSUME FilesInv, [StaticNext]_allVars PROVE FilesInv'
  OBVIOUS
<1>1. UNCHANGED <<GTCs, Motion, Mate, Layout>>
  BY DEF StaticNext, Accelerate, StartTransformation, ReadHit, ReadMiss, Reassemble, UseSolution,
         LUSolve, CreateFile, WriteDataset, Output, RunAgain, Finished, CreateBMAccelerator,
         ApplyTransformation, Transform, AssembleBlocks, StampBlocks, EndTransformation,
         UnTransform, allVars, vars, geometry, files
<1> QED BY <1>1 DEF FilesInv, Position

\* The owner of a block has no mate.
LEMMA OwnerFacts ==
  ASSUME FilesInv, NEW ns \in Surfaces
  PROVE  Owner(ns) \in Surfaces /\ Mate[Owner(ns)] = 0 /\ Owner(Owner(ns)) = Owner(ns)
BY SurfaceFacts DEF FilesInv, Owner

\* Copies of one mesh lie apart.
LEMMA CopiesApart ==
  ASSUME FilesInv, NEW a \in Surfaces, NEW b \in Surfaces, a < b, Owner(a) = Owner(b),
         NEW k \in 1..Len(GTCs)
  PROVE  Position(a, k) # Position(b, k)
BY SurfaceFacts DEF FilesInv, Owner

-----------------------------------------------------------------------------
(* Geometrical transformations.                                            *)

\* A motion is known by its parts.
LEMMA MotionParts ==
  ASSUME NEW f \in Motions, NEW g \in Motions
  PROVE  /\ f.turned \in BOOLEAN /\ f.by \in Int
         /\ f.turned = g.turned /\ f.by = g.by => f = g
BY DEF Motions

\* The parts of compositions and inverses.
LEMMA ComposeParts ==
  ASSUME NEW f \in Motions, NEW g \in Motions
  PROVE  /\ Compose(f, g) \in Motions
         /\ Compose(f, g).turned = (f.turned # g.turned)
         /\ f.turned => Compose(f, g).by = f.by - g.by
         /\ ~f.turned => Compose(f, g).by = f.by + g.by
<1>1. f.turned \in BOOLEAN /\ f.by \in Int /\ g.by \in Int
  BY MotionParts
<1>2. /\ f.turned => Image(f, g.by) = f.by - g.by
      /\ ~f.turned => Image(f, g.by) = f.by + g.by
  BY <1>1 DEF Image
<1>3. Image(f, g.by) \in Int /\ (f.turned # g.turned) \in BOOLEAN
  BY <1>1, <1>2
<1>4. Compose(f, g) = [turned |-> f.turned # g.turned, by |-> Image(f, g.by)]
  BY DEF Compose
<1>5. Compose(f, g) \in Motions
  BY <1>3, <1>4 DEF Motions
<1>6. /\ Compose(f, g).turned = (f.turned # g.turned)
      /\ Compose(f, g).by = Image(f, g.by)
  BY <1>4
<1> QED BY <1>2, <1>5, <1>6

LEMMA InvertedParts ==
  ASSUME NEW f \in Motions
  PROVE  /\ Inverted(f) \in Motions /\ Inverted(f).turned = f.turned
         /\ f.turned => Inverted(f).by = f.by
         /\ ~f.turned => Inverted(f).by = -f.by
<1> DEFINE x == IF f.turned THEN f.by ELSE -f.by
<1>1. f.turned \in BOOLEAN /\ f.by \in Int
  BY MotionParts
<1>2. x \in Int /\ (f.turned => x = f.by) /\ (~f.turned => x = -f.by)
  BY <1>1
<1>3. Inverted(f) = [turned |-> f.turned, by |-> x]
  BY DEF Inverted
<1> HIDE DEF x
<1>4. Inverted(f) \in Motions
  BY <1>1, <1>2, <1>3 DEF Motions
<1>5. Inverted(f).turned = f.turned /\ Inverted(f).by = x
  BY <1>3
<1> QED BY <1>2, <1>4, <1>5

LEMMA StillParts == Still \in Motions /\ Still.turned = FALSE /\ Still.by = 0
BY DEF Still, Motions

\* How a motion looks as seen from another one.
LEMMA SeenParts ==
  ASSUME NEW f \in Motions, NEW g \in Motions
  PROVE  /\ Compose(Inverted(f), g) \in Motions
         /\ Compose(Inverted(f), g).turned = (f.turned # g.turned)
         /\ f.turned => Compose(Inverted(f), g).by = f.by - g.by
         /\ ~f.turned => Compose(Inverted(f), g).by = g.by - f.by
<1>1. f.by \in Int /\ g.by \in Int
  BY MotionParts
<1>2. /\ Inverted(f) \in Motions /\ Inverted(f).turned = f.turned
      /\ f.turned => Inverted(f).by = f.by
      /\ ~f.turned => Inverted(f).by = -f.by
  BY InvertedParts
<1>3. /\ Compose(Inverted(f), g) \in Motions
      /\ Compose(Inverted(f), g).turned = (f.turned # g.turned)
      /\ f.turned => Compose(Inverted(f), g).by = Inverted(f).by - g.by
      /\ ~f.turned => Compose(Inverted(f), g).by = Inverted(f).by + g.by
  BY <1>2, ComposeParts
<1>4. -f.by + g.by = g.by - f.by
  BY <1>1
<1> QED BY <1>2, <1>3, <1>4

\* Composition and inverse are motions, and the composition of the inverse of one
\* with another tells whether they are the same.
LEMMA MotionFacts ==
  ASSUME NEW f \in Motions, NEW g \in Motions
  PROVE  /\ Compose(f, g) \in Motions /\ Inverted(f) \in Motions /\ Still \in Motions
         /\ Compose(Inverted(f), f) = Still
         /\ Compose(Inverted(f), g) = Still => f = g
         /\ Compose(Inverted(g), f) = Inverted(Compose(Inverted(f), g))
<1>1. /\ f.turned \in BOOLEAN /\ f.by \in Int /\ g.turned \in BOOLEAN /\ g.by \in Int
  BY MotionParts
<1>2. Compose(Inverted(f), f) = Still
  <2>1. /\ Compose(Inverted(f), f) \in Motions
        /\ Compose(Inverted(f), f).turned = (f.turned # f.turned)
        /\ f.turned => Compose(Inverted(f), f).by = f.by - f.by
        /\ ~f.turned => Compose(Inverted(f), f).by = f.by - f.by
    BY SeenParts
  <2>2. f.by - f.by = 0 /\ (f.turned # f.turned) = FALSE
    BY <1>1
  <2>3. Compose(Inverted(f), f).turned = FALSE /\ Compose(Inverted(f), f).by = 0
    BY <2>1, <2>2
  <2> QED BY <2>1, <2>3, StillParts, MotionParts
<1>3. ASSUME Compose(Inverted(f), g) = Still PROVE f = g
  <2>1. (f.turned # g.turned) = FALSE
    BY <1>3, SeenParts, StillParts
  <2>2. f.by - g.by = 0 \/ g.by - f.by = 0
    BY <1>3, SeenParts, StillParts
  <2>3. f.turned = g.turned /\ f.by = g.by
    BY <1>1, <2>1, <2>2
  <2> QED BY <2>3, MotionParts
<1>4. Compose(Inverted(g), f) = Inverted(Compose(Inverted(f), g))
  <2> DEFINE c == Compose(Inverted(f), g)
             d == Compose(Inverted(g), f)
             e == Inverted(c)
  <2>1. /\ c \in Motions /\ c.turned = (f.turned # g.turned)
        /\ f.turned => c.by = f.by - g.by
        /\ ~f.turned => c.by = g.by - f.by
    BY SeenParts
  <2>2. /\ d \in Motions /\ d.turned = (g.turned # f.turned)
        /\ g.turned => d.by = g.by - f.by
        /\ ~g.turned => d.by = f.by - g.by
    BY SeenParts
  <2> HIDE DEF c, d
  <2>3. e \in Motions /\ e.turned = c.turned /\ (c.turned => e.by = c.by)
        /\ (~c.turned => e.by = -c.by)
    BY <2>1, InvertedParts
  <2> HIDE DEF e
  <2>4. d.turned = e.turned
    BY <1>1, <2>1, <2>2, <2>3
  <2>5. d.by = e.by
    <3>1. -(f.by - g.by) = g.by - f.by /\ -(g.by - f.by) = f.by - g.by
      BY <1>1
    <3> QED BY <1>1, <2>1, <2>2, <2>3, <3>1
  <2>6. d = e
    BY <2>2, <2>3, <2>4, <2>5, MotionParts
  <2> QED BY <2>6 DEF c, d, e
<1> QED BY <1>2, <1>3, <1>4, ComposeParts, InvertedParts, StillParts

\* Where a transformation puts a surface, in truth and for the search.
LEMMA PositionFacts ==
  ASSUME FilesInv, NEW ns \in Surfaces, NEW k \in 1..Len(GTCs)
  PROVE  /\ Position(ns, k) \in Motions /\ Layout[ns] \in Motions
         /\ Told(ns) \in Motions
<1>1. k \in Transformations /\ 1 \in Transformations
  BY GeometryAssumption DEF FilesInv, Transformations
<1>2. Layout[ns] \in Motions /\ Motion[k][ns] \in Motions /\ Motion[1][ns] \in Motions
  BY <1>1 DEF FilesInv
<1> QED BY <1>2, MotionFacts DEF Position, Placed, Told

-----------------------------------------------------------------------------
(* Equivalent pairs.                                                       *)

\* A set of natural numbers has a least member.
LEMMA LeastNatural ==
  ASSUME NEW T, T \subseteq Nat, T # {}
  PROVE  \E x \in T : \A y \in T : x <= y
<1> DEFINE UpTo(x) == 0..x
           Segments == { UpTo(x) : x \in T }
<1>1. \A x \in Nat : UpTo(x) \in FiniteSubsetsOf(Nat)
  BY FS_Interval DEF FiniteSubsetsOf
<1>2. Segments \subseteq FiniteSubsetsOf(Nat) /\ Segments # {}
  BY <1>1
<1>3. PICK A \in Segments : \A B \in Segments : ~(<< B, A >> \in StrictSubsetOrdering(Nat))
  BY <1>2, FS_StrictSubsetOrderingWellFounded, WFMin, Zenon
<1>4. PICK x \in T : A = UpTo(x)
  OBVIOUS
<1>5. ASSUME NEW y \in T, y < x PROVE FALSE
  <2>1. UpTo(y) \subseteq UpTo(x) /\ x \in UpTo(x) /\ x \notin UpTo(y)
    BY <1>5
  <2>2. UpTo(y) \in SUBSET Nat /\ UpTo(x) \in SUBSET Nat /\ UpTo(y) # UpTo(x)
    BY <2>1
  <2>3. << UpTo(y), UpTo(x) >> \in StrictSubsetOrdering(Nat)
    BY <2>1, <2>2 DEF StrictSubsetOrdering
  <2>4. UpTo(y) \in Segments
    BY <1>5
  <2> QED BY <1>3, <1>4, <2>3, <2>4
<1> QED BY <1>4, <1>5

\* First finds the least of the pairs it is given.
LEMMA FirstFacts ==
  ASSUME NEW Q, Q \subseteq Nat \X Nat, Q # {}
  PROVE  First(Q) \in Q
<1> DEFINE Rows == { q[1] : q \in Q }
<1>1. PICK a \in Rows : \A y \in Rows : a <= y
  <2>1. Rows \subseteq Nat /\ Rows # {}
    OBVIOUS
  <2> QED BY <2>1, LeastNatural
<1> DEFINE Columns == { q[2] : q \in { r \in Q : r[1] = a } }
<1>2. Columns \subseteq Nat /\ Columns # {}
  BY <1>1
<1>3. PICK b \in Columns : \A y \in Columns : b <= y
  BY <1>2, LeastNatural
<1>4. PICK q \in Q : q[1] = a /\ q[2] = b
  BY <1>3
<1>5. \A r \in Q : q[1] < r[1] \/ (q[1] = r[1] /\ q[2] <= r[2])
  <2> TAKE r \in Q
  <2>1. a <= r[1] /\ (r[1] = a => b <= r[2])
    BY <1>1, <1>3
  <2> QED BY <1>4, <2>1
<1> QED BY <1>4, <1>5 DEF First

\* The pair as it was found, before it was turned round.
FirstOf(e)  == IF e.flip THEN e.pair[2] ELSE e.pair[1]
SecondOf(e) == IF e.flip THEN e.pair[1] ELSE e.pair[2]

\* The search places the surfaces of p and of the pair found for it where the
\* transformation does.
InPlace(p) ==
  \A ns \in {p[1], p[2], EquivalentTo(p).pair[1], EquivalentTo(p).pair[2]} :
    Told(ns) = Position(ns, 1)

\* The pair that is found is another pair above the diagonal and is not the first
\* one; if the surfaces are in place it has the same block, turned round if it is
\* flipped.
LEMMA EquivalentFacts ==
  ASSUME FilesInv, NEW p \in Pairs, EquivalentTo(p) # None
  PROVE  /\ EquivalentTo(p).pair \in Pairs \ {p} /\ EquivalentTo(p).flip \in BOOLEAN
         /\ InPlace(p) =>
              /\ Owner(FirstOf(EquivalentTo(p))) = Owner(p[1])
              /\ Owner(SecondOf(EquivalentTo(p))) = Owner(p[2])
              /\ Seen(FirstOf(EquivalentTo(p)), SecondOf(EquivalentTo(p))) = Seen(p[1], p[2])
<1> DEFINE q == First(Equivalents(p))
<1>1. /\ Equivalents(p) # {} /\ p[1] # 1
      /\ EquivalentTo(p) = [pair |-> Indexed(q), flip |-> q[2] < q[1]]
  BY DEF EquivalentTo
<1>2. p[1] \in Surfaces /\ p[2] \in Surfaces /\ p[1] < p[2] /\ p = <<p[1], p[2]>>
  BY DEF Pairs
<1>3. Equivalents(p) \subseteq Nat \X Nat
  BY <1>2, SurfaceFacts DEF Equivalents
<1>4. q \in Equivalents(p)
  BY <1>1, <1>3, FirstFacts
<1> HIDE DEF q
<1>5. /\ q[1] \in 1..p[1] /\ q[2] \in 2..p[2] /\ q = <<q[1], q[2]>> /\ q # p
      /\ Owner(q[1]) = Owner(p[1]) /\ Owner(q[2]) = Owner(p[2])
      /\ Seen(q[1], q[2]) = Seen(p[1], p[2])
  BY <1>4 DEF Equivalents
<1>6. /\ q[1] \in Surfaces /\ q[2] \in Surfaces /\ q[1] \in Nat /\ q[2] \in Nat
      /\ p[1] \in Nat /\ p[2] \in Nat /\ p[2] <= NS /\ NS \in Nat
  BY <1>2, <1>5, SurfaceFacts
<1>7. Indexed(q) \in Pairs \ {p}
  <2>1. CASE q[1] < q[2]
    BY <2>1, <1>5, <1>6 DEF Indexed, Pairs
  <2>2. CASE q[2] < q[1]
    <3>1. Indexed(q) = <<q[2], q[1]>>
      BY <2>2, <1>6 DEF Indexed
    <3>2. <<q[2], q[1]>> # p
      BY <2>2, <1>2, <1>5, <1>6
    <3> QED BY <2>2, <3>1, <3>2, <1>6 DEF Pairs
  <2>3. CASE q[1] = q[2]
    <3>1. Indexed(q) = <<q[1] - 1, NS>>
      BY <2>3, <1>6 DEF Indexed
    <3>2. q[1] - 1 \in Surfaces /\ q[1] - 1 < NS /\ NS \in Surfaces
      BY <2>3, <1>5, <1>6, <1>2, SurfaceFacts
    <3>3. q[1] - 1 # p[1]
      BY <1>5, <1>6
    <3> QED BY <3>1, <3>2, <3>3, <1>2 DEF Pairs
  <2> QED BY <2>1, <2>2, <2>3, <1>6
<1>8. (q[2] < q[1]) \in BOOLEAN
  OBVIOUS
<1>9. ASSUME InPlace(p)
      PROVE  /\ FirstOf(EquivalentTo(p)) = q[1] /\ SecondOf(EquivalentTo(p)) = q[2]
  <2>1. q[1] # q[2]
    <3> SUFFICES ASSUME q[1] = q[2] PROVE FALSE
      OBVIOUS
    <3>0. 1 \in 1..Len(GTCs)
      BY DEF FilesInv
    <3>1. /\ Told(q[1]) \in Motions /\ Told(p[1]) \in Motions /\ Told(p[2]) \in Motions
      BY <3>0, <1>2, <1>6, PositionFacts
    <3>2. Seen(q[1], q[2]) = Still
      BY <3>1, MotionFacts DEF Seen
    <3>3. Told(p[1]) = Told(p[2])
      BY <3>1, <3>2, <1>5, MotionFacts DEF Seen
    <3>4. Position(p[1], 1) = Position(p[2], 1)
      BY <3>3, <1>9 DEF InPlace
    <3> QED BY <3>0, <3>4, <1>2, <1>5, CopiesApart
  <2>2. EquivalentTo(p).pair = Indexed(q) /\ EquivalentTo(p).flip = (q[2] < q[1])
    BY <1>1
  <2>3. CASE q[1] < q[2]
    <3>1. Indexed(q) = q
      BY <2>3 DEF Indexed
    <3>2. EquivalentTo(p).flip = FALSE
      <4>1. (q[2] < q[1]) = FALSE
        BY <1>6, <2>3
      <4> QED BY <2>2, <4>1
    <3> QED BY <2>2, <3>1, <3>2 DEF FirstOf, SecondOf
  <2>4. CASE q[2] < q[1]
    <3>1. Indexed(q) = <<q[2], q[1]>>
      BY <1>6, <2>4 DEF Indexed
    <3>2. EquivalentTo(p).flip
      BY <2>2, <2>4
    <3> QED BY <2>2, <3>1, <3>2 DEF FirstOf, SecondOf
  <2> QED BY <2>1, <2>3, <2>4, <1>6
<1> QED BY <1>1, <1>5, <1>7, <1>8, <1>9

-----------------------------------------------------------------------------
(* The loops.                                                              *)

BetweenSteps == {"create", "transformation", "done"}

\* Where the two nested loops are, and which transformations were found.
StepsInv ==
  /\ step \in BetweenSteps \union {"reassemble", "stamp", "solve"}
  /\ at \in {"loop", "lookup", "assemble", "excite", "write", "writing", "output"}
  /\ nt \in 1..NumTransformations + 1
  /\ n \in 1..NumExcitations /\ run \in 1..MaxRuns
  /\ at = "loop" <=> step \in BetweenSteps
  /\ at = "lookup" => step = "reassemble"
  /\ at = "assemble" => step \in {"reassemble", "stamp"} /\ ~HaveSolution
  /\ at \in {"excite", "output"} => step = IF HaveSolution THEN "reassemble" ELSE "solve"
  /\ at \in {"write", "writing"} => step = "solve" /\ ~HaveSolution
  /\ step = "create" => nt = 1
  /\ step = "done" => nt > 1
  /\ step \notin {"create", "done"} => nt <= NumTransformations
  /\ found \subseteq 1..nt
  /\ nt \in found <=> at \in {"excite", "output"} /\ HaveSolution

\* What the two endings of a transformation have in common.
LEMMA EndFacts ==
  ASSUME StepsInv, FilesInv, Output, ~(n < NumExcitations)
  PROVE  /\ EndTransformation /\ at' = "loop" /\ n' = n /\ nt' = nt + 1
         /\ step' = IF nt + 1 <= NumTransformations THEN "transformation" ELSE "done"
         /\ nt \in Nat /\ nt + 1 \in 1..NumTransformations + 1
BY DEF Output, EndTransformation, StepsInv, FilesInv, NumTransformations

LEMMA StepsInit == StaticInit => StepsInv
<1> SUFFICES ASSUME StaticInit PROVE StepsInv
  OBVIOUS
<1>1. Len(GTCs) \in Nat \ {0} /\ NumExcitations \in Nat \ {0} /\ MaxRuns \in Nat \ {0}
  BY FilesInit, RunsAssumption DEF FilesInv
<1>2. /\ step = "create" /\ nt = 1 /\ run = 1 /\ at = "loop" /\ n = 1
      /\ HaveSolution = FALSE /\ leaked = FALSE /\ found = {}
  BY DEF StaticInit, Init
<1> QED BY <1>1, <1>2 DEF StepsInv, BetweenSteps, NumTransformations

LEMMA StepsStep == FilesInv /\ StepsInv /\ [StaticNext]_allVars => StepsInv'
<1> SUFFICES ASSUME FilesInv, StepsInv, [StaticNext]_allVars PROVE StepsInv'
  OBVIOUS
<1> USE DEF StepsInv, BetweenSteps, NumTransformations
<1>0. NumExcitations \in Nat /\ MaxRuns \in Nat /\ Len(GTCs) \in Nat /\ Len(GTCs) >= 1
  BY RunsAssumption DEF FilesInv
<1>1. CASE Accelerate
  BY <1>0, <1>1 DEF Accelerate, CreateBMAccelerator, process
<1>2. CASE StartTransformation
  BY <1>0, <1>2 DEF StartTransformation, ApplyTransformation, Transform
<1>3. CASE ReadHit
  BY <1>0, <1>3 DEF ReadHit, vars, geometry
<1>4. CASE ReadMiss
  BY <1>0, <1>4 DEF ReadMiss, vars, geometry
<1>5. CASE Reassemble
  <2>1. /\ at = "assemble" /\ UNCHANGED <<GTCs, nt, run, HaveSolution, leaked, found>>
        /\ \/ step' = "stamp" /\ UNCHANGED <<at, n>>
           \/ step' = "solve" /\ at' = "excite" /\ n' = 1
    BY <1>5 DEF Reassemble, AssembleBlocks, StampBlocks, geometry
  <2> QED BY <1>0, <2>1
<1>6. CASE UseSolution
  BY <1>6 DEF UseSolution, vars, geometry
<1>7. CASE LUSolve
  BY <1>7 DEF LUSolve, vars, geometry
<1>8. CASE CreateFile
  BY <1>8 DEF CreateFile, vars, geometry
<1>9. CASE WriteDataset
  BY <1>9 DEF WriteDataset, vars, geometry
<1>10. CASE Output
  <2>1. CASE n < NumExcitations
    BY <1>0, <1>10, <2>1 DEF Output, vars, geometry
  <2>2. CASE ~(n < NumExcitations)
    <3>1. /\ at' = "loop" /\ n' = n /\ nt' = nt + 1 /\ nt \in Nat
          /\ step' = IF nt + 1 <= Len(GTCs) THEN "transformation" ELSE "done"
          /\ nt + 1 \in 1..Len(GTCs) + 1
          /\ UNCHANGED <<GTCs, run, HaveSolution, found, leaked>>
      BY <1>10, <2>2, EndFacts DEF Output, EndTransformation, UnTransform
    <3> QED BY <1>0, <3>1
  <2> QED BY <2>1, <2>2
<1>11. CASE RunAgain
  <2>1. /\ step' = "create" /\ nt' = 1 /\ at' = "loop" /\ n' = 1 /\ GTCs' = GTCs
        /\ HaveSolution' = FALSE /\ leaked' = FALSE /\ found' = {}
        /\ run' \in 1..MaxRuns
    BY <1>0, <1>11 DEF RunAgain
  <2> QED BY <1>0, <2>1, RunsAssumption
<1>12. CASE Finished \/ UNCHANGED allVars
  <2>1. UNCHANGED <<GTCs, step, nt, run, at, n, HaveSolution, leaked, found>>
    BY <1>12 DEF Finished, allVars, vars, geometry, process
  <2> QED BY <2>1
<1> QED BY <1>1, <1>2, <1>3, <1>4, <1>5, <1>6, <1>7, <1>8, <1>9, <1>10, <1>11, <1>12
        DEF StaticNext

\* The surfaces are where the transformation at hand puts them, and the matrix of
\* pairs is that of the only transformation.
PlaceInv ==
  /\ step \in BetweenSteps => GT = Home /\ Vertices = Layout
  /\ step \notin BetweenSteps =>
       SurfaceMoved = GTCs[nt] /\ \A ns \in Surfaces : Vertices[ns] = Position(ns, nt)
  /\ \A p \in Pairs :
       PairMatrix[p] = IF step # "create" /\ UsePairEquivalence THEN EquivalentTo(p) ELSE None

LEMMA PlaceInit == StaticInit => PlaceInv
BY DEF StaticInit, Init, PlaceInv, BetweenSteps

LEMMA EquivalentToKept ==
  ASSUME UNCHANGED <<GTCs, files>>
  PROVE  \A p : EquivalentTo(p)' = EquivalentTo(p)
<1>1. \A a, b : Seen(a, b)' = Seen(a, b)
  BY DEF files, Seen, Told
<1>2. \A a : Owner(a)' = Owner(a)
  BY DEF files, Owner
<1>3. \A p : Equivalents(p)' = Equivalents(p)
  BY <1>1, <1>2 DEF Equivalents
<1>4. \A Q : First(Q)' = First(Q)
  BY DEF First
<1> QED BY <1>3, <1>4 DEF files, EquivalentTo

LEMMA PlaceStep == FilesInv /\ StepsInv /\ PlaceInv /\ [StaticNext]_allVars => PlaceInv'
<1> SUFFICES ASSUME FilesInv, StepsInv, PlaceInv, [StaticNext]_allVars PROVE PlaceInv'
  OBVIOUS
<1>0. UNCHANGED <<GTCs, files>>
  BY DEF StaticNext, Accelerate, StartTransformation, ReadHit, ReadMiss, Reassemble, UseSolution,
         LUSolve, CreateFile, WriteDataset, Output, RunAgain, Finished, CreateBMAccelerator,
         ApplyTransformation, Transform, AssembleBlocks, StampBlocks, EndTransformation,
         UnTransform, allVars, vars, geometry
<1>00. /\ UsePairEquivalence' = UsePairEquivalence /\ Home' = Home
       /\ \A p \in Pairs : EquivalentTo(p)' = EquivalentTo(p)
       /\ \A k : \A ns \in Surfaces : Position(ns, k)' = Position(ns, k)
  BY <1>0, EquivalentToKept DEF UsePairEquivalence, NumTransformations, Home, Position, files
<1>1. CASE Accelerate
  BY <1>0, <1>00, <1>1 DEF Accelerate, CreateBMAccelerator, PlaceInv, BetweenSteps, files
<1>2. CASE StartTransformation
  <2>1. /\ step = "transformation" /\ step' = "reassemble" /\ nt' = nt /\ PairMatrix' = PairMatrix
        /\ SurfaceMoved' = GTCs[nt]
        /\ Vertices' = [ns \in Surfaces |-> Placed(GTCs[nt], Motion[nt], Vertices, ns)]
    BY <1>2 DEF StartTransformation, ApplyTransformation, Transform
  <2>2. ASSUME NEW ns \in Surfaces PROVE Vertices'[ns] = Position(ns, nt)
    BY <2>1 DEF PlaceInv, BetweenSteps, Position
  <2> QED BY <1>0, <1>00, <2>1, <2>2 DEF PlaceInv, BetweenSteps
<1>3. CASE UNCHANGED vars
  BY <1>0, <1>00, <1>3 DEF PlaceInv, BetweenSteps, vars, geometry, files
<1>4. CASE Reassemble
  <2>1. /\ step \in {"reassemble", "stamp"} /\ step' \in {"stamp", "solve"}
        /\ UNCHANGED <<GT, Vertices, SurfaceMoved, nt, PairMatrix>>
    BY <1>4 DEF Reassemble, AssembleBlocks, StampBlocks, geometry
  <2> QED BY <1>0, <1>00, <2>1 DEF PlaceInv, BetweenSteps
<1>5. CASE Output
  <2>1. CASE n < NumExcitations
    BY <1>3, <1>5, <2>1 DEF Output
  <2>2. CASE ~(n < NumExcitations)
    <3>1. /\ step' \in {"transformation", "done"} /\ GT' = Home /\ Vertices' = Layout
          /\ PairMatrix' = PairMatrix
      BY <1>5, <2>2, EndFacts DEF EndTransformation, UnTransform
    <3>2. step # "create"
      BY <1>5 DEF Output, StepsInv, BetweenSteps
    <3> QED BY <1>0, <1>00, <3>1, <3>2 DEF PlaceInv, BetweenSteps, files
  <2> QED BY <2>1, <2>2
<1>6. CASE RunAgain
  BY <1>0, <1>00, <1>6 DEF RunAgain, PlaceInv, BetweenSteps, files
<1>7. ReadHit \/ ReadMiss \/ UseSolution \/ LUSolve \/ CreateFile \/ WriteDataset \/ Finished
        \/ UNCHANGED allVars => UNCHANGED vars
  BY DEF ReadHit, ReadMiss, UseSolution, LUSolve, CreateFile, WriteDataset, Finished, allVars
<1> QED BY <1>1, <1>2, <1>3, <1>4, <1>5, <1>6, <1>7 DEF StaticNext

-----------------------------------------------------------------------------
(* The blocks and the matrix.                                              *)

\* Blocks have been assembled in this run, if the first solution was not found.
Assembled == nt > 1 \/ step \in {"stamp", "solve"}

\* No transformation so far, the one at hand included when its blocks have been
\* assembled, has moved either surface.
NeverMoved(p) ==
  \A j \in 1..(IF step \in {"stamp", "solve"} THEN nt ELSE nt - 1) :
    p[1] \notin GTCs[j] /\ p[2] \notin GTCs[j]

\* What is in the blocks: the diagonal ones are those of the first transformation,
\* the others are up to date or of surfaces that went home; as long as neither
\* surface has moved, they are those of the original places.
BlocksInv ==
  1 \notin found /\ Assembled =>
    /\ \A ns \in Surfaces : Mate[ns] = 0 => TBlocks[ns] = Content(ns, ns, Position(ns, 1), Position(ns, 1))
    /\ \A p \in Pairs : PairMatrix[p] = None =>
         /\ NeverMoved(p) => UBlocks[p] = Content(p[1], p[2], Layout[p[1]], Layout[p[2]])
         /\ step \in {"stamp", "solve"} => UBlocks[p] = RightContent(p[1], p[2]) \/ WentHome(p, nt)

LEMMA BlocksInit == StaticInit => BlocksInv
BY DEF StaticInit, Init, BlocksInv, Assembled

\* The contents depend on the files only.
LEMMA ContentKept ==
  ASSUME UNCHANGED <<GTCs, files>>
  PROVE  /\ \A a, b, here, there : Content(a, b, here, there)' = Content(a, b, here, there)
         /\ \A a, k : Position(a, k)' = Position(a, k)
         /\ \A p, k : WentHome(p, k)' = WentHome(p, k)
<1>1. \A a, b, here, there : Content(a, b, here, there)' = Content(a, b, here, there)
  BY DEF files, Content, Owner
<1> QED BY <1>1 DEF files, Position, WentHome

\* Assembling makes the blocks right, if the earlier ones were.
LEMMA AssembleIsRight ==
  ASSUME FilesInv, StepsInv, PlaceInv, BlocksInv, AssembleBlocks, UNCHANGED found
  PROVE  BlocksInv'
<1>0. /\ step = "reassemble" /\ step' = "stamp"
      /\ UNCHANGED <<GTCs, files, nt, PairMatrix>>
      /\ nt \in Nat /\ nt >= 1
  BY DEF AssembleBlocks, geometry, StepsInv, FilesInv
<1>1. /\ SurfaceMoved = GTCs[nt] /\ \A ns \in Surfaces : Vertices[ns] = Position(ns, nt)
  BY <1>0 DEF PlaceInv, BetweenSteps
<1> SUFFICES ASSUME 1 \notin found
             PROVE  BlocksInv'
  BY DEF BlocksInv
<1>2. ASSUME NEW ns \in Surfaces, Mate[ns] = 0
      PROVE  TBlocks'[ns] = Content(ns, ns, Position(ns, 1), Position(ns, 1))
  <2>1. CASE nt = 1
    BY <1>1, <1>2, <2>1 DEF AssembleBlocks, ContentNow
  <2>2. CASE nt # 1
    BY <1>0, <1>2, <2>2 DEF AssembleBlocks, BlocksInv, Assembled
  <2> QED BY <2>1, <2>2
<1>3. ASSUME NEW p \in Pairs, PairMatrix[p] = None
      PROVE  /\ NeverMoved(p)' => UBlocks'[p] = Content(p[1], p[2], Layout[p[1]], Layout[p[2]])
             /\ UBlocks'[p] = Content(p[1], p[2], Position(p[1], nt), Position(p[2], nt)) \/ WentHome(p, nt)
  <2>0. p[1] \in Surfaces /\ p[2] \in Surfaces
    BY DEF Pairs
  <2>1. UBlocks'[p] = IF Recompute(p) THEN Content(p[1], p[2], Position(p[1], nt), Position(p[2], nt))
                      ELSE UBlocks[p]
    BY <1>1, <1>3, <2>0 DEF AssembleBlocks, ContentNow
  <2>2. ASSUME NeverMoved(p)'
        PROVE  /\ Position(p[1], nt) = Layout[p[1]] /\ Position(p[2], nt) = Layout[p[2]]
               /\ ~Recompute(p) => UBlocks[p] = Content(p[1], p[2], Layout[p[1]], Layout[p[2]])
    <3>1. \A j \in 1..nt : p[1] \notin GTCs[j] /\ p[2] \notin GTCs[j]
      BY <1>0, <2>2 DEF NeverMoved
    <3>2. nt \in 1..nt /\ 1..nt - 1 \subseteq 1..nt
      BY <1>0
    <3>3. NeverMoved(p)
      BY <1>0, <3>1, <3>2 DEF NeverMoved
    <3>4. ~Recompute(p) => nt > 1
      BY <1>0 DEF Recompute
    <3> QED BY <1>3, <3>1, <3>2, <3>3, <3>4 DEF BlocksInv, Assembled, Position, Placed
  <2>3. CASE Recompute(p)
    BY <2>1, <2>2, <2>3
  <2>4. CASE ~Recompute(p)
    <3>1. p[1] \notin GTCs[nt] /\ p[2] \notin GTCs[nt]
      BY <1>1, <2>4 DEF Recompute
    <3>2. CASE \E j \in 1..nt - 1 : p[1] \in GTCs[j] \/ p[2] \in GTCs[j]
      BY <2>1, <2>2, <2>4, <3>1, <3>2 DEF WentHome
    <3>3. CASE \A j \in 1..nt - 1 : p[1] \notin GTCs[j] /\ p[2] \notin GTCs[j]
      <4>1. \A j \in 1..nt : p[1] \notin GTCs[j] /\ p[2] \notin GTCs[j]
        <5>1. \A j \in 1..nt : j \in 1..nt - 1 \/ j = nt
          BY <1>0
        <5> QED BY <3>1, <3>3, <5>1
      <4>2. NeverMoved(p)'
        BY <1>0, <4>1 DEF NeverMoved
      <4> QED BY <2>1, <2>2, <2>4, <4>2
    <3> QED BY <3>2, <3>3
  <2> QED BY <2>3, <2>4
<1> QED BY <1>0, <1>2, <1>3, ContentKept DEF BlocksInv, RightContent, files

\* They stay right when neither they nor the loop's place among them change.
LEMMA BlocksKept ==
  ASSUME BlocksInv, UNCHANGED <<GTCs, files, PairMatrix, TBlocks, UBlocks, nt>>,
         found \subseteq found', Assembled' => Assembled,
         step' \in {"stamp", "solve"} <=> step \in {"stamp", "solve"}
  PROVE  BlocksInv'
<1> SUFFICES ASSUME 1 \notin found', Assembled' PROVE BlocksInv'
  BY DEF BlocksInv
<1>0. 1 \notin found /\ Assembled
  OBVIOUS
<1>1. ASSUME NEW ns \in Surfaces, Mate[ns] = 0
      PROVE  TBlocks'[ns] = Content(ns, ns, Position(ns, 1), Position(ns, 1))
  BY <1>0, <1>1 DEF BlocksInv
<1>2. ASSUME NEW p \in Pairs, PairMatrix[p] = None
      PROVE  /\ NeverMoved(p)' => UBlocks'[p] = Content(p[1], p[2], Layout[p[1]], Layout[p[2]])
             /\ step' \in {"stamp", "solve"} =>
                  UBlocks'[p] = Content(p[1], p[2], Position(p[1], nt), Position(p[2], nt)) \/ WentHome(p, nt)
  <2>1. NeverMoved(p)' <=> NeverMoved(p)
    BY DEF NeverMoved
  <2> QED BY <1>0, <1>2, <2>1 DEF BlocksInv, RightContent
<1> QED BY <1>1, <1>2, ContentKept DEF BlocksInv, RightContent, files

\* After the end of a transformation nothing is up to date yet.
LEMMA BlocksEnd ==
  ASSUME FilesInv, StepsInv, BlocksInv, Output, ~(n < NumExcitations)
  PROVE  BlocksInv'
<1>0. /\ nt' = nt + 1 /\ nt \in Nat /\ nt >= 1 /\ step' \in {"transformation", "done"}
      /\ UNCHANGED <<GTCs, files, PairMatrix, TBlocks, UBlocks, found>>
  BY EndFacts DEF EndTransformation, UnTransform, Output, StepsInv
<1> SUFFICES ASSUME 1 \notin found PROVE BlocksInv'
  BY <1>0 DEF BlocksInv
<1>1. nt > 1 \/ step = "solve"
  <2>1. at = "output" /\ (nt = 1 => ~HaveSolution)
    BY DEF Output, StepsInv
  <2> QED BY <1>0, <2>1 DEF StepsInv
<1>2. Assembled
  BY <1>1 DEF Assembled
<1>3. ASSUME NEW ns \in Surfaces, Mate[ns] = 0
      PROVE  TBlocks'[ns] = Content(ns, ns, Position(ns, 1), Position(ns, 1))
  BY <1>0, <1>2, <1>3 DEF BlocksInv
<1>4. ASSUME NEW p \in Pairs, PairMatrix[p] = None, NeverMoved(p)'
      PROVE  UBlocks'[p] = Content(p[1], p[2], Layout[p[1]], Layout[p[2]])
  <2>1. \A j \in 1..nt : p[1] \notin GTCs[j] /\ p[2] \notin GTCs[j]
    BY <1>0, <1>4 DEF NeverMoved
  <2>2. NeverMoved(p)
    BY <1>0, <2>1 DEF NeverMoved
  <2> QED BY <1>0, <1>2, <1>4, <2>2 DEF BlocksInv
<1> QED BY <1>0, <1>3, <1>4, ContentKept DEF BlocksInv, files

LEMMA BlocksStep ==
  FilesInv /\ StepsInv /\ PlaceInv /\ BlocksInv /\ [StaticNext]_allVars => BlocksInv'
<1> SUFFICES ASSUME FilesInv, StepsInv, PlaceInv, BlocksInv, [StaticNext]_allVars
             PROVE  BlocksInv'
  OBVIOUS
<1>1. CASE Accelerate
  <2>1. ~Assembled'
    BY <1>1 DEF Accelerate, CreateBMAccelerator, StepsInv, Assembled
  <2> QED BY <2>1 DEF BlocksInv
<1>2. CASE StartTransformation
  <2>1. /\ UNCHANGED <<GTCs, files, PairMatrix, TBlocks, UBlocks, nt, found>>
        /\ step = "transformation" /\ step' = "reassemble"
    BY <1>2 DEF StartTransformation, ApplyTransformation, Transform
  <2>2. Assembled' => Assembled
    BY <2>1 DEF Assembled
  <2> QED BY <2>1, <2>2, BlocksKept
<1>3. CASE UNCHANGED vars /\ found \subseteq found'
  <2>1. /\ UNCHANGED <<GTCs, files, PairMatrix, TBlocks, UBlocks, nt, step>>
        /\ Assembled' => Assembled
    BY <1>3 DEF vars, geometry, Assembled
  <2> QED BY <1>3, <2>1, BlocksKept
<1>4. CASE Reassemble
  <2>1. CASE AssembleBlocks
    BY <1>4, <2>1, AssembleIsRight DEF Reassemble
  <2>2. CASE StampBlocks
    <3>1. /\ UNCHANGED <<GTCs, files, PairMatrix, TBlocks, UBlocks, nt, found>>
          /\ step = "stamp" /\ step' = "solve"
      BY <1>4, <2>2 DEF Reassemble, StampBlocks, geometry
    <3>2. Assembled
      BY <3>1 DEF Assembled
    <3> QED BY <3>1, <3>2, BlocksKept
  <2> QED BY <1>4, <2>1, <2>2 DEF Reassemble
<1>5. CASE Output
  <2>1. CASE n < NumExcitations
    BY <1>3, <1>5, <2>1 DEF Output
  <2>2. CASE ~(n < NumExcitations)
    BY <1>5, <2>2, BlocksEnd
  <2> QED BY <2>1, <2>2
<1>6. CASE RunAgain
  <2>1. ~Assembled'
    BY <1>6 DEF RunAgain, Assembled
  <2> QED BY <2>1 DEF BlocksInv
<1>7. ReadHit \/ ReadMiss \/ UseSolution \/ LUSolve \/ CreateFile \/ WriteDataset \/ Finished
        \/ UNCHANGED allVars => UNCHANGED vars /\ found \subseteq found'
  BY DEF ReadHit, ReadMiss, UseSolution, LUSolve, CreateFile, WriteDataset, Finished, allVars, process
<1> QED BY <1>1, <1>2, <1>3, <1>4, <1>5, <1>6, <1>7 DEF StaticNext

\* The matrix to be solved is the one that was stamped from the blocks.
StampedEntry(a, b) ==
  IF a = b THEN Entry(TBlocks[Owner(a)], FALSE)
  ELSE IF a < b THEN Entry(UBlocks[Source(<<a, b>>).pair], Source(<<a, b>>).flip)
  ELSE Entry(UBlocks[Source(<<b, a>>).pair], ~Source(<<b, a>>).flip)
StampInv ==
  step = "solve" => \A ab \in Surfaces \X Surfaces : M[ab] = StampedEntry(ab[1], ab[2])

LEMMA StampInit == StaticInit => StampInv
BY DEF StaticInit, Init, StampInv

LEMMA StampStep == StampInv /\ [StaticNext]_allVars => StampInv'
<1> SUFFICES ASSUME StampInv, [StaticNext]_allVars, step' = "solve" PROVE StampInv'
  BY DEF StampInv
<1>1. CASE StampBlocks
  BY <1>1 DEF StampBlocks, StampInv, StampedEntry, Entry, Owner, Source, files
<1>2. CASE UNCHANGED vars
  BY <1>2 DEF StampInv, StampedEntry, Entry, Owner, Source, vars, files
<1>3. StampBlocks \/ UNCHANGED vars
  BY DEF StaticNext, Accelerate, StartTransformation, ReadHit, ReadMiss, Reassemble, UseSolution,
         LUSolve, CreateFile, WriteDataset, Output, RunAgain, Finished, CreateBMAccelerator,
         ApplyTransformation, AssembleBlocks, EndTransformation, allVars
<1> QED BY <1>1, <1>2, <1>3

-----------------------------------------------------------------------------
(* The matrix.                                                             *)

MatrixInv == FilesInv /\ StepsInv /\ PlaceInv /\ BlocksInv /\ StampInv

LEMMA MatrixInvariant == StaticSpec => []MatrixInv
<1>1. StaticInit => MatrixInv
  BY FilesInit, StepsInit, PlaceInit, BlocksInit, StampInit DEF MatrixInv
<1>2. MatrixInv /\ [StaticNext]_allVars => MatrixInv'
  BY FilesStep, StepsStep, PlaceStep, BlocksStep, StampStep DEF MatrixInv
<1> QED BY <1>1, <1>2, PTL DEF StaticSpec

\* Where a matrix is to be solved, the blocks have been assembled.
LEMMA SolveFacts ==
  ASSUME MatrixInv, step = "solve", 1 \notin found
  PROVE  /\ Assembled /\ nt \in 1..NumTransformations
         /\ UsePairEquivalence => nt = 1
         /\ \A ns \in Surfaces : Mate[ns] = 0 => TBlocks[ns] = Content(ns, ns, Position(ns, 1), Position(ns, 1))
         /\ \A p \in Pairs : PairMatrix[p] = None =>
              UBlocks[p] = RightContent(p[1], p[2]) \/ WentHome(p, nt)
         /\ \A p \in Pairs : PairMatrix[p] # None =>
              UsePairEquivalence /\ PairMatrix[p] = EquivalentTo(p)
<1>1. Assembled
  BY DEF Assembled
<1>2. nt \in 1..NumTransformations
  BY DEF MatrixInv, StepsInv
<1>3. UsePairEquivalence => nt = 1
  BY <1>2 DEF UsePairEquivalence
<1>4. \A ns \in Surfaces : Mate[ns] = 0 => TBlocks[ns] = Content(ns, ns, Position(ns, 1), Position(ns, 1))
  BY <1>1 DEF MatrixInv, BlocksInv
<1>5. \A p \in Pairs : PairMatrix[p] = None =>
        UBlocks[p] = RightContent(p[1], p[2]) \/ WentHome(p, nt)
  BY <1>1 DEF MatrixInv, BlocksInv
<1>6. \A p \in Pairs : PairMatrix[p] # None =>
        UsePairEquivalence /\ PairMatrix[p] = EquivalentTo(p)
  BY DEF MatrixInv, PlaceInv
<1> QED BY <1>1, <1>2, <1>3, <1>4, <1>5, <1>6

LEMMA StampFacts ==
  ASSUME MatrixInv, step = "solve", NEW a \in Surfaces, NEW b \in Surfaces
  PROVE  M[<<a, b>>] = StampedEntry(a, b)
<1> DEFINE ab == <<a, b>>
<1>1. ab \in Surfaces \X Surfaces /\ ab[1] = a /\ ab[2] = b
  OBVIOUS
<1>2. M[ab] = StampedEntry(ab[1], ab[2])
  BY <1>1 DEF MatrixInv, StampInv
<1> QED BY <1>1, <1>2

LEMMA DiagonalFacts ==
  ASSUME MatrixInv
  PROVE  DiagonalRight
<1> SUFFICES ASSUME 1 \notin found, step = "solve", ~Substrate, NEW a \in Surfaces
             PROVE  M[<<a, a>>] = Entry(RightContent(a, a), FALSE)
  BY DEF DiagonalRight, DiagonalCorrect
<1> DEFINE b == Owner(a)
<1>1. FilesInv /\ StampInv
  BY DEF MatrixInv
<1>2. M[<<a, a>>] = Entry(TBlocks[b], FALSE)
  BY StampFacts DEF StampedEntry
<1>3. b \in Surfaces /\ Mate[b] = 0 /\ Owner(b) = b
  BY <1>1, OwnerFacts
<1>4. nt \in 1..Len(GTCs) /\ 1 \in 1..Len(GTCs)
  BY <1>1, SolveFacts DEF NumTransformations, FilesInv
<1>5. TBlocks[b] = Content(b, b, Position(b, 1), Position(b, 1))
  BY <1>3, SolveFacts
<1>6. /\ Compose(Inverted(Position(b, 1)), Position(b, 1)) = Still
      /\ Compose(Inverted(Position(a, nt)), Position(a, nt)) = Still
  BY <1>1, <1>3, <1>4, PositionFacts, MotionFacts
<1>7. Content(b, b, Position(b, 1), Position(b, 1)) = RightContent(a, a)
  BY <1>3, <1>6 DEF Content, RightContent
<1> QED BY <1>2, <1>5, <1>7

\* The block of the pair that stands for p is the block of p, or of p turned round.
LEMMA SourceFacts ==
  ASSUME MatrixInv, step = "solve", 1 \notin found, NEW p \in Pairs,
         ~WentHome(p, nt), ~Chained(p), ~AtOtherHeight(p), ~OutOfOrder(p)
  PROVE  /\ Source(p).pair \in Pairs /\ Source(p).flip \in BOOLEAN
         /\ UBlocks[Source(p).pair] = IF Source(p).flip THEN RightContent(p[2], p[1])
                                     ELSE RightContent(p[1], p[2])
<1>1. CASE PairMatrix[p] = None
  <2>1. Source(p).pair = p /\ Source(p).flip = FALSE
    BY <1>1 DEF Source
  <2> QED BY <1>1, <2>1, SolveFacts
<1>2. CASE PairMatrix[p] # None
  <2> DEFINE e == EquivalentTo(p)
             f == FirstOf(e)
             s == SecondOf(e)
  <2>1. PairMatrix[p] = e /\ Source(p) = e /\ nt = 1 /\ e # None /\ ~Substrate
    BY <1>2, SolveFacts DEF Source, AtOtherHeight
  <2>2. FilesInv
    BY DEF MatrixInv
  <2>3. /\ e.pair \in Pairs /\ e.flip \in BOOLEAN
        /\ Owner(f) = Owner(p[1]) /\ Owner(s) = Owner(p[2]) /\ Seen(f, s) = Seen(p[1], p[2])
    <3>1. InPlace(p)
      BY <1>2, <2>1 DEF OutOfOrder, InPlace
    <3> QED BY <2>1, <2>2, <3>1, EquivalentFacts
  <2>4. PairMatrix[e.pair] = None
    BY <1>2, <2>1 DEF Chained
  <2>5. ~WentHome(e.pair, nt)
    BY <2>1 DEF WentHome
  <2>6. UBlocks[e.pair] = RightContent(e.pair[1], e.pair[2])
    BY <2>3, <2>4, <2>5, SolveFacts
  <2>7. /\ Told(f) = Position(f, nt) /\ Told(s) = Position(s, nt)
        /\ Told(p[1]) = Position(p[1], nt) /\ Told(p[2]) = Position(p[2], nt)
    <3>1. f \in {e.pair[1], e.pair[2]} /\ s \in {e.pair[1], e.pair[2]}
      BY DEF FirstOf, SecondOf
    <3> QED BY <1>2, <2>1, <3>1 DEF OutOfOrder
  <2>8. RightContent(f, s) = RightContent(p[1], p[2])
    BY <2>1, <2>3, <2>7 DEF RightContent, Content, Seen
  <2>9. RightContent(s, f) = RightContent(p[2], p[1])
    <3>1. /\ Position(p[1], nt) \in Motions /\ Position(p[2], nt) \in Motions
          /\ Position(f, nt) \in Motions /\ Position(s, nt) \in Motions
      <4>1. p[1] \in Surfaces /\ p[2] \in Surfaces /\ f \in Surfaces /\ s \in Surfaces
        BY <2>3 DEF Pairs, FirstOf, SecondOf
      <4>2. nt \in 1..Len(GTCs)
        BY SolveFacts DEF NumTransformations
      <4> QED BY <2>2, <4>1, <4>2, PositionFacts
    <3>2. Compose(Inverted(Position(f, nt)), Position(s, nt))
            = Compose(Inverted(Position(p[1], nt)), Position(p[2], nt))
      BY <2>3, <2>7 DEF Seen
    <3>3. Compose(Inverted(Position(s, nt)), Position(f, nt))
            = Compose(Inverted(Position(p[2], nt)), Position(p[1], nt))
      BY <3>1, <3>2, MotionFacts
    <3> QED BY <2>1, <2>3, <3>3 DEF RightContent, Content
  <2> HIDE DEF e
  <2>10. CASE e.flip
    BY <2>1, <2>3, <2>6, <2>9, <2>10 DEF FirstOf, SecondOf
  <2>11. CASE ~e.flip
    BY <2>1, <2>3, <2>6, <2>8, <2>11 DEF FirstOf, SecondOf
  <2> QED BY <2>3, <2>10, <2>11
<1> QED BY <1>1, <1>2

LEMMA OffDiagonalFacts ==
  ASSUME MatrixInv
  PROVE  OffDiagonalRight
<1> SUFFICES ASSUME 1 \notin found, step = "solve", NEW p \in Pairs,
                    ~WentHome(p, nt), ~Chained(p), ~AtOtherHeight(p), ~OutOfOrder(p)
             PROVE  /\ \/ IsBlockOf(M[<<p[1], p[2]>>], p[1], p[2])
                       \/ M[<<p[1], p[2]>>].transposed /\ ~Symmetric(p[1], p[2])
                    /\ \/ IsBlockOf(M[<<p[2], p[1]>>], p[2], p[1])
                       \/ M[<<p[2], p[1]>>].transposed /\ ~Symmetric(p[1], p[2])
  BY DEF OffDiagonalRight, OffDiagonalCorrect
<1> DEFINE a == p[1]
           b == p[2]
<1>1. a \in Surfaces /\ b \in Surfaces /\ a < b /\ p = <<a, b>> /\ a \in Int /\ b \in Int
  BY SurfaceFacts DEF Pairs
<1> HIDE DEF a, b
<1>2. M[<<a, b>>] = Entry(UBlocks[Source(p).pair], Source(p).flip)
  <2>1. M[<<a, b>>] = StampedEntry(a, b)
    BY <1>1, StampFacts
  <2>2. a # b
    BY <1>1
  <2> QED BY <1>1, <2>1, <2>2, Zenon DEF StampedEntry
<1>3. M[<<b, a>>] = Entry(UBlocks[Source(p).pair], ~Source(p).flip)
  <2>1. M[<<b, a>>] = StampedEntry(b, a)
    BY <1>1, StampFacts
  <2>2. a # b /\ ~(b < a)
    BY <1>1
  <2> QED BY <1>1, <2>1, <2>2, Zenon DEF StampedEntry
<1>4. Symmetric(a, b) <=> Symmetric(b, a)
  BY DEF Symmetric
<1>5. CASE Source(p).flip
  <2>1. UBlocks[Source(p).pair] = RightContent(b, a)
    BY <1>5, SourceFacts DEF a, b
  <2>2. Source(p).flip = TRUE /\ (~Source(p).flip) = FALSE
    BY <1>5, SourceFacts
  <2>3. M[<<a, b>>] = [block |-> RightContent(b, a), transposed |-> TRUE]
    BY <1>2, <2>1, <2>2 DEF Entry
  <2>4. M[<<b, a>>] = [block |-> RightContent(b, a), transposed |-> FALSE]
    BY <1>3, <2>1, <2>2 DEF Entry
  <2> QED BY <2>3, <2>4 DEF IsBlockOf, a, b
<1>6. CASE ~Source(p).flip
  <2>1. UBlocks[Source(p).pair] = RightContent(a, b)
    BY <1>6, SourceFacts DEF a, b
  <2>2. Source(p).flip = FALSE /\ (~Source(p).flip) = TRUE
    BY <1>6, SourceFacts
  <2>3. M[<<a, b>>] = [block |-> RightContent(a, b), transposed |-> FALSE]
    BY <1>2, <2>1, <2>2 DEF Entry
  <2>4. M[<<b, a>>] = [block |-> RightContent(a, b), transposed |-> TRUE]
    BY <1>3, <2>1, <2>2 DEF Entry
  <2> QED BY <1>4, <2>3, <2>4 DEF IsBlockOf, a, b
<1> QED BY <1>5, <1>6

\* What a block is assembled for is a content, and so it is not None.
LEMMA ContentIsContent ==
  ASSUME FilesInv, NEW a \in Surfaces, NEW b \in Surfaces, NEW k \in 1..Len(GTCs)
  PROVE  Content(a, b, Position(a, k), Position(b, k)) \in Contents
<1>1. Owner(a) \in Surfaces /\ Owner(b) \in Surfaces
  BY OwnerFacts
<1>2. Position(a, k) \in Motions /\ Position(b, k) \in Motions
  BY PositionFacts
<1>3. Compose(Inverted(Position(a, k)), Position(b, k)) \in Motions /\ Still \in Motions
  BY <1>2, MotionFacts
<1> QED BY <1>1, <1>2, <1>3 DEF Content, Contents

\* The blocks of every pair have been assembled, or the block of the pair that
\* stands for it.
LEMMA CompleteFacts ==
  ASSUME MatrixInv, step = "solve", 1 \notin found, nt = 1, ~SomeChain
  PROVE  Complete
<1>1. FilesInv
  BY DEF MatrixInv
<1>2. ASSUME NEW a \in Surfaces
      PROVE  TBlocks[Owner(a)] # None
  <2>1. Owner(a) \in Surfaces /\ Mate[Owner(a)] = 0
    BY <1>1, OwnerFacts
  <2>2. TBlocks[Owner(a)] = Content(Owner(a), Owner(a), Position(Owner(a), 1), Position(Owner(a), 1))
    BY <2>1, SolveFacts
  <2>3. TBlocks[Owner(a)] \in Contents
    BY <1>1, <2>1, <2>2, ContentIsContent DEF FilesInv
  <2> QED BY <2>3, NoneAssumption
<1>3. ASSUME NEW p \in Pairs
      PROVE  UBlocks[Source(p).pair] # None
  <2> DEFINE q == Source(p).pair
  <2>1. q \in Pairs /\ PairMatrix[q] = None
    <3>1. CASE PairMatrix[p] = None
      BY <3>1 DEF Source
    <3>2. CASE PairMatrix[p] # None
      <4>1. UsePairEquivalence /\ PairMatrix[p] = EquivalentTo(p) /\ EquivalentTo(p) # None
            /\ q = EquivalentTo(p).pair
        BY <3>2, SolveFacts DEF Source
      <4>2. q \in Pairs
        BY <1>1, <4>1, EquivalentFacts
      <4>3. EquivalentTo(q) = None
        BY <4>1 DEF SomeChain
      <4>4. PairMatrix[q] = None
        BY <4>2, <4>3, SolveFacts
      <4> QED BY <4>2, <4>4
    <3> QED BY <3>1, <3>2
  <2>2. ~WentHome(q, nt)
    BY DEF WentHome
  <2>3. UBlocks[q] = RightContent(q[1], q[2])
    BY <2>1, <2>2, SolveFacts
  <2>4. q[1] \in Surfaces /\ q[2] \in Surfaces
    BY <2>1 DEF Pairs
  <2>5. UBlocks[q] \in Contents
    BY <1>1, <2>3, <2>4, ContentIsContent DEF RightContent, FilesInv
  <2> QED BY <2>5, NoneAssumption
<1>4. ASSUME NEW a \in Surfaces, NEW b \in Surfaces
      PROVE  M[<<a, b>>].block # None
  <2>0. M[<<a, b>>] = StampedEntry(a, b) /\ a \in Int /\ b \in Int
    BY StampFacts, SurfaceFacts
  <2>1. CASE a = b
    BY <1>2, <2>0, <2>1 DEF StampedEntry, Entry
  <2>2. CASE a < b
    <3>1. <<a, b>> \in Pairs
      BY <2>2 DEF Pairs
    <3>2. M[<<a, b>>].block = UBlocks[Source(<<a, b>>).pair]
      BY <2>0, <2>2 DEF StampedEntry, Entry
    <3> QED BY <1>3, <3>1, <3>2
  <2>3. CASE b < a
    <3>1. <<b, a>> \in Pairs
      BY <2>3 DEF Pairs
    <3>2. M[<<a, b>>].block = UBlocks[Source(<<b, a>>).pair]
      BY <2>0, <2>3 DEF StampedEntry, Entry
    <3> QED BY <1>3, <3>1, <3>2
  <2> QED BY <2>0, <2>1, <2>2, <2>3
<1> QED BY <1>4 DEF Complete

-----------------------------------------------------------------------------
(* The solution file.                                                      *)

Datasets == [label : Transformations, sol : Solutions]

\* Only the first transformation's solution is ever written: behind it the file
\* holds a solution or is left open.
FileInv ==
  /\ HasDataset => /\ file \in Datasets /\ file.label = 1 /\ file.sol.nt = 1
                   /\ file.sol.complete \/ SomeChain
  /\ nt > 1 \/ at = "output" => leaked \/ HasDataset
  /\ at \in {"excite", "output"} /\ HaveSolution => HasDataset
  /\ nt > 1 /\ (at \in {"assemble", "write"} \/ (at \in {"excite", "output"} /\ ~HaveSolution))
       => leaked
  /\ at = "writing" => nt = 1

\* The solution vector is that of the transformation and excitation at hand.
SigmaInv ==
  /\ at \in {"write", "writing", "output"} \/ (at = "excite" /\ HaveSolution) =>
       Sigma \in Solutions /\ Sigma.nt = nt
  /\ at \in {"write", "writing"} \/ (at = "output" /\ ~HaveSolution) => Sigma.n = n
  /\ at \in {"write", "writing"} /\ nt = 1 => Sigma.complete \/ SomeChain

LEMMA FileInit == StaticInit => FileInv /\ SigmaInv
BY DEF StaticInit, Init, FileInv, SigmaInv, HasDataset

LEMMA SomeChainKept ==
  ASSUME UNCHANGED <<GTCs, files>>
  PROVE  SomeChain' <=> SomeChain
BY EquivalentToKept DEF SomeChain, UsePairEquivalence, NumTransformations

LEMMA SigmaStep ==
  MatrixInv /\ FileInv /\ SigmaInv /\ [StaticNext]_allVars => SigmaInv'
<1> SUFFICES ASSUME MatrixInv, FileInv, SigmaInv, [StaticNext]_allVars PROVE SigmaInv'
  OBVIOUS
<1>0. FilesInv /\ StepsInv
  BY DEF MatrixInv
<1>1. UNCHANGED <<GTCs, files>> => (SomeChain' <=> SomeChain)
  BY SomeChainKept
<1>2. CASE Accelerate \/ StartTransformation \/ RunAgain
  <2>1. at' \in {"loop", "lookup"}
    BY <1>0, <1>2 DEF Accelerate, CreateBMAccelerator, process, StepsInv, BetweenSteps,
                      StartTransformation, RunAgain
  <2> QED BY <2>1 DEF SigmaInv
<1>3. CASE ReadHit
  <2>1. /\ Sigma' = file.sol /\ HaveSolution' = TRUE /\ at' = "excite" /\ nt' = nt
        /\ HasDataset /\ file.label = nt
    BY <1>3 DEF ReadHit, vars
  <2>2. file.sol \in Solutions /\ file.sol.nt = nt
    BY <2>1 DEF FileInv, Datasets
  <2> QED BY <2>1, <2>2 DEF SigmaInv
<1>4. CASE ReadMiss
  BY <1>4 DEF ReadMiss, SigmaInv
<1>5. CASE Reassemble
  <2>1. at' \in {"assemble", "excite"} /\ HaveSolution' = HaveSolution /\ ~HaveSolution
    BY <1>0, <1>5 DEF Reassemble, StepsInv
  <2> QED BY <2>1 DEF SigmaInv
<1>6. CASE UseSolution
  <2>1. /\ at = "excite" /\ HaveSolution /\ at' = "output"
        /\ UNCHANGED <<HaveSolution, Sigma, nt>>
    BY <1>6 DEF UseSolution, vars
  <2> QED BY <2>1 DEF SigmaInv
<1>7. CASE LUSolve
  <2>1. /\ at = "excite" /\ ~HaveSolution /\ at' = "write" /\ Sigma' = Solution(nt, n, Complete)
        /\ UNCHANGED <<HaveSolution, nt, n, GTCs, files>>
    BY <1>7 DEF LUSolve, vars, geometry
  <2>2. step = "solve" /\ nt \notin found /\ n \in 1..NumExcitations /\ nt \in Transformations
    <3>1. step = "solve" /\ nt \notin found /\ n \in 1..NumExcitations
      BY <1>0, <2>1 DEF StepsInv
    <3>2. nt \in 1..Len(GTCs)
      BY <1>0, <3>1 DEF StepsInv, NumTransformations
    <3> QED BY <1>0, <3>1, <3>2, GeometryAssumption DEF FilesInv, Transformations
  <2>3. Complete \in BOOLEAN /\ (nt = 1 => Complete \/ SomeChain)
    BY <2>2, CompleteFacts DEF Complete
  <2>4. Sigma' \in Solutions /\ Sigma'.nt = nt /\ Sigma'.n = n /\ Sigma'.complete = Complete
    BY <2>1, <2>2, <2>3 DEF Solution, Solutions
  <2> QED BY <1>1, <2>1, <2>3, <2>4 DEF SigmaInv
<1>8. CASE CreateFile \/ WriteDataset
  <2>1. /\ at \in {"write", "writing"} /\ at' \in {"writing", "output"}
        /\ UNCHANGED <<HaveSolution, Sigma, nt, n, GTCs, files>>
    BY <1>8 DEF CreateFile, WriteDataset, vars, geometry
  <2> QED BY <1>1, <2>1 DEF SigmaInv
<1>9. CASE Output
  <2>1. CASE n < NumExcitations
    <3>1. /\ at = "output" /\ at' = "excite" /\ UNCHANGED <<HaveSolution, Sigma, nt>>
      BY <1>9, <2>1 DEF Output, vars
    <3> QED BY <3>1 DEF SigmaInv
  <2>2. CASE ~(n < NumExcitations)
    BY <1>9, <2>2 DEF Output, SigmaInv
  <2> QED BY <2>1, <2>2
<1>10. CASE Finished \/ UNCHANGED allVars
  <2>1. UNCHANGED <<at, HaveSolution, Sigma, nt, n, GTCs, files>>
    BY <1>10 DEF Finished, allVars, vars, geometry, process
  <2> QED BY <1>1, <2>1 DEF SigmaInv
<1> QED BY <1>2, <1>3, <1>4, <1>5, <1>6, <1>7, <1>8, <1>9, <1>10 DEF StaticNext

LEMMA FileStep ==
  MatrixInv /\ FileInv /\ SigmaInv /\ [StaticNext]_allVars => FileInv'
<1> SUFFICES ASSUME MatrixInv, FileInv, SigmaInv, [StaticNext]_allVars PROVE FileInv'
  OBVIOUS
<1> USE DEF HasDataset
<1>0. FilesInv /\ StepsInv
  BY DEF MatrixInv
<1>1. /\ UNCHANGED <<GTCs, files>>
      /\ SomeChain' <=> SomeChain
  <2>1. UNCHANGED <<GTCs, files>>
    BY DEF StaticNext, Accelerate, StartTransformation, ReadHit, ReadMiss, Reassemble, UseSolution,
         LUSolve, CreateFile, WriteDataset, Output, RunAgain, Finished, CreateBMAccelerator,
         ApplyTransformation, Transform, AssembleBlocks, StampBlocks, EndTransformation,
         UnTransform, allVars, vars, geometry
  <2> QED BY <2>1, SomeChainKept
<1>2. CASE Accelerate
  <2>1. /\ at = "loop" /\ UNCHANGED <<file, nt, at, HaveSolution, leaked>>
    BY <1>0, <1>2 DEF Accelerate, CreateBMAccelerator, process, StepsInv, BetweenSteps
  <2> QED BY <1>1, <2>1 DEF FileInv
<1>3. CASE StartTransformation
  <2>1. /\ at' = "lookup" /\ UNCHANGED <<file, nt, HaveSolution, leaked>>
    BY <1>3 DEF StartTransformation, ApplyTransformation
  <2> QED BY <1>1, <2>1 DEF FileInv
<1>4. CASE ReadHit
  <2>1. /\ HasDataset /\ HaveSolution' = TRUE /\ at' = "excite" /\ UNCHANGED <<file, nt, leaked>>
    BY <1>4 DEF ReadHit, vars
  <2> QED BY <1>1, <2>1 DEF FileInv
<1>5. CASE ReadMiss
  <2>1. /\ at' = "assemble" /\ UNCHANGED <<file, nt>>
        /\ leaked' = TRUE \/ (leaked' = leaked /\ ~HasDataset)
    BY <1>5 DEF ReadMiss, vars
  <2> QED BY <1>1, <2>1 DEF FileInv
<1>6. CASE Reassemble
  <2>1. /\ at = "assemble" /\ at' \in {"assemble", "excite"}
        /\ UNCHANGED <<file, nt, leaked, HaveSolution>> /\ ~HaveSolution
    BY <1>0, <1>6 DEF Reassemble, AssembleBlocks, StampBlocks, StepsInv
  <2> QED BY <1>1, <2>1 DEF FileInv
<1>7. CASE UseSolution
  <2>1. /\ at = "excite" /\ HaveSolution /\ at' = "output"
        /\ UNCHANGED <<file, nt, leaked, HaveSolution>>
    BY <1>7 DEF UseSolution, vars
  <2> QED BY <1>1, <2>1 DEF FileInv
<1>8. CASE LUSolve
  <2>1. /\ at = "excite" /\ ~HaveSolution /\ at' = "write"
        /\ UNCHANGED <<file, nt, leaked, HaveSolution>>
    BY <1>8 DEF LUSolve, vars
  <2> QED BY <1>1, <2>1 DEF FileInv
<1>9. CASE CreateFile
  <2>0. /\ at = "write" /\ ~HaveSolution /\ nt \in Nat /\ nt >= 1
        /\ UNCHANGED <<nt, leaked, HaveSolution>>
    BY <1>0, <1>9 DEF CreateFile, StepsInv, vars
  <2>1. CASE leaked
    <3>1. at' = "output" /\ file' = file
      BY <1>9, <2>1 DEF CreateFile
    <3> QED BY <1>1, <2>0, <2>1, <3>1 DEF FileInv
  <2>2. CASE ~leaked
    <3>1. at' = "writing" /\ file' = Broken /\ nt = 1
      BY <1>9, <2>0, <2>2 DEF CreateFile, FileInv
    <3> QED BY <1>1, <2>0, <2>2, <3>1 DEF FileInv
  <2> QED BY <2>1, <2>2
<1>10. CASE WriteDataset
  <2>1. /\ at = "writing" /\ at' = "output" /\ file' = Dataset(nt, Sigma)
        /\ UNCHANGED <<nt, leaked, HaveSolution>> /\ nt = 1
    BY <1>10 DEF WriteDataset, vars, FileInv
  <2>2. Sigma \in Solutions /\ Sigma.nt = 1 /\ (Sigma.complete \/ SomeChain)
    BY <2>1 DEF SigmaInv
  <2>3. 1 \in Transformations
    BY GeometryAssumption DEF Transformations
  <2>4. file' \in Datasets /\ file'.label = 1 /\ file'.sol = Sigma
    BY <2>1, <2>2, <2>3 DEF Dataset, Datasets
  <2>5. file' \notin {Absent, Broken}
    BY <2>4, RunsAssumption DEF Datasets
  <2> QED BY <1>1, <2>1, <2>2, <2>4, <2>5 DEF FileInv
<1>11. CASE Output
  <2>1. CASE n < NumExcitations
    <3>1. /\ at = "output" /\ at' = "excite" /\ UNCHANGED <<file, nt, leaked, HaveSolution>>
      BY <1>11, <2>1 DEF Output, vars
    <3>2. nt > 1 /\ ~HaveSolution => leaked
      BY <3>1 DEF FileInv
    <3> QED BY <1>1, <3>1, <3>2 DEF FileInv
  <2>2. CASE ~(n < NumExcitations)
    <3>1. /\ at = "output" /\ at' = "loop" /\ UNCHANGED <<file, leaked, HaveSolution>>
      BY <1>11, <2>2 DEF Output
    <3> QED BY <1>1, <3>1 DEF FileInv
  <2> QED BY <2>1, <2>2
<1>12. CASE RunAgain
  <2>1. at' = "loop" /\ nt' = 1 /\ file' = file
    BY <1>12 DEF RunAgain
  <2> QED BY <1>1, <2>1 DEF FileInv
<1>13. CASE Finished \/ UNCHANGED allVars
  <2>1. UNCHANGED <<file, at, HaveSolution, nt, leaked>>
    BY <1>13 DEF Finished, allVars, vars, process
  <2> QED BY <1>1, <2>1 DEF FileInv
<1> QED BY <1>2, <1>3, <1>4, <1>5, <1>6, <1>7, <1>8, <1>9, <1>10, <1>11, <1>12, <1>13
        DEF StaticNext

-----------------------------------------------------------------------------
(* What holds of every run.                                                *)

IInv == MatrixInv /\ FileInv /\ SigmaInv

LEMMA Invariant == StaticSpec => []IInv
<1>1. StaticInit => FileInv /\ SigmaInv
  BY FileInit
<1>2. MatrixInv /\ FileInv /\ SigmaInv /\ [StaticNext]_allVars => FileInv' /\ SigmaInv'
  BY FileStep, SigmaStep
<1> QED BY <1>1, <1>2, MatrixInvariant, PTL DEF StaticSpec, IInv

\* The loops count within their bounds, the geometry is at home between two
\* transformations, equivalent pairs are other pairs above the diagonal and the file
\* is absent, broken or a labelled solution.
THEOREM TypeCorrect == StaticSpec => []StaticTypeOK
<1>1. IInv => StaticTypeOK
  <2> SUFFICES ASSUME IInv PROVE StaticTypeOK
    OBVIOUS
  <2>1. FilesInv /\ StepsInv /\ PlaceInv /\ FileInv /\ SigmaInv
    BY DEF IInv, MatrixInv
  <2>2. \A p \in Pairs : PairMatrix[p] # None => PairMatrix[p].pair \in Pairs \ {p}
    <3> SUFFICES ASSUME NEW p \in Pairs, PairMatrix[p] # None
                 PROVE  PairMatrix[p].pair \in Pairs \ {p}
      OBVIOUS
    <3>1. PairMatrix[p] = EquivalentTo(p) /\ EquivalentTo(p) # None
      BY <2>1 DEF PlaceInv
    <3> QED BY <2>1, <3>1, EquivalentFacts
  <2>3. step = "transformation" => nt <= NumTransformations /\ GT = Home /\ Vertices = Layout
    BY <2>1 DEF StepsInv, PlaceInv, BetweenSteps
  <2>4. TypeOK
    BY <2>1, <2>2, <2>3 DEF TypeOK, StepsInv, BetweenSteps
  <2>5. at = "output" => Sigma # None
    BY <2>1, RunsAssumption DEF SigmaInv
  <2>6. HasDataset => file.label \in 1..NumTransformations
    BY <2>1 DEF FileInv, FilesInv, NumTransformations
  <2>7. /\ at \in {"loop", "lookup", "assemble", "excite", "write", "writing", "output"}
        /\ at = "loop" <=> step \in {"create", "transformation", "done"}
        /\ at \in {"write", "writing"} => step = "solve"
        /\ run \in 1..MaxRuns /\ n \in 1..NumExcitations
    BY <2>1 DEF StepsInv, BetweenSteps
  <2> QED BY <2>4, <2>5, <2>6, <2>7 DEF StaticTypeOK
<1> QED BY <1>1, Invariant, PTL

\* Without a substrate the diagonal blocks that the solver factorizes are those of
\* the geometry at hand, if the first transformation's were assembled in this run.
THEOREM DiagonalBlocks == StaticSpec => []DiagonalRight
BY MatrixInvariant, DiagonalFacts, PTL

\* So are all others, above and below the diagonal, whether they were assembled for
\* this transformation, kept from an earlier one or taken from an equivalent pair;
\* with the exceptions the property names.
THEOREM OffDiagonalBlocks == StaticSpec => []OffDiagonalRight
BY MatrixInvariant, OffDiagonalFacts, PTL

\* Outputs are computed from a solution for the transformation they are written
\* under, after any number of runs and kills.
THEOREM OutputIsRight == StaticSpec => []OutputRight
<1>1. IInv => OutputRight
  BY DEF IInv, SigmaInv, OutputRight
<1> QED BY <1>1, Invariant, PTL

\* What the file holds is the solution its label names, and was computed from
\* assembled blocks only, unless equivalences chain.
THEOREM DatasetIsRight == StaticSpec => []DatasetRight
<1>1. IInv => DatasetRight
  BY DEF IInv, FileInv, DatasetRight
<1> QED BY <1>1, Invariant, PTL

\* It is the first transformation's: no run finds another one.
THEOREM FirstIsKept == StaticSpec => []FirstKept
<1>1. IInv => FirstKept
  BY DEF IInv, FileInv, FirstKept
<1> QED BY <1>1, Invariant, PTL

=============================================================================
