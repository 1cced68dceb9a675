------------------------ MODULE TransformedGeometry ------------------------
(***************************************************************************)
(* The geometry that every application's loop over the transformations of  *)
(* a .trans file shares: the position of each surface and the two          *)
(* operations on it, RWGGeometry::Transform and RWGGeometry::UnTransform.  *)
(*                                                                         *)
(* GTCs[nt] is the set of surfaces that transformation nt moves; different *)
(* transformations move a surface to different places.  GT[ns] is the      *)
(* transformation RWGSurface::GT accumulates since the surface was last    *)
(* at its original place: the transformations applied to it, in order.     *)
(***************************************************************************)
EXTENDS Naturals, Sequences

CONSTANTS NS,            \* surfaces, in the order of the .scuffgeo file
          NT,            \* transformations of a .trans file, at most
          TransFiles     \* which surfaces they may move

Surfaces == 1..NS
Transformations == 1..NT
Pairs == { p \in Surfaces \X Surfaces : p[1] < p[2] }   \* above-diagonal blocks

ASSUME GeometryAssumption ==
  /\ NS \in Nat /\ NT \in Nat \ {0}
  /\ TransFiles \subseteq UNION { [1..k -> SUBSET Surfaces] : k \in Transformations }

VARIABLES GTCs, GT, SurfaceMoved

geometry == <<GTCs, GT, SurfaceMoved>>

Home == [ns \in Surfaces |-> <<>>]

GeometryInit == GTCs \in TransFiles /\ GT = Home /\ SurfaceMoved = {}

Transform(nt) ==
  /\ GT' = [ns \in Surfaces |-> IF ns \in GTCs[nt] THEN Append(GT[ns], nt) ELSE GT[ns]]
  /\ SurfaceMoved' = GTCs[nt]
  /\ UNCHANGED GTCs

\* SurfaceMoved still tells which surfaces the last transformation moved.
UnTransform == GT' = Home /\ UNCHANGED <<GTCs, SurfaceMoved>>

\* What the documentation promises of transformation nt: the surfaces it names
\* are moved from their original places, the others are there.
Place(ns, nt) == IF ns \in GTCs[nt] THEN <<nt>> ELSE <<>>

\* Transformation k leaves both surfaces at home, after an earlier one moved one
\* of them.
WentHome(p, k) ==
  /\ p[1] \notin GTCs[k] /\ p[2] \notin GTCs[k]
  /\ \E j \in 1..(k - 1) : p[1] \in GTCs[j] \/ p[2] \in GTCs[j]

\* The matrix block that couples two surfaces: the frequency and the places it
\* was assembled for.
Block(freq, here, there) == [freq |-> freq, row |-> here, col |-> there]
BlockAt(freq, p) == Block(freq, GT[p[1]], GT[p[2]])
RightBlock(freq, p, nt) == Block(freq, Place(p[1], nt), Place(p[2], nt))
=============================================================================
