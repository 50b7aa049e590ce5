----------------------------- MODULE TexelWalk -----------------------------
(***************************************************************************)
(* A walk over the texels of the planet from neighbor to neighbor: every   *)
(* step that the flood fill of main.cpp may take, from any texel.          *)
(***************************************************************************)
EXTENDS TexelGrid

VARIABLE
  texel       \* the texel the walk is at

Init == texel \in Texels
Step == \E k \in 1 .. 8 : texel' = Neighbor(texel, k)
Next == Step
Spec == Init /\ [][Next]_texel

---------------------------------------------------------------------------
\* A walk never leaves the faces: whatever neighbor is asked for, over an edge
\* or past a corner, AdjustCoords returns a texel that exists.
TypeOK == texel \in Texels

Edge(e, p) == Beyond(Width, e, p) = 0

\* The tables and CrossEdge agree with the geometry of GetPlanetaryVector: a
\* texel on an edge, renamed as a texel of the face across (CrossEdge with
\* n = 0), is the same point of the cube.
EdgesShared ==
  \A e \in Edges : Edge(e, texel) =>
    CubePoint(Width, CrossEdge(Width, e, texel, 0)) = CubePoint(Width, texel)

\* Looking at a texel from the face across any edge and then back across the
\* edge NeighborEdge names gives the texel back, also where the intermediate
\* coordinates lie outside their face.
ThereAndBack ==
  \A e \in Edges :
    GetNeighborCoordinates(Width, NeighborEdge(texel.face, e),
                           GetNeighborCoordinates(Width, e, texel)) = texel

\* Faces fit together: both views of an edge are views of the same texels.
FacesFit == EdgesShared /\ ThereAndBack

\* Being neighbors is mutual, up to the name of a texel on a shared edge.  A
\* flood fill depends on it: the land a texel belongs to must not depend on
\* where the fill started.
NeighborsMutual ==
  \A q \in Neighbors(texel) : \E p \in Neighbors(q) :
    CubePoint(Width, p) = CubePoint(Width, texel)

Distance(u, v) ==
  CHOOSE n \in {Abs(u.x - v.x), Abs(u.y - v.y), Abs(u.z - v.z)} :
    /\ n >= Abs(u.x - v.x) /\ n >= Abs(u.y - v.y) /\ n >= Abs(u.z - v.z)

\* No step jumps: neighbors are at most one texel (2 units of the cube)
\* apart, across edges and corners too, and no step stays at the same point.
StepsAreShort ==
  [][LET d == Distance(CubePoint(Width, texel), CubePoint(Width, texel'))
     IN  d = 2]_texel
===========================================================================
