------------------------------ MODULE ClipMap ------------------------------
(***************************************************************************)
(* Which patches of the planet are drawn for a camera position: the first  *)
(* half of onIdle in main.cpp.  Every level is a square grid of the same   *)
(* number of quads, half as wide as the level above it, centered beneath   *)
(* the camera, with a hole where the next level is drawn.  Where a level   *)
(* reaches over an edge of the face, the face across draws it as well.     *)
(*                                                                         *)
(* The state is the camera of VectorWalk and the deepest level it is near  *)
(* enough for.  Positions are integers: a unit of level l is two of its    *)
(* quads, Factor(l) units of the deepest level.                            *)
(***************************************************************************)
EXTENDS VectorWalk, ClipMesh

CONSTANT MaxLevels   \* MAX_LEVELS
ASSUME LevelsAssumption == MaxLevels \in Nat /\ MaxLevels >= 2

VARIABLE deepest     \* the deepest level whose distance test is passed (0 if none)
vars == <<v, win64, deepest>>

MaxScale == NodeWidth * 2^(MaxLevels - 2)
Levels == 1 .. MaxLevels - 1

\* MaxCoord units of a face are W / Fine units of the deepest level: Fine positions of
\* the camera are told apart within each.
W == MaxCoord
Fine == MaxCoord \div MaxScale
ASSUME FineAssumption == MaxCoord % MaxScale = 0 /\ MaxCoord >= MaxScale

\* The point beneath the camera: front, dx and dy.
at == Found

\* A division or a cast to int truncates towards 0.
Trunc(n, d) == IF n < 0 THEN -((-n) \div d) ELSE n \div d
Each(c, d) == [x |-> Trunc(c.x, d), y |-> Trunc(c.y, d)]

Init == CameraInit /\ deepest = 0

\* The camera moves a little, over edges and corners too.
Move == CameraMove /\ UNCHANGED deepest
\* The camera comes nearer or goes away.
Zoom == deepest' \in {deepest - 1, deepest + 1} \cap (0 .. MaxLevels - 1) /\ UNCHANGED camera
Next == Move \/ Zoom
Spec == Init /\ [][Next]_vars

---------------------------------------------------------------------------
Factor(level) == 2^(MaxLevels - 1 - level)

\* The center of a level on the face beneath the camera.
FrontCenter(level) == Each(Each(at, Fine), Factor(level))

\* Does a level reach over an edge of that face (by more than 0.001 of it)?
Overlaps(e, level) ==
  LET c == FrontCenter(level)
      face == NodeHalf * 2^level
  IN  CASE e = "left"   -> (NodeFourth - c.x) * 1000 > face
        [] e = "top"    -> (NodeFourth - c.y) * 1000 > face
        [] e = "right"  -> (c.x + NodeFourth) * 1000 > 1001 * face
        [] e = "bottom" -> (c.y + NodeFourth) * 1000 > 1001 * face

\* neighborLevels: the levels the face across e has to draw.
NeighborLevels(e) == {level \in 1 .. deepest : Overlaps(e, level)}

\* neighborPos: the point beneath the camera in the coordinates of that face.
NeighborPos(e) == Each(GetNeighborCoordinates(W, e, at), Fine)

\* Mutant: no widening for the corners.
WidenedNever(level, c, d) == c

\* If another neighbor draws the level too and comes closer to the middle of
\* its face, the level is drawn as far on this face.
Widened(level, c, d) ==
  LET Mid == (MaxScale \div Factor(level)) \div 2
      ox == Abs(Mid - c.x)
      oy == Abs(Mid - c.y)
      other == IF Abs(Mid - d.x) > Abs(Mid - d.y) THEN Abs(Mid - d.x) ELSE Abs(Mid - d.y)
      pulled(k, o) == IF k > Mid THEN k - (o - other) ELSE k - (other - o)
  IN  IF ox > oy /\ other < ox THEN [c EXCEPT !.x = pulled(@, ox)]
      ELSE IF oy > ox /\ other < oy THEN [c EXCEPT !.y = pulled(@, oy)]
      ELSE c

\* The center of a level on the face across e: its own place, widened for each
\* of the other edges in turn.
OwnCenter(e, level) == Each(NeighborPos(e), Factor(level))
WidenedFor(f, e, level, c) ==
  IF f = e \/ level \notin NeighborLevels(f) THEN c ELSE Widened(level, c, OwnCenter(f, level))
NeighborCenter(e, level) ==
  LET by(f, c) == WidenedFor(f, e, level, c)
  IN  by("left", by("bottom", by("right", by("top", OwnCenter(e, level)))))

\* Mutant: level 0 treated like a level that moves.
HoleOffsetByParity(level, c) ==
  LET off(k) == IF k % 2 = 0 THEN 0 ELSE IF k > 0 THEN 1 ELSE -1
  IN  [x |-> off(c.x), y |-> off(c.y)]

\* How far the hole for a level with center c is off the center of its parent,
\* in quads of the parent.  Level 0 does not move; the others follow the
\* camera, so the hole is centered or off by one.
HoleOffset(level, c) ==
  LET off(k) == IF level = 1 THEN k - NodeHalf
                ELSE IF k % 2 = 0 THEN 0 ELSE IF k > 0 THEN 1 ELSE -1
  IN  [x |-> off(c.x), y |-> off(c.y)]

\* The whole of faceData: the patches of the face beneath the camera and of its
\* four neighbors, each with the level drawn in its hole (0 if it has none).
Patch(side, level, child) == [side |-> side, level |-> level, child |-> child]
DrawnOn(side) == IF side = "front" THEN 1 .. deepest ELSE NeighborLevels(side)
Deeper(side, level) == {l \in DrawnOn(side) : l > level}
Child(side, level) ==
  IF Deeper(side, level) = {} THEN 0
  ELSE CHOOSE l \in Deeper(side, level) : \A k \in Deeper(side, level) : l <= k
Patches ==
  UNION {{Patch(side, level, Child(side, level)) : level \in DrawnOn(side) \cup {0}} :
           side \in Edges \cup {"front"}}

\* Level 0 goes from (0, 0) to (1, 1).
Center(side, level) ==
  IF level = 0 THEN [x |-> NodeFourth, y |-> NodeFourth]
  ELSE IF side = "front" THEN FrontCenter(level) ELSE NeighborCenter(side, level)

---------------------------------------------------------------------------
\* Every vector finds a point of its face, and the patches fit faceData.
TypeOK == /\ v \in Vectors /\ win64 \in BOOLEAN /\ deepest \in 0 .. MaxLevels - 1
          /\ at \in [face : Faces, x : 0 .. W, y : 0 .. W]
          /\ Cardinality(Patches) <= MaxLevels * Cardinality(Faces)

\* The patches fit the array that the shader declares for them, "face[MAX_LEVELS]"
\* (VKTest.glfx:21).
PatchesDeclared == Cardinality(Patches) <= MaxLevels

\* A hole is exactly where its child is drawn: no gap, nothing drawn twice.
HoleFits(p) ==
  LET c == Center(p.side, p.child)
      q == Center(p.side, p.level)
      off == HoleOffset(p.child, c)
  IN  off.x = c.x - 2 * q.x /\ off.y = c.y - 2 * q.y
HolesFit == \A p \in Patches : p.child # 0 => p.child = p.level + 1 /\ HoleFits(p)

\* vHole: the corner of the hole in p, in vertices of p.
HoleOf(p) ==
  LET off == HoleOffset(p.child, Center(p.side, p.child))
  IN  [x |-> NodeFourth + off.x, y |-> NodeFourth + off.y]

\* "The top row skips odd edge vertices to avoid cracks in mesh at border with
\* parent node" (main.cpp:215): the mesh is without cracks in itself, and where a
\* hole does not touch the rim of its level, which it never does below level 0,
\* the level ends where its child begins, vertex for vertex.
SewnAt == [h \in InnerHoles |-> Sewn(h)]
MeshSewn ==
  /\ Tiled
  /\ \A p \in {q \in Patches : q.child # 0} :
       /\ p.level > 0 => HoleOf(p) \in InnerHoles
       /\ HoleOf(p) \in InnerHoles => SewnAt[HoleOf(p)]

\* Nothing outside a hole is dropped.  The code does not keep it for a hole of level
\* 0 over an edge of the face: a triangle of the rim is two quads wide, and is dropped
\* whole where the hole ends in its middle.
NothingDropped ==
  \A p \in {q \in Patches : q.child # 0} :
    LET h == HoleOf(p) IN
    \A t \in Triangles \ Kept(h) : \A k \in 1 .. 3 :
      /\ h.x <= Column(t[k]) /\ Column(t[k]) <= h.x + NodeHalf
      /\ h.y <= Row(t[k]) /\ Row(t[k]) <= h.y + NodeHalf

\* The stretch of edge e of its face that a level drawn on side covers, as
\* positions along the edge.
Stretch(e, c, level) ==
  LET a == IF e \in {"top", "bottom"} THEN c.x ELSE c.y
      last == MaxScale \div Factor(level)
  IN  {k \in 0 .. last : a - NodeFourth <= k /\ k <= a + NodeFourth}

\* The face beneath the camera and the neighbor across e draw the same stretch of
\* the edge they share.
MeetAt(e, level) ==
  LET r == NeighborEdge(at.face, e)
      last == MaxScale \div Factor(level)
      there == Stretch(r, NeighborCenter(e, level), level)
  IN  Stretch(e, FrontCenter(level), level) =
        IF Reversed(e, r) THEN {last - k : k \in there} ELSE there

\* "It needs to be rendered on the neighboring face to avoid cracks in the mesh"
\* (main.cpp:437): where a level is drawn on both sides of an edge, it covers the
\* same stretch of the edge on both.  The code keeps it only where the two faces
\* count in the same direction (StraightEdgesMeet).
EdgesMeet == \A e \in Edges : \A level \in NeighborLevels(e) : MeetAt(e, level)

\* It does on the edges where both faces count in the same direction.
StraightEdgesMeet ==
  \A e \in Edges : ~Reversed(e, NeighborEdge(at.face, e)) =>
    \A level \in NeighborLevels(e) : MeetAt(e, level)
\* At a corner, where two neighbors both draw a level, they draw the same
\* stretch of the edge that they share with each other.
CornerMeets(e, d, level) ==
  LET f == NeighborFace(at.face, e)
      g == CHOOSE k \in Edges : NeighborFace(f, k) = NeighborFace(at.face, d)
      r == NeighborEdge(f, g)
      last == MaxScale \div Factor(level)
      here == Stretch(g, NeighborCenter(e, level), level)
      there == Stretch(r, NeighborCenter(d, level), level)
  IN  here = IF Reversed(g, r) THEN {last - k : k \in there} ELSE there
CornersMeet ==
  \A e, d \in Edges : e # d =>
    \A level \in NeighborLevels(e) \cap NeighborLevels(d) : CornerMeets(e, d, level)

\* The seams between faces that the code does close: on edges that run the same
\* way, and at corners.
SeamsMeet == StraightEdgesMeet /\ CornersMeet
=============================================================================
