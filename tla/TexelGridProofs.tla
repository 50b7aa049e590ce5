-------------------------- MODULE TexelGridProofs --------------------------
(***************************************************************************)
(* Facts about the cube-face operations, for every width: the lemmas that  *)
(* the proofs about walks and about the flood fill rest on.                *)
(***************************************************************************)
EXTENDS TexelGrid, TLAPS

\* Crossing an edge and then the edge NeighborEdge names leads back (the
\* tables of VKTest.h are each other's inverse).
LEMMA TablesInverse ==
  ASSUME NEW f \in Faces, NEW e \in Edges
  PROVE  /\ NeighborFace(f, e) \in Faces
         /\ NeighborEdge(f, e) \in Edges
         /\ NeighborFace(NeighborFace(f, e), NeighborEdge(f, e)) = f
         /\ NeighborEdge(NeighborFace(f, e), NeighborEdge(f, e)) = e
<1>1. CASE f = "right"  BY <1>1, SMT DEF Faces, Edges, NeighborFace, NeighborEdge
<1>2. CASE f = "left"   BY <1>2, SMT DEF Faces, Edges, NeighborFace, NeighborEdge
<1>3. CASE f = "top"    BY <1>3, SMT DEF Faces, Edges, NeighborFace, NeighborEdge
<1>4. CASE f = "bottom" BY <1>4, SMT DEF Faces, Edges, NeighborFace, NeighborEdge
<1>5. CASE f = "front"  BY <1>5, SMT DEF Faces, Edges, NeighborFace, NeighborEdge
<1>6. CASE f = "back"   BY <1>6, SMT DEF Faces, Edges, NeighborFace, NeighborEdge
<1> QED BY <1>1, <1>2, <1>3, <1>4, <1>5, <1>6 DEF Faces

\* Two joined edges run the same way or opposite ways, whichever of the two
\* faces they are seen from.
LEMMA ReversedSymmetric ==
  ASSUME NEW e \in Edges, NEW r \in Edges
  PROVE  Reversed(e, r) <=> Reversed(r, e)
BY DEF Edges, Reversed

\* A point made from how far it is along an edge and how far inside it is just
\* that far along the edge, and that far short of being beyond it.
LEMMA InsideSeen ==
  ASSUME NEW w \in Int, NEW f \in Faces, NEW e \in Edges, NEW a \in Int, NEW n \in Int
  PROVE  /\ Inside(w, f, e, a, n) \in [face : Faces, x : Int, y : Int]
         /\ Inside(w, f, e, a, n).face = f
         /\ Along(e, Inside(w, f, e, a, n)) = a
         /\ Beyond(w, e, Inside(w, f, e, a, n)) = -n
BY SMT DEF Edges, Inside, Along, Beyond

\* Those two numbers determine the point.
LEMMA SeenInside ==
  ASSUME NEW w \in Int, NEW e \in Edges, NEW p \in [face : Faces, x : Int, y : Int]
  PROVE  /\ Along(e, p) \in Int
         /\ Beyond(w, e, p) \in Int
         /\ Inside(w, p.face, e, Along(e, p), -Beyond(w, e, p)) = p
BY SMT DEF Edges, Inside, Along, Beyond

\* GetNeighborCoordinates over an edge and back is the identity, for every
\* point of the plane of a face.
LEMMA NeighborCoordinatesInvolution ==
  ASSUME NEW w \in Int, NEW e \in Edges, NEW p \in [face : Faces, x : Int, y : Int]
  PROVE  GetNeighborCoordinates(w, NeighborEdge(p.face, e),
                                GetNeighborCoordinates(w, e, p)) = p
<1> DEFINE f == p.face
           g == NeighborFace(f, e)
           r == NeighborEdge(f, e)
           a == Along(e, p)
           n == Beyond(w, e, p)
           b == IF Reversed(e, r) THEN w - a ELSE a
           q == GetNeighborCoordinates(w, e, p)
<1>1. f \in Faces /\ g \in Faces /\ r \in Edges
      /\ NeighborFace(g, r) = f /\ NeighborEdge(g, r) = e
  BY TablesInverse
<1>2. a \in Int /\ n \in Int /\ Inside(w, f, e, a, -n) = p
  BY SeenInside
<1>3. q = Inside(w, g, r, b, n)
  BY DEF GetNeighborCoordinates, CrossEdge
<1>4. b \in Int
  BY <1>2
<1> HIDE DEF b, q
<1>5. q.face = g /\ Along(r, q) = b /\ Beyond(w, r, q) = -n
  BY <1>1, <1>2, <1>3, <1>4, InsideSeen
<1>6. GetNeighborCoordinates(w, r, q) = Inside(w, f, e, IF Reversed(r, e) THEN w - b ELSE b, -n)
  BY <1>1, <1>5 DEF GetNeighborCoordinates, CrossEdge
<1>7. (IF Reversed(r, e) THEN w - b ELSE b) = a
  <2>1. Reversed(r, e) <=> Reversed(e, r)
    BY <1>1, ReversedSymmetric
  <2> QED BY <1>2, <2>1 DEF b
<1> QED BY <1>2, <1>6, <1>7 DEF q

\* Crossing an edge lands inside the face across it when the point crosses
\* somewhere along the edge and not farther than the face is wide.
LEMMA CrossEdgeInside ==
  ASSUME NEW w \in Nat, NEW e \in Edges, NEW p \in [face : Faces, x : Int, y : Int],
         Along(e, p) \in 0 .. w, NEW n \in 0 .. w
  PROVE  CrossEdge(w, e, p, n) \in [face : Faces, x : 0 .. w, y : 0 .. w]
<1> DEFINE a == IF Reversed(e, NeighborEdge(p.face, e)) THEN w - Along(e, p) ELSE Along(e, p)
<1>1. NeighborFace(p.face, e) \in Faces /\ NeighborEdge(p.face, e) \in Edges
  BY TablesInverse
<1>2. a \in 0 .. w
  OBVIOUS
<1> HIDE DEF a
<1>3. Inside(w, NeighborFace(p.face, e), NeighborEdge(p.face, e), a, n)
        \in [face : Faces, x : 0 .. w, y : 0 .. w]
  BY <1>1, <1>2, SMT DEF Inside, Edges
<1> QED BY <1>3 DEF CrossEdge, a

\* AdjustCoords brings any overrun of at most one face back onto a texel.
LEMMA AdjustCoordsInside ==
  ASSUME NEW w \in Nat, NEW p \in [face : Faces, x : -w .. 2 * w, y : -w .. 2 * w]
  PROVE  AdjustCoords(w, p) \in [face : Faces, x : 0 .. w, y : 0 .. w]
<1> DEFINE T == [face : Faces, x : 0 .. w, y : 0 .. w]
           P == [face : Faces, x : Int, y : Int]
           a == IF p.x < 0 THEN CrossEdge(w, "left",   Clamped(w, p), 0 - p.x) ELSE p
           b == IF a.x > w THEN CrossEdge(w, "right",  Clamped(w, a), a.x - w) ELSE a
           c == IF b.y < 0 THEN CrossEdge(w, "top",    b, 0 - b.y) ELSE b
           d == IF c.y > w THEN CrossEdge(w, "bottom", c, c.y - w) ELSE c
<1>1. p.face \in Faces /\ p.x \in -w .. 2 * w /\ p.y \in -w .. 2 * w /\ p \in P
  OBVIOUS
<1>2. \A q \in P : Clamped(w, q) \in P /\ Clamped(w, q).y \in 0 .. w
  BY DEF Clamped
<1>3. a \in T \/ (a = p /\ p.x >= 0)
  <2>1. CASE p.x < 0
    <3>1. Along("left", Clamped(w, p)) \in 0 .. w /\ 0 - p.x \in 0 .. w
      BY <1>1, <1>2, <2>1 DEF Along
    <3> QED BY <1>1, <1>2, <2>1, <3>1, CrossEdgeInside DEF Edges
  <2>2. CASE ~(p.x < 0)
    BY <1>1, <2>2
  <2> QED BY <2>1, <2>2
<1> HIDE DEF a
<1>4. b \in T \/ (b = p /\ p.x \in 0 .. w)
  <2>1. CASE a.x > w
    <3>1. a = p
      BY <1>3, <2>1
    <3>2. Along("right", Clamped(w, a)) \in 0 .. w /\ a.x - w \in 0 .. w
      BY <1>1, <1>2, <2>1, <3>1 DEF Along
    <3> QED BY <1>1, <1>2, <2>1, <3>1, <3>2, CrossEdgeInside DEF Edges
  <2>2. CASE ~(a.x > w)
    BY <1>1, <1>3, <2>2
  <2> QED BY <2>1, <2>2
<1> HIDE DEF b
<1>5. c \in T \/ (c = p /\ p.x \in 0 .. w /\ p.y >= 0)
  <2>1. CASE b.y < 0
    <3>1. b = p /\ p.x \in 0 .. w
      BY <1>4, <2>1
    <3>2. Along("top", b) \in 0 .. w /\ 0 - b.y \in 0 .. w
      BY <1>1, <2>1, <3>1 DEF Along
    <3> QED BY <1>1, <2>1, <3>1, <3>2, CrossEdgeInside DEF Edges
  <2>2. CASE ~(b.y < 0)
    BY <1>1, <1>4, <2>2
  <2> QED BY <2>1, <2>2
<1> HIDE DEF c
<1>6. d \in T
  <2>1. CASE c.y > w
    <3>1. c = p /\ p.x \in 0 .. w
      BY <1>5, <2>1
    <3>2. Along("bottom", c) \in 0 .. w /\ c.y - w \in 0 .. w
      BY <1>1, <2>1, <3>1 DEF Along
    <3> QED BY <1>1, <2>1, <3>1, <3>2, CrossEdgeInside DEF Edges
  <2>2. CASE ~(c.y > w)
    BY <1>1, <1>5, <2>2
  <2> QED BY <2>1, <2>2
<1> QED BY <1>6 DEF AdjustCoords, a, b, c

\* A point on an edge is the same point of the cube when the face across the
\* edge names it.
LEMMA CrossEdgeShared ==
  ASSUME NEW w \in Int, NEW e \in Edges, NEW p \in [face : Faces, x : Int, y : Int],
         Beyond(w, e, p) = 0
  PROVE  CubePoint(w, CrossEdge(w, e, p, 0)) = CubePoint(w, p)
<1> DEFINE At(f, x, y) == [face |-> f, x |-> x, y |-> y]
<1>0. w - 0 = w /\ p.x \in Int /\ p.y \in Int
  OBVIOUS
<1>1. CASE p.face = "right"
  <2>1. CASE e = "top"
    <3>1. NeighborFace(p.face, e) = "top" /\ NeighborEdge(p.face, e) = "right"
      BY <1>1, <2>1 DEF NeighborFace, NeighborEdge
    <3>2. CrossEdge(w, e, p, 0) = Inside(w, "top", "right", w - p.x, 0)
      BY <2>1, <3>1 DEF CrossEdge, Along, Reversed
    <3>3. Inside(w, "top", "right", w - p.x, 0) = At("top", w, w - p.x) /\ p.y = 0
      BY <1>0, <2>1 DEF Inside, Beyond
    <3> QED BY <1>1, <3>2, <3>3 DEF CubePoint, OnCube
  <2>2. CASE e = "right"
    <3>1. NeighborFace(p.face, e) = "back" /\ NeighborEdge(p.face, e) = "left"
      BY <1>1, <2>2 DEF NeighborFace, NeighborEdge
    <3>2. CrossEdge(w, e, p, 0) = Inside(w, "back", "left", p.y, 0)
      BY <2>2, <3>1 DEF CrossEdge, Along, Reversed
    <3>3. Inside(w, "back", "left", p.y, 0) = At("back", 0, p.y) /\ p.x = w
      BY <1>0, <2>2 DEF Inside, Beyond
    <3> QED BY <1>1, <3>2, <3>3 DEF CubePoint, OnCube
  <2>3. CASE e = "bottom"
    <3>1. NeighborFace(p.face, e) = "bottom" /\ NeighborEdge(p.face, e) = "right"
      BY <1>1, <2>3 DEF NeighborFace, NeighborEdge
    <3>2. CrossEdge(w, e, p, 0) = Inside(w, "bottom", "right", p.x, 0)
      BY <2>3, <3>1 DEF CrossEdge, Along, Reversed
    <3>3. Inside(w, "bottom", "right", p.x, 0) = At("bottom", w, p.x) /\ p.y = w
      BY <1>0, <2>3 DEF Inside, Beyond
    <3> QED BY <1>1, <3>2, <3>3 DEF CubePoint, OnCube
  <2>4. CASE e = "left"
    <3>1. NeighborFace(p.face, e) = "front" /\ NeighborEdge(p.face, e) = "right"
      BY <1>1, <2>4 DEF NeighborFace, NeighborEdge
    <3>2. CrossEdge(w, e, p, 0) = Inside(w, "front", "right", p.y, 0)
      BY <2>4, <3>1 DEF CrossEdge, Along, Reversed
    <3>3. Inside(w, "front", "right", p.y, 0) = At("front", w, p.y) /\ p.x = 0
      BY <1>0, <2>4 DEF Inside, Beyond
    <3> QED BY <1>1, <3>2, <3>3 DEF CubePoint, OnCube
  <2> QED BY <2>1, <2>2, <2>3, <2>4 DEF Edges
<1>2. CASE p.face = "left"
  <2>1. CASE e = "top"
    <3>1. NeighborFace(p.face, e) = "top" /\ NeighborEdge(p.face, e) = "left"
      BY <1>2, <2>1 DEF NeighborFace, NeighborEdge
    <3>2. CrossEdge(w, e, p, 0) = Inside(w, "top", "left", p.x, 0)
      BY <2>1, <3>1 DEF CrossEdge, Along, Reversed
    <3>3. Inside(w, "top", "left", p.x, 0) = At("top", 0, p.x) /\ p.y = 0
      BY <1>0, <2>1 DEF Inside, Beyond
    <3> QED BY <1>2, <3>2, <3>3 DEF CubePoint, OnCube
  <2>2. CASE e = "right"
    <3>1. NeighborFace(p.face, e) = "front" /\ NeighborEdge(p.face, e) = "left"
      BY <1>2, <2>2 DEF NeighborFace, NeighborEdge
    <3>2. CrossEdge(w, e, p, 0) = Inside(w, "front", "left", p.y, 0)
      BY <2>2, <3>1 DEF CrossEdge, Along, Reversed
    <3>3. Inside(w, "front", "left", p.y, 0) = At("front", 0, p.y) /\ p.x = w
      BY <1>0, <2>2 DEF Inside, Beyond
    <3> QED BY <1>2, <3>2, <3>3 DEF CubePoint, OnCube
  <2>3. CASE e = "bottom"
    <3>1. NeighborFace(p.face, e) = "bottom" /\ NeighborEdge(p.face, e) = "left"
      BY <1>2, <2>3 DEF NeighborFace, NeighborEdge
    <3>2. CrossEdge(w, e, p, 0) = Inside(w, "bottom", "left", w - p.x, 0)
      BY <2>3, <3>1 DEF CrossEdge, Along, Reversed
    <3>3. Inside(w, "bottom", "left", w - p.x, 0) = At("bottom", 0, w - p.x) /\ p.y = w
      BY <1>0, <2>3 DEF Inside, Beyond
    <3> QED BY <1>2, <3>2, <3>3 DEF CubePoint, OnCube
  <2>4. CASE e = "left"
    <3>1. NeighborFace(p.face, e) = "back" /\ NeighborEdge(p.face, e) = "right"
      BY <1>2, <2>4 DEF NeighborFace, NeighborEdge
    <3>2. CrossEdge(w, e, p, 0) = Inside(w, "back", "right", p.y, 0)
      BY <2>4, <3>1 DEF CrossEdge, Along, Reversed
    <3>3. Inside(w, "back", "right", p.y, 0) = At("back", w, p.y) /\ p.x = 0
      BY <1>0, <2>4 DEF Inside, Beyond
    <3> QED BY <1>2, <3>2, <3>3 DEF CubePoint, OnCube
  <2> QED BY <2>1, <2>2, <2>3, <2>4 DEF Edges
<1>3. CASE p.face = "top"
  <2>1. CASE e = "top"
    <3>1. NeighborFace(p.face, e) = "back" /\ NeighborEdge(p.face, e) = "top"
      BY <1>3, <2>1 DEF NeighborFace, NeighborEdge
    <3>2. CrossEdge(w, e, p, 0) = Inside(w, "back", "top", w - p.x, 0)
      BY <2>1, <3>1 DEF CrossEdge, Along, Reversed
    <3>3. Inside(w, "back", "top", w - p.x, 0) = At("back", w - p.x, 0) /\ p.y = 0
      BY <1>0, <2>1 DEF Inside, Beyond
    <3> QED BY <1>3, <3>2, <3>3 DEF CubePoint, OnCube
  <2>2. CASE e = "right"
    <3>1. NeighborFace(p.face, e) = "right" /\ NeighborEdge(p.face, e) = "top"
      BY <1>3, <2>2 DEF NeighborFace, NeighborEdge
    <3>2. CrossEdge(w, e, p, 0) = Inside(w, "right", "top", w - p.y, 0)
      BY <2>2, <3>1 DEF CrossEdge, Along, Reversed
    <3>3. Inside(w, "right", "top", w - p.y, 0) = At("right", w - p.y, 0) /\ p.x = w
      BY <1>0, <2>2 DEF Inside, Beyond
    <3> QED BY <1>3, <3>2, <3>3 DEF CubePoint, OnCube
  <2>3. CASE e = "bottom"
    <3>1. NeighborFace(p.face, e) = "front" /\ NeighborEdge(p.face, e) = "top"
      BY <1>3, <2>3 DEF NeighborFace, NeighborEdge
    <3>2. CrossEdge(w, e, p, 0) = Inside(w, "front", "top", p.x, 0)
      BY <2>3, <3>1 DEF CrossEdge, Along, Reversed
    <3>3. Inside(w, "front", "top", p.x, 0) = At("front", p.x, 0) /\ p.y = w
      BY <1>0, <2>3 DEF Inside, Beyond
    <3> QED BY <1>3, <3>2, <3>3 DEF CubePoint, OnCube
  <2>4. CASE e = "left"
    <3>1. NeighborFace(p.face, e) = "left" /\ NeighborEdge(p.face, e) = "top"
      BY <1>3, <2>4 DEF NeighborFace, NeighborEdge
    <3>2. CrossEdge(w, e, p, 0) = Inside(w, "left", "top", p.y, 0)
      BY <2>4, <3>1 DEF CrossEdge, Along, Reversed
    <3>3. Inside(w, "left", "top", p.y, 0) = At("left", p.y, 0) /\ p.x = 0
      BY <1>0, <2>4 DEF Inside, Beyond
    <3> QED BY <1>3, <3>2, <3>3 DEF CubePoint, OnCube
  <2> QED BY <2>1, <2>2, <2>3, <2>4 DEF Edges
<1>4. CASE p.face = "bottom"
  <2>1. CASE e = "top"
    <3>1. NeighborFace(p.face, e) = "front" /\ NeighborEdge(p.face, e) = "bottom"
      BY <1>4, <2>1 DEF NeighborFace, NeighborEdge
    <3>2. CrossEdge(w, e, p, 0) = Inside(w, "front", "bottom", p.x, 0)
      BY <2>1, <3>1 DEF CrossEdge, Along, Reversed
    <3>3. Inside(w, "front", "bottom", p.x, 0) = At("front", p.x, w) /\ p.y = 0
      BY <1>0, <2>1 DEF Inside, Beyond
    <3> QED BY <1>4, <3>2, <3>3 DEF CubePoint, OnCube
  <2>2. CASE e = "right"
    <3>1. NeighborFace(p.face, e) = "right" /\ NeighborEdge(p.face, e) = "bottom"
      BY <1>4, <2>2 DEF NeighborFace, NeighborEdge
    <3>2. CrossEdge(w, e, p, 0) = Inside(w, "right", "bottom", p.y, 0)
      BY <2>2, <3>1 DEF CrossEdge, Along, Reversed
    <3>3. Inside(w, "right", "bottom", p.y, 0) = At("right", p.y, w) /\ p.x = w
      BY <1>0, <2>2 DEF Inside, Beyond
    <3> QED BY <1>4, <3>2, <3>3 DEF CubePoint, OnCube
  <2>3. CASE e = "bottom"
    <3>1. NeighborFace(p.face, e) = "back" /\ NeighborEdge(p.face, e) = "bottom"
      BY <1>4, <2>3 DEF NeighborFace, NeighborEdge
    <3>2. CrossEdge(w, e, p, 0) = Inside(w, "back", "bottom", w - p.x, 0)
      BY <2>3, <3>1 DEF CrossEdge, Along, Reversed
    <3>3. Inside(w, "back", "bottom", w - p.x, 0) = At("back", w - p.x, w) /\ p.y = w
      BY <1>0, <2>3 DEF Inside, Beyond
    <3> QED BY <1>4, <3>2, <3>3 DEF CubePoint, OnCube
  <2>4. CASE e = "left"
    <3>1. NeighborFace(p.face, e) = "left" /\ NeighborEdge(p.face, e) = "bottom"
      BY <1>4, <2>4 DEF NeighborFace, NeighborEdge
    <3>2. CrossEdge(w, e, p, 0) = Inside(w, "left", "bottom", w - p.y, 0)
      BY <2>4, <3>1 DEF CrossEdge, Along, Reversed
    <3>3. Inside(w, "left", "bottom", w - p.y, 0) = At("left", w - p.y, w) /\ p.x = 0
      BY <1>0, <2>4 DEF Inside, Beyond
    <3> QED BY <1>4, <3>2, <3>3 DEF CubePoint, OnCube
  <2> QED BY <2>1, <2>2, <2>3, <2>4 DEF Edges
<1>5. CASE p.face = "front"
  <2>1. CASE e = "top"
    <3>1. NeighborFace(p.face, e) = "top" /\ NeighborEdge(p.face, e) = "bottom"
      BY <1>5, <2>1 DEF NeighborFace, NeighborEdge
    <3>2. CrossEdge(w, e, p, 0) = Inside(w, "top", "bottom", p.x, 0)
      BY <2>1, <3>1 DEF CrossEdge, Along, Reversed
    <3>3. Inside(w, "top", "bottom", p.x, 0) = At("top", p.x, w) /\ p.y = 0
      BY <1>0, <2>1 DEF Inside, Beyond
    <3> QED BY <1>5, <3>2, <3>3 DEF CubePoint, OnCube
  <2>2. CASE e = "right"
    <3>1. NeighborFace(p.face, e) = "right" /\ NeighborEdge(p.face, e) = "left"
      BY <1>5, <2>2 DEF NeighborFace, NeighborEdge
    <3>2. CrossEdge(w, e, p, 0) = Inside(w, "right", "left", p.y, 0)
      BY <2>2, <3>1 DEF CrossEdge, Along, Reversed
    <3>3. Inside(w, "right", "left", p.y, 0) = At("right", 0, p.y) /\ p.x = w
      BY <1>0, <2>2 DEF Inside, Beyond
    <3> QED BY <1>5, <3>2, <3>3 DEF CubePoint, OnCube
  <2>3. CASE e = "bottom"
    <3>1. NeighborFace(p.face, e) = "bottom" /\ NeighborEdge(p.face, e) = "top"
      BY <1>5, <2>3 DEF NeighborFace, NeighborEdge
    <3>2. CrossEdge(w, e, p, 0) = Inside(w, "bottom", "top", p.x, 0)
      BY <2>3, <3>1 DEF CrossEdge, Along, Reversed
    <3>3. Inside(w, "bottom", "top", p.x, 0) = At("bottom", p.x, 0) /\ p.y = w
      BY <1>0, <2>3 DEF Inside, Beyond
    <3> QED BY <1>5, <3>2, <3>3 DEF CubePoint, OnCube
  <2>4. CASE e = "left"
    <3>1. NeighborFace(p.face, e) = "left" /\ NeighborEdge(p.face, e) = "right"
      BY <1>5, <2>4 DEF NeighborFace, NeighborEdge
    <3>2. CrossEdge(w, e, p, 0) = Inside(w, "left", "right", p.y, 0)
      BY <2>4, <3>1 DEF CrossEdge, Along, Reversed
    <3>3. Inside(w, "left", "right", p.y, 0) = At("left", w, p.y) /\ p.x = 0
      BY <1>0, <2>4 DEF Inside, Beyond
    <3> QED BY <1>5, <3>2, <3>3 DEF CubePoint, OnCube
  <2> QED BY <2>1, <2>2, <2>3, <2>4 DEF Edges
<1>6. CASE p.face = "back"
  <2>1. CASE e = "top"
    <3>1. NeighborFace(p.face, e) = "top" /\ NeighborEdge(p.face, e) = "top"
      BY <1>6, <2>1 DEF NeighborFace, NeighborEdge
    <3>2. CrossEdge(w, e, p, 0) = Inside(w, "top", "top", w - p.x, 0)
      BY <2>1, <3>1 DEF CrossEdge, Along, Reversed
    <3>3. Inside(w, "top", "top", w - p.x, 0) = At("top", w - p.x, 0) /\ p.y = 0
      BY <1>0, <2>1 DEF Inside, Beyond
    <3> QED BY <1>6, <3>2, <3>3 DEF CubePoint, OnCube
  <2>2. CASE e = "right"
    <3>1. NeighborFace(p.face, e) = "left" /\ NeighborEdge(p.face, e) = "left"
      BY <1>6, <2>2 DEF NeighborFace, NeighborEdge
    <3>2. CrossEdge(w, e, p, 0) = Inside(w, "left", "left", p.y, 0)
      BY <2>2, <3>1 DEF CrossEdge, Along, Reversed
    <3>3. Inside(w, "left", "left", p.y, 0) = At("left", 0, p.y) /\ p.x = w
      BY <1>0, <2>2 DEF Inside, Beyond
    <3> QED BY <1>6, <3>2, <3>3 DEF CubePoint, OnCube
  <2>3. CASE e = "bottom"
    <3>1. NeighborFace(p.face, e) = "bottom" /\ NeighborEdge(p.face, e) = "bottom"
      BY <1>6, <2>3 DEF NeighborFace, NeighborEdge
    <3>2. CrossEdge(w, e, p, 0) = Inside(w, "bottom", "bottom", w - p.x, 0)
      BY <2>3, <3>1 DEF CrossEdge, Along, Reversed
    <3>3. Inside(w, "bottom", "bottom", w - p.x, 0) = At("bottom", w - p.x, w) /\ p.y = w
      BY <1>0, <2>3 DEF Inside, Beyond
    <3> QED BY <1>6, <3>2, <3>3 DEF CubePoint, OnCube
  <2>4. CASE e = "left"
    <3>1. NeighborFace(p.face, e) = "right" /\ NeighborEdge(p.face, e) = "right"
      BY <1>6, <2>4 DEF NeighborFace, NeighborEdge
    <3>2. CrossEdge(w, e, p, 0) = Inside(w, "right", "right", p.y, 0)
      BY <2>4, <3>1 DEF CrossEdge, Along, Reversed
    <3>3. Inside(w, "right", "right", p.y, 0) = At("right", w, p.y) /\ p.x = 0
      BY <1>0, <2>4 DEF Inside, Beyond
    <3> QED BY <1>6, <3>2, <3>3 DEF CubePoint, OnCube
  <2> QED BY <2>1, <2>2, <2>3, <2>4 DEF Edges
<1> QED BY <1>1, <1>2, <1>3, <1>4, <1>5, <1>6 DEF Faces

\* Every neighbor of a texel is a texel.
LEMMA NeighborIsTexel ==
  ASSUME NEW p \in Texels, NEW k \in 1 .. 8
  PROVE  Neighbor(p, k) \in Texels
<1> DEFINE dx == Compass[k][1]
           dy == Compass[k][2]
           q == [face |-> p.face, x |-> p.x + dx, y |-> p.y + dy]
<1>1. Width \in Nat /\ Width >= 1
  BY WidthAssumption
<1>2. p.face \in Faces /\ p.x \in 0 .. Width /\ p.y \in 0 .. Width
  BY DEF Texels
<1>3. dx \in -1 .. 1 /\ dy \in -1 .. 1
  BY DEF Compass
<1>4. Neighbor(p, k) = AdjustCoords(Width, q)
  BY DEF Neighbor
<1> HIDE DEF dx, dy
<1>5. q \in [face : Faces, x : -Width .. 2 * Width, y : -Width .. 2 * Width]
  <2>1. p.x + dx \in -Width .. 2 * Width /\ p.y + dy \in -Width .. 2 * Width
    BY <1>1, <1>2, <1>3
  <2> QED BY <1>2, <2>1
<1> HIDE DEF q
<1> QED BY <1>1, <1>4, <1>5, AdjustCoordsInside DEF Texels

\* The texels that touch a texel on its face are among its neighbors:
\* AdjustCoords leaves coordinates alone that do not overrun the face.
LEMMA TouchingIsNeighbor ==
  ASSUME NEW p \in Texels, NEW q \in Texels, Touch(p, q), p # q
  PROVE  \E k \in 1 .. 8 : Neighbor(p, k) = q
<1>1. /\ p.face \in Faces /\ p.x \in 0 .. Width /\ p.y \in 0 .. Width
      /\ q.face \in Faces /\ q.x \in 0 .. Width /\ q.y \in 0 .. Width
      /\ p = [face |-> p.face, x |-> p.x, y |-> p.y]
      /\ q = [face |-> q.face, x |-> q.x, y |-> q.y]
  BY DEF Texels
<1>2. Width \in Nat
  BY WidthAssumption
<1>3. \A k \in 1 .. 8 : q.x = p.x + Compass[k][1] /\ q.y = p.y + Compass[k][2]
                          => Neighbor(p, k) = q
  <2> SUFFICES ASSUME NEW k \in 1 .. 8,
                      q.x = p.x + Compass[k][1], q.y = p.y + Compass[k][2]
               PROVE  Neighbor(p, k) = q
    OBVIOUS
  <2>1. Neighbor(p, k) = AdjustCoords(Width, q)
    BY <1>1 DEF Neighbor, Touch
  <2>2. ~(q.x < 0) /\ ~(q.x > Width) /\ ~(q.y < 0) /\ ~(q.y > Width)
    BY <1>1, <1>2
  <2> QED BY <2>1, <2>2 DEF AdjustCoords
<1>4. \E k \in 1 .. 8 : q.x = p.x + Compass[k][1] /\ q.y = p.y + Compass[k][2]
  <2>1. q.x - p.x \in -1 .. 1 /\ q.y - p.y \in -1 .. 1
        /\ (q.x - p.x # 0 \/ q.y - p.y # 0)
    BY <1>1, <1>2 DEF Touch, Abs
  <2>2. /\ Compass[1] = <<-1, 0>> /\ Compass[2] = <<1, 0>>
        /\ Compass[3] = <<0, -1>> /\ Compass[4] = <<0, 1>>
        /\ Compass[5] = <<-1, -1>> /\ Compass[6] = <<-1, 1>>
        /\ Compass[7] = <<1, -1>> /\ Compass[8] = <<1, 1>>
    BY DEF Compass
  <2>3. /\ 1 \in 1 .. 8 /\ 2 \in 1 .. 8 /\ 3 \in 1 .. 8 /\ 4 \in 1 .. 8
        /\ 5 \in 1 .. 8 /\ 6 \in 1 .. 8 /\ 7 \in 1 .. 8 /\ 8 \in 1 .. 8
    OBVIOUS
  <2>4. CASE q.x - p.x = -1
    <3>1. CASE q.y - p.y = -1  BY <1>1, <1>2, <2>2, <2>3, <2>4, <3>1
    <3>2. CASE q.y - p.y = 0   BY <1>1, <1>2, <2>2, <2>3, <2>4, <3>2
    <3>3. CASE q.y - p.y = 1   BY <1>1, <1>2, <2>2, <2>3, <2>4, <3>3
    <3> QED BY <2>1, <3>1, <3>2, <3>3
  <2>5. CASE q.x - p.x = 0
    <3>1. CASE q.y - p.y = -1  BY <1>1, <1>2, <2>2, <2>3, <2>5, <3>1
    <3>2. CASE q.y - p.y = 1   BY <1>1, <1>2, <2>2, <2>3, <2>5, <3>2
    <3> QED BY <2>1, <2>5, <3>1, <3>2
  <2>6. CASE q.x - p.x = 1
    <3>1. CASE q.y - p.y = -1  BY <1>1, <1>2, <2>2, <2>3, <2>6, <3>1
    <3>2. CASE q.y - p.y = 0   BY <1>1, <1>2, <2>2, <2>3, <2>6, <3>2
    <3>3. CASE q.y - p.y = 1   BY <1>1, <1>2, <2>2, <2>3, <2>6, <3>3
    <3> QED BY <2>1, <3>1, <3>2, <3>3
  <2> QED BY <2>1, <2>4, <2>5, <2>6
<1> QED BY <1>3, <1>4

LEMMA TouchSymmetric ==
  ASSUME NEW p \in Texels, NEW q \in Texels, Touch(p, q)
  PROVE  Touch(q, p)
BY WidthAssumption DEF Texels, Touch, Abs
============================================================================
