----------------------------- MODULE CubeFace -----------------------------
(***************************************************************************)
(* The six square faces a sphere is unrolled onto (class CubeFace of       *)
(* src/Code/VKTest and the tables of src/Build/shaders/VKTest.h): which    *)
(* face lies across each edge, and how coordinates and vectors move from   *)
(* face to face.                                                           *)
(*                                                                         *)
(* A point of a face is a record [face, x, y].  x runs from the left edge  *)
(* (0) to the right edge (w), y from the top edge (0) to the bottom edge   *)
(* (w); the width w is a parameter of every operation, as in the code.     *)
(* The overloads on double are the same operations with w = 1, so they     *)
(* share these definitions: TLC samples them on a grid of step 1/w.        *)
(***************************************************************************)
EXTENDS Integers

Faces == {"right", "left", "top", "bottom", "front", "back"}
Edges == {"top", "right", "bottom", "left"}

\* NeighborFace(f, e) is the face across edge e of face f.
NeighborFace(f, e) ==
  CASE e = "top"    -> (CASE f \in {"right", "left", "front", "back"} -> "top"
                          [] f = "top"    -> "back"
                          [] f = "bottom" -> "front")
    [] e = "bottom" -> (CASE f \in {"right", "left", "front", "back"} -> "bottom"
                          [] f = "top"    -> "front"
                          [] f = "bottom" -> "back")
    [] e = "right"  -> (CASE f \in {"top", "bottom", "front"} -> "right"
                          [] f = "right" -> "back"
                          [] f = "left"  -> "front"
                          [] f = "back"  -> "left")
    [] e = "left"   -> (CASE f \in {"top", "bottom", "front"} -> "left"
                          [] f = "right" -> "front"
                          [] f = "left"  -> "back"
                          [] f = "back"  -> "right")

\* NeighborEdge(f, e) is the edge of that neighbor that leads back to f.
NeighborEdge(f, e) ==
  CASE f = "top"    -> "top"
    [] f = "bottom" -> "bottom"
    [] f = "right"  -> IF e = "right" THEN "left" ELSE "right"
    [] f = "left"   -> IF e = "left" THEN "right" ELSE "left"
    [] f = "front"  -> (CASE e = "top"    -> "bottom"
                          [] e = "bottom" -> "top"
                          [] e = "right"  -> "left"
                          [] e = "left"   -> "right")
    [] f = "back"   -> (CASE e = "top"    -> "top"
                          [] e = "bottom" -> "bottom"
                          [] e = "right"  -> "left"
                          [] e = "left"   -> "right")

---------------------------------------------------------------------------
\* The coordinate that runs along edge e.
Along(e, p) == IF e \in {"top", "bottom"} THEN p.x ELSE p.y

\* Mutant: only an edge joined to its own kind is taken to run the other way.
ReversedSameOnly(e, r) == e = r

\* Mutant: one of the four mixed pairs forgotten.
ReversedOneWay(e, r) == e = r \/ <<e, r>> \in {<<"top", "right">>, <<"bottom", "left">>, <<"left", "bottom">>}

\* Two joined edges that are numbered in opposite directions.
Reversed(e, r) ==
  \/ e = r
  \/ e = "top" /\ r = "right"
  \/ e = "right" /\ r = "top"
  \/ e = "bottom" /\ r = "left"
  \/ e = "left" /\ r = "bottom"

\* The point of face f at distance n inside edge e, a units along that edge.
Inside(w, f, e, a, n) ==
  CASE e = "top"    -> [face |-> f, x |-> a,     y |-> n]
    [] e = "bottom" -> [face |-> f, x |-> a,     y |-> w - n]
    [] e = "left"   -> [face |-> f, x |-> n,     y |-> a]
    [] e = "right"  -> [face |-> f, x |-> w - n, y |-> a]

CrossEdge(w, e, p, n) ==
  LET r == NeighborEdge(p.face, e)
      a == Along(e, p)
  IN  Inside(w, NeighborFace(p.face, e), r, IF Reversed(e, r) THEN w - a ELSE a, n)

\* How far p is beyond edge e of its own face (negative when p is inside).
Beyond(w, e, p) ==
  CASE e = "top"    -> 0 - p.y
    [] e = "bottom" -> p.y - w
    [] e = "left"   -> 0 - p.x
    [] e = "right"  -> p.x - w

\* The same place in the coordinates of the face across e: the point does not
\* move, so it may lie outside that face.
GetNeighborCoordinates(w, e, p) == CrossEdge(w, e, p, Beyond(w, e, p))

\* Max(0, Min(w, y)): there are no diagonal neighbors.
Clamped(w, p) == [p EXCEPT !.y = IF @ < 0 THEN 0 ELSE IF @ > w THEN w ELSE @]

\* Mutant: the distance is left to its default, 0.
AdjustCoordsOntoEdge(w, p) ==
  IF p.x < 0 THEN CrossEdge(w, "left", Clamped(w, p), 0)
  ELSE IF p.x > w THEN CrossEdge(w, "right", Clamped(w, p), 0)
  ELSE IF p.y < 0 THEN CrossEdge(w, "top", p, 0)
  ELSE IF p.y > w THEN CrossEdge(w, "bottom", p, 0) ELSE p

\* Mutant: the four tests exclude each other, and nothing is clamped.
AdjustCoordsUnclamped(w, p) ==
  IF p.x < 0 THEN CrossEdge(w, "left", p, 0 - p.x)
  ELSE IF p.x > w THEN CrossEdge(w, "right", p, p.x - w)
  ELSE IF p.y < 0 THEN CrossEdge(w, "top", p, 0 - p.y)
  ELSE IF p.y > w THEN CrossEdge(w, "bottom", p, p.y - w) ELSE p

\* Brings coordinates that overrun their face back into a face.  The four
\* tests are made one after the other, each on the result of the last.
AdjustCoords(w, p) ==
  LET a == IF p.x < 0 THEN CrossEdge(w, "left",   Clamped(w, p), 0 - p.x) ELSE p
      b == IF a.x > w THEN CrossEdge(w, "right",  Clamped(w, a), a.x - w) ELSE a
      c == IF b.y < 0 THEN CrossEdge(w, "top",    b, 0 - b.y) ELSE b
  IN       IF c.y > w THEN CrossEdge(w, "bottom", c, c.y - w) ELSE c

---------------------------------------------------------------------------
Abs(i) == IF i < 0 THEN -i ELSE i

\* Where coordinates (s, t), centered on face f of a cube of half-width m, are.
OnCube(m, f, s, t) ==
  CASE f = "right"  -> [x |-> m,  y |-> -t, z |-> -s]
    [] f = "left"   -> [x |-> -m, y |-> -t, z |-> s]
    [] f = "top"    -> [x |-> s,  y |-> m,  z |-> t]
    [] f = "bottom" -> [x |-> s,  y |-> -m, z |-> -t]
    [] f = "front"  -> [x |-> s,  y |-> -t, z |-> m]
    [] f = "back"   -> [x |-> -s, y |-> -t, z |-> -m]

\* Mutant: y taken to grow upwards.
CubePointUpwards(w, p) == OnCube(w, p.face, 2 * p.x - w, w - 2 * p.y)

\* The direction GetPlanetaryVector gives to a point, before it is scaled to
\* the length asked for.
CubePoint(w, p) == OnCube(w, p.face, 2 * p.x - w, 2 * p.y - w)

\* Mutant: ties between x and z go to x.
GetFaceTies(v) ==
  IF Abs(v.x) >= Abs(v.y) /\ Abs(v.x) >= Abs(v.z) THEN IF v.x > 0 THEN "right" ELSE "left"
  ELSE IF Abs(v.y) > Abs(v.z) THEN IF v.y > 0 THEN "top" ELSE "bottom"
  ELSE IF v.z > 0 THEN "front" ELSE "back"

\* The face a vector points into.
GetFace(v) ==
  LET x == Abs(v.x)
      y == Abs(v.y)
      z == Abs(v.z)
  IN  IF x > y
      THEN IF x > z THEN IF v.x > 0 THEN "right" ELSE "left"
                    ELSE IF v.z > 0 THEN "front" ELSE "back"
      ELSE IF y > z THEN IF v.y > 0 THEN "top" ELSE "bottom"
                    ELSE IF v.z > 0 THEN "front" ELSE "back"

\* muldiv rounds to nearest in a 32-bit build and truncates in a 64-bit one
\* (m >= 0 and d > 0 wherever it is called).
MulDiv(win64, n, m, d) ==
  LET quotient(k) == IF win64 THEN (k * m) \div d ELSE (2 * k * m + d) \div (2 * d)
  IN  IF n < 0 THEN -quotient(-n) ELSE quotient(n)

\* Mutant: coordinates not moved to the range from 0 to m.
FacePointCentered(win64, m, f, s, t, d) ==
  [face |-> f, x |-> MulDiv(win64, s, m, d) \div 2, y |-> MulDiv(win64, t, m, d) \div 2]

\* The point of face f where a vector meets it whose components are s to the
\* right, t downwards and d outwards.
FacePoint(win64, m, f, s, t, d) ==
  [face |-> f,
   x |-> (MulDiv(win64, s, m, d) + m) \div 2,
   y |-> (MulDiv(win64, t, m, d) + m) \div 2]

\* GetFaceCoordinates(v, x, y): the face v points into and where it meets it.
GetFaceCoordinates(win64, m, v) ==
  LET ax == Abs(v.x)
      ay == Abs(v.y)
      az == Abs(v.z)
      at(f, s, t, d) == FacePoint(win64, m, f, s, t, d)
  IN  IF ax > ay /\ ax > az
      THEN IF v.x > 0 THEN at("right", -v.z, -v.y, ax) ELSE at("left", v.z, -v.y, ax)
      ELSE IF ay > az
      THEN IF v.y > 0 THEN at("top", v.x, v.z, ay) ELSE at("bottom", v.x, -v.z, ay)
      ELSE IF v.z > 0 THEN at("front", v.x, -v.y, az) ELSE at("back", -v.x, -v.y, az)

\* One coordinate in a face for a vector whose component along that coordinate
\* is k and whose component out of the face is d.  A vector that does not point
\* through the face gets the end of the range on its side; zero is the end the
\* code's test takes when k is 0.
Coordinate(win64, m, k, d, zero) ==
  IF d > Abs(k) THEN MulDiv(win64, k, m, d)
  ELSE IF k > 0 THEN m ELSE IF k < 0 THEN -m ELSE zero

\* GetFaceCoordinates(nFace, v, x, y): the coordinates in face f for a vector
\* that may point into another one.  (s, t, d) are v's components to the
\* right, downwards and outwards as seen on f.
NearestCoordinates(win64, m, f, v) ==
  LET s == CASE f = "right" -> -v.z [] f = "left" -> v.z [] f = "back" -> -v.x [] OTHER -> v.x
      t == CASE f = "top" -> v.z [] f = "bottom" -> -v.z [] OTHER -> -v.y
      d == CASE f = "right" -> v.x [] f = "left" -> -v.x [] f = "top" -> v.y
             [] f = "bottom" -> -v.y [] f = "front" -> v.z [] f = "back" -> -v.z
      x == Coordinate(win64, m, s, d, IF f \in {"right", "back"} THEN m ELSE -m)
      y == Coordinate(win64, m, t, d, IF f = "top" THEN -m ELSE m)
  IN  [face |-> f, x |-> (x + m) \div 2, y |-> (y + m) \div 2]
===========================================================================
