------------------------------ MODULE ClipMesh ------------------------------
(***************************************************************************)
(* The mesh that every level of the clip map is drawn with: the index      *)
(* buffer that onCreate of main.cpp builds once, and the part of it that   *)
(* the geometry shader of technique PlanetFace (VKTest.glfx) lets through. *)
(* A vertex is a number: NodeEdge to a row, row after row from the top.    *)
(***************************************************************************)
EXTENDS Integers, FiniteSets

CONSTANT NodeFourth   \* NodeWidth / 4
ASSUME NodeAssumption == NodeFourth \in Nat \ {0}

NodeHalf == 2 * NodeFourth
NodeWidth == 4 * NodeFourth
NodeEdge == NodeWidth + 1

Column(n) == n % NodeEdge
Row(n) == n \div NodeEdge

Evens == {i \in 0 .. NodeWidth - 2 : i % 2 = 0}
If(condition, triangle) == IF condition THEN {triangle} ELSE {}

\* The loops.  n is the vertex the code's counter of that name is at.
TopRow ==
  UNION {If(n > 0, <<n, n + NodeEdge, n + NodeEdge + 1>>)
         \cup {<<n + 2, n, n + NodeEdge + 1>>}
         \cup If(n < NodeWidth - 2, <<n + 2, n + NodeEdge + 1, n + NodeEdge + 2>>) : n \in Evens}

\* The quad whose upper right vertex is n, in row i and column j.
Quad(i, j, n) ==
  CASE j = 0 /\ i % 2 = 1 -> {<<n, n - NodeEdge - 1, n + NodeEdge - 1>>, <<n, n + NodeEdge - 1, n + NodeEdge>>}
    [] j = 0 /\ i % 2 = 0 -> {<<n, n - 1, n + NodeEdge>>}
    [] j = NodeWidth - 1 /\ i % 2 = 1 ->
         {<<n - NodeEdge, n - 1, n + NodeEdge>>, <<n - 1, n + NodeEdge - 1, n + NodeEdge>>}
    [] j = NodeWidth - 1 /\ i % 2 = 0 -> {<<n, n - 1, n + NodeEdge - 1>>}
    [] OTHER -> {<<n, n - 1, n + NodeEdge>>, <<n - 1, n - 1 + NodeEdge, n + NodeEdge>>}
MiddleRows == UNION {Quad(i, j, i * NodeEdge + j + 1) : i \in 1 .. NodeWidth - 2, j \in 0 .. NodeWidth - 1}

\* Mutant: the row at the bottom uses every vertex of its edge.
BottomRowEven ==
  LET first == (NodeWidth - 1) * NodeEdge
  IN  UNION {{<<n + 1, n, n + NodeEdge>>, <<n + 1, n + NodeEdge, n + NodeEdge + 1>>} : n \in first .. first + NodeWidth - 1}

BottomRow ==
  LET first == (NodeWidth - 1) * NodeEdge
      last == first + NodeWidth
  IN  {<<first + 1, first - NodeEdge, first + NodeEdge>>, <<last - NodeEdge, last - 1, last + NodeEdge>>}
      \cup UNION {LET n == first + i IN
             If(i > 0, <<n + 1, n, n + NodeEdge>>)
             \cup {<<n + 1, n + NodeEdge, n + NodeEdge + 2>>}
             \cup If(i < NodeWidth - 2, <<n + 2, n + 1, n + NodeEdge + 2>>) : i \in Evens}

Triangles == TopRow \cup MiddleRows \cup BottomRow

---------------------------------------------------------------------------
\* vHole, as its corner: a hole is half as wide as the mesh.  The shader drops a
\* triangle that has a vertex inside it.  (It also drops triangles outside the cube
\* face, the neighbor's to draw; left out here, where the mesh is on no face.)
InHole(h, n) ==
  /\ h.x < Column(n) /\ Column(n) < h.x + NodeHalf
  /\ h.y < Row(n) /\ Row(n) < h.y + NodeHalf
Kept(h) == {t \in Triangles : \A k \in 1 .. 3 : ~InHole(h, t[k])}

---------------------------------------------------------------------------
Sides(t) == {<<t[1], t[2]>>, <<t[2], t[3]>>, <<t[3], t[1]>>}
Cross(t) ==
  (Column(t[2]) - Column(t[1])) * (Row(t[3]) - Row(t[1]))
  - (Column(t[3]) - Column(t[1])) * (Row(t[2]) - Row(t[1]))
OnRim(n) == Column(n) \in {0, NodeWidth} \/ Row(n) \in {0, NodeWidth}

\* The triangles cover the square once: all turn the same way (the pipeline culls
\* the others), no side is used twice in the same direction, and a side that no
\* other triangle uses in the opposite direction is a piece of the rim, between two
\* vertices with even coordinates, which are the ones the parent has too.
Tiled ==
  LET sides == UNION {Sides(t) : t \in Triangles}
  IN  /\ \A t \in Triangles : Cross(t) < 0
      /\ Cardinality(sides) = 3 * Cardinality(Triangles)
      /\ \A s \in sides : <<s[2], s[1]>> \notin sides =>
           /\ \/ Column(s[1]) = Column(s[2]) /\ Column(s[1]) \in {0, NodeWidth}
              \/ Row(s[1]) = Row(s[2]) /\ Row(s[1]) \in {0, NodeWidth}
           /\ \A k \in 1 .. 2 : Column(s[k]) % 2 = 0 /\ Row(s[k]) % 2 = 0

Corners(S) == UNION {{t[1], t[2], t[3]} : t \in S}

\* The places of the vertices of the rim of the mesh that are used, in a parent
\* with hole h.
RimInParent(h) ==
  {<<h.x + Column(n) \div 2, h.y + Row(n) \div 2>> : n \in {m \in Corners(Triangles) : OnRim(m)}}

\* Vertex n is in hole h or on its border.
WithinHole(h, n) ==
  /\ h.x <= Column(n) /\ Column(n) <= h.x + NodeHalf
  /\ h.y <= Row(n) /\ Row(n) <= h.y + NodeHalf

\* Around hole h the mesh ends where the child begins: nothing outside the hole
\* is dropped, what is left inside spans only places of its border, and both
\* meshes have the same vertices there.
Sewn(h) ==
  /\ \A t \in Triangles \ Kept(h) : \A k \in 1 .. 3 : WithinHole(h, t[k])
  /\ {<<Column(n), Row(n)>> : n \in {m \in Corners(Kept(h)) : WithinHole(h, m)}} = RimInParent(h)

\* A hole that does not touch the rim.
InnerHoles == [x : 1 .. NodeHalf - 1, y : 1 .. NodeHalf - 1]
===========================================================================
