-------------------------- MODULE TexelWalkProofs --------------------------
(***************************************************************************)
(* What TexelWalk checks for one width, for every width.                   *)
(***************************************************************************)
EXTENDS TexelWalk, TexelGridProofs

\* A walk over neighbors never leaves the texels of the six faces.
THEOREM WalkStaysOnFaces == Spec => []TypeOK
<1>1. Init => TypeOK
  BY DEF Init, TypeOK
<1>2. TypeOK /\ [Next]_texel => TypeOK'
  <2> SUFFICES ASSUME TypeOK, Next PROVE TypeOK'
    BY DEF TypeOK
  <2>1. PICK k \in 1 .. 8 : texel' = Neighbor(texel, k)
    BY DEF Next, Step
  <2> QED BY <2>1, NeighborIsTexel DEF TypeOK
<1> QED BY <1>1, <1>2, PTL DEF Spec

\* At every texel of the walk the tables agree with the geometry of the cube,
\* and a look across an edge and back finds the texel.
THEOREM FacesFitTogether == Spec => []FacesFit
<1>1. TypeOK => FacesFit
  <2> SUFFICES ASSUME TypeOK PROVE EdgesShared /\ ThereAndBack
    BY DEF FacesFit
  <2>1. Width \in Int /\ texel \in [face : Faces, x : Int, y : Int]
    BY WidthAssumption DEF TypeOK, Texels
  <2>2. EdgesShared
    BY <2>1, CrossEdgeShared DEF EdgesShared, Edge
  <2>3. ThereAndBack
    BY <2>1, NeighborCoordinatesInvolution DEF ThereAndBack
  <2> QED BY <2>2, <2>3
<1> QED BY <1>1, WalkStaysOnFaces, PTL

---------------------------------------------------------------------------

\* A step over an edge, seen from the face it leads to: the texel it starts at
\* is there too, on the edge, and the step is one between touching texels.
LEMMA CrossingTouches ==
  ASSUME NEW e \in Edges, NEW p \in Texels, Beyond(Width, e, p) = 0,
         NEW c \in [face : Faces, x : Int, y : Int], c.face = p.face,
         Along(e, c) \in 0 .. Width, Abs(Along(e, p) - Along(e, c)) <= 1
  PROVE  LET r == CrossEdge(Width, e, p, 0)
             q == CrossEdge(Width, e, c, 1)
         IN  /\ r \in Texels /\ q \in Texels
             /\ Touch(r, q) /\ r # q
             /\ CubePoint(Width, r) = CubePoint(Width, p)
<1> DEFINE g == NeighborFace(p.face, e)
           i == NeighborEdge(p.face, e)
           Turned(n) == IF Reversed(e, i) THEN Width - n ELSE n
           a == Turned(Along(e, p))
           b == Turned(Along(e, c))
           r == CrossEdge(Width, e, p, 0)
           q == CrossEdge(Width, e, c, 1)
<1>1. /\ Width \in Nat /\ Width >= 1
      /\ p \in [face : Faces, x : Int, y : Int]
      /\ Along(e, p) \in 0 .. Width
  BY WidthAssumption DEF Texels, Along
<1>2. i \in Edges /\ p.face \in Faces
  BY <1>1, TablesInverse
<1>3. r = Inside(Width, g, i, a, 0) /\ q = Inside(Width, g, i, b, 1)
  BY DEF CrossEdge
<1>4. a \in Int /\ b \in Int /\ a - b \in -1 .. 1
  BY <1>1 DEF Abs
<1>5. r \in Texels /\ q \in Texels
  BY <1>1, CrossEdgeInside DEF Texels
<1>6. CubePoint(Width, r) = CubePoint(Width, p)
  BY <1>1, CrossEdgeShared
<1> HIDE DEF g, i, a, b, r, q
<1>7. Touch(r, q) /\ r # q
  <2>1. CASE i \in {"top", "bottom"}
    <3>1. r.face = g /\ q.face = g /\ r.x = a /\ q.x = b
          /\ r.y \in Int /\ q.y \in Int /\ r.y - q.y \in {-1, 1}
      BY <1>1, <1>3, <2>1 DEF Inside
    <3> QED BY <1>4, <3>1 DEF Touch, Abs
  <2>2. CASE i \in {"left", "right"}
    <3>1. r.face = g /\ q.face = g /\ r.y = a /\ q.y = b
          /\ r.x \in Int /\ q.x \in Int /\ r.x - q.x \in {-1, 1}
      BY <1>1, <1>3, <2>2 DEF Inside
    <3> QED BY <1>4, <3>1 DEF Touch, Abs
  <2> QED BY <1>2, <2>1, <2>2 DEF Edges
<1> QED BY <1>5, <1>6, <1>7 DEF r, q

\* A texel as the face of one of its neighbors knows it.
LEMMA NeighborTouches ==
  ASSUME NEW p \in Texels, NEW k \in 1 .. 8
  PROVE  \E r \in Texels : /\ Touch(r, Neighbor(p, k)) /\ r # Neighbor(p, k)
                           /\ CubePoint(Width, r) = CubePoint(Width, p)
<1> DEFINE dx == Compass[k][1]
           dy == Compass[k][2]
           s == [face |-> p.face, x |-> p.x + dx, y |-> p.y + dy]
           c == Clamped(Width, s)
           P == [face : Faces, x : Int, y : Int]
<1>1. Width \in Nat /\ Width >= 1 /\ 1 \in 0 .. Width
  BY WidthAssumption
<1>2. p.face \in Faces /\ p.x \in 0 .. Width /\ p.y \in 0 .. Width
      /\ p = [face |-> p.face, x |-> p.x, y |-> p.y]
  BY DEF Texels
<1>3. dx \in -1 .. 1 /\ dy \in -1 .. 1 /\ (dx # 0 \/ dy # 0)
  BY DEF Compass
<1>4. Neighbor(p, k) = AdjustCoords(Width, s)
  BY DEF Neighbor
<1> HIDE DEF dx, dy
<1>5. s \in P /\ s.face = p.face /\ s.x = p.x + dx /\ s.y = p.y + dy
  BY <1>1, <1>2, <1>3
<1>6. /\ c \in P /\ c.face = p.face /\ c.x = s.x /\ c.y \in 0 .. Width
      /\ p.y - c.y \in -1 .. 1
  <2>1. s.y \in Int /\ p.y - s.y \in -1 .. 1
    BY <1>2, <1>3, <1>5
  <2> HIDE DEF s
  <2> DEFINE y == IF s.y < 0 THEN 0 ELSE IF s.y > Width THEN Width ELSE s.y
  <2>2. y \in 0 .. Width /\ p.y - y \in -1 .. 1
    BY <1>1, <1>2, <2>1
  <2>3. c = [s EXCEPT !.y = y]
    BY DEF Clamped
  <2> HIDE DEF y
  <2> QED BY <1>5, <2>2, <2>3
<1> HIDE DEF s, c
<1>7. ASSUME NEW e \in Edges, NEW u \in P, Beyond(Width, e, p) = 0, u.face = p.face,
             Along(e, u) \in 0 .. Width, Along(e, p) - Along(e, u) \in -1 .. 1,
             Neighbor(p, k) = CrossEdge(Width, e, u, 1)
      PROVE  \E r \in Texels : /\ Touch(r, Neighbor(p, k)) /\ r # Neighbor(p, k)
                               /\ CubePoint(Width, r) = CubePoint(Width, p)
  <2>1. Abs(Along(e, p) - Along(e, u)) <= 1
    BY <1>7 DEF Abs
  <2> QED BY <1>7, <2>1, CrossingTouches
<1>8. CASE s.x < 0
  <2>1. p.x = 0 /\ 0 - s.x = 1
    BY <1>1, <1>2, <1>3, <1>5, <1>8
  <2>2. Beyond(Width, "left", p) = 0 /\ Along("left", c) = c.y /\ Along("left", p) = p.y
    BY <2>1 DEF Beyond, Along
  <2> DEFINE q == CrossEdge(Width, "left", c, 1)
  <2>3. q \in Texels
    <3>1. Along("left", c) \in 0 .. Width /\ "left" \in Edges
      BY <1>6, <2>2 DEF Edges
    <3> QED BY <1>1, <1>6, <3>1, CrossEdgeInside DEF Texels
  <2>4. Neighbor(p, k) = q
    <3> HIDE DEF q
    <3>1. ~(q.x > Width) /\ ~(q.y < 0) /\ ~(q.y > Width)
      BY <1>1, <2>3 DEF Texels
    <3> QED BY <1>4, <1>8, <2>1, <3>1 DEF AdjustCoords, c, q
  <2> QED BY <1>6, <1>7, <2>2, <2>4 DEF Edges
<1>9. CASE s.x > Width
  <2>1. p.x = Width /\ s.x - Width = 1 /\ ~(s.x < 0)
    BY <1>1, <1>2, <1>3, <1>5, <1>9
  <2>2. Beyond(Width, "right", p) = 0 /\ Along("right", c) = c.y /\ Along("right", p) = p.y
    BY <1>1, <2>1 DEF Beyond, Along
  <2> DEFINE q == CrossEdge(Width, "right", c, 1)
  <2>3. q \in Texels
    <3>1. Along("right", c) \in 0 .. Width /\ "right" \in Edges
      BY <1>6, <2>2 DEF Edges
    <3> QED BY <1>1, <1>6, <3>1, CrossEdgeInside DEF Texels
  <2>4. Neighbor(p, k) = q
    <3> HIDE DEF q
    <3>1. ~(q.y < 0) /\ ~(q.y > Width)
      BY <1>1, <2>3 DEF Texels
    <3> QED BY <1>4, <1>9, <2>1, <3>1 DEF AdjustCoords, c, q
  <2> QED BY <1>6, <1>7, <2>2, <2>4 DEF Edges
<1>10. CASE s.x \in 0 .. Width /\ s.y < 0
  <2>1. p.y = 0 /\ 0 - s.y = 1 /\ ~(s.x < 0) /\ ~(s.x > Width) /\ p.x - s.x \in -1 .. 1
    BY <1>1, <1>2, <1>3, <1>5, <1>10
  <2>2. Beyond(Width, "top", p) = 0 /\ Along("top", s) = s.x /\ Along("top", p) = p.x
    BY <2>1 DEF Beyond, Along
  <2> DEFINE q == CrossEdge(Width, "top", s, 1)
  <2>3. q \in Texels
    <3>1. Along("top", s) \in 0 .. Width /\ "top" \in Edges
      BY <1>10, <2>2 DEF Edges
    <3> QED BY <1>1, <1>5, <3>1, CrossEdgeInside DEF Texels
  <2>4. Neighbor(p, k) = q
    <3> HIDE DEF q
    <3>1. ~(q.y > Width)
      BY <1>1, <2>3 DEF Texels
    <3> QED BY <1>4, <1>10, <2>1, <3>1 DEF AdjustCoords, q
  <2> QED BY <1>5, <1>7, <1>10, <2>1, <2>2, <2>4 DEF Edges
<1>11. CASE s.x \in 0 .. Width /\ s.y > Width
  <2>1. p.y = Width /\ s.y - Width = 1 /\ ~(s.x < 0) /\ ~(s.x > Width) /\ ~(s.y < 0)
        /\ p.x - s.x \in -1 .. 1
    BY <1>1, <1>2, <1>3, <1>5, <1>11
  <2>2. Beyond(Width, "bottom", p) = 0 /\ Along("bottom", s) = s.x /\ Along("bottom", p) = p.x
    BY <1>1, <2>1 DEF Beyond, Along
  <2>3. Neighbor(p, k) = CrossEdge(Width, "bottom", s, 1)
    BY <1>4, <1>11, <2>1 DEF AdjustCoords
  <2> QED BY <1>5, <1>7, <1>11, <2>1, <2>2, <2>3 DEF Edges
<1>12. CASE s.x \in 0 .. Width /\ s.y \in 0 .. Width
  <2>1. Neighbor(p, k) = s
    BY <1>1, <1>4, <1>12 DEF AdjustCoords
  <2>2. Touch(p, s) /\ p # s
    <3>1. p.x - s.x \in -1 .. 1 /\ p.y - s.y \in -1 .. 1 /\ (p.x # s.x \/ p.y # s.y)
      BY <1>2, <1>3, <1>5
    <3> QED BY <1>5, <3>1 DEF Touch, Abs
  <2> QED BY <2>1, <2>2
<1>13. s.x \in Int /\ s.y \in Int
  BY <1>5
<1> QED BY <1>1, <1>8, <1>9, <1>10, <1>11, <1>12, <1>13

\* Texels that touch are 2 units of the cube apart.
LEMMA TouchingAreNear ==
  ASSUME NEW p \in Texels, NEW q \in Texels, Touch(p, q), p # q
  PROVE  Distance(CubePoint(Width, p), CubePoint(Width, q)) = 2
<1> DEFINE u == CubePoint(Width, p)
           v == CubePoint(Width, q)
           S == {Abs(u.x - v.x), Abs(u.y - v.y), Abs(u.z - v.z)}
           Most(n) == n >= Abs(u.x - v.x) /\ n >= Abs(u.y - v.y) /\ n >= Abs(u.z - v.z)
<1>1. /\ Width \in Int /\ p.x \in Int /\ p.y \in Int /\ q.x \in Int /\ q.y \in Int
      /\ p.face \in Faces /\ q.face = p.face
  BY WidthAssumption DEF Texels, Touch
<1>2. p.x - q.x \in -1 .. 1 /\ p.y - q.y \in -1 .. 1 /\ (p.x # q.x \/ p.y # q.y)
  <2>1. p.x # q.x \/ p.y # q.y
    BY DEF Texels, Touch
  <2> QED BY <1>1, <2>1 DEF Touch, Abs
<1>3. S \subseteq {0, 2} /\ 2 \in S
  <2> DEFINE s == 2 * p.x - Width
             t == 2 * p.y - Width
             a == 2 * q.x - Width
             b == 2 * q.y - Width
  <2>1. /\ s \in Int /\ t \in Int /\ a \in Int /\ b \in Int
        /\ s - a \in {-2, 0, 2} /\ t - b \in {-2, 0, 2} /\ (s - a # 0 \/ t - b # 0)
    BY <1>1, <1>2
  <2>2. u = OnCube(Width, p.face, s, t) /\ v = OnCube(Width, p.face, a, b)
    BY <1>1 DEF CubePoint
  <2> HIDE DEF s, t, a, b, u, v
  <2>3. CASE p.face \in {"right", "left"}
    BY <1>1, <2>1, <2>2, <2>3 DEF OnCube, Abs
  <2>4. CASE p.face \in {"top", "bottom"}
    BY <1>1, <2>1, <2>2, <2>4 DEF OnCube, Abs
  <2>5. CASE p.face \in {"front", "back"}
    BY <1>1, <2>1, <2>2, <2>5 DEF OnCube, Abs
  <2> QED BY <1>1, <2>3, <2>4, <2>5 DEF Faces
<1>4. 2 \in S /\ Most(2)
  BY <1>3
<1>5. \A n \in S : Most(n) => n = 2
  BY <1>3
<1>6. Distance(u, v) = CHOOSE n \in S : Most(n)
  BY DEF Distance
<1> HIDE DEF S, Most
<1>7. (CHOOSE n \in S : Most(n)) = 2
  BY <1>4, <1>5
<1> QED BY <1>6, <1>7

\* Being neighbors is mutual on every planet: whatever edge or corner a step of
\* the walk goes over, a step back leads to the point it came from.
THEOREM WalkIsMutual == Spec => []NeighborsMutual
<1>1. TypeOK => NeighborsMutual
  <2> SUFFICES ASSUME TypeOK, NEW k \in 1 .. 8
               PROVE  \E p \in Neighbors(Neighbor(texel, k)) :
                        CubePoint(Width, p) = CubePoint(Width, texel)
    BY DEF NeighborsMutual, Neighbors
  <2> DEFINE q == Neighbor(texel, k)
  <2>1. texel \in Texels /\ q \in Texels
    BY NeighborIsTexel DEF TypeOK
  <2>2. PICK r \in Texels : /\ Touch(r, q) /\ r # q
                            /\ CubePoint(Width, r) = CubePoint(Width, texel)
    BY <2>1, NeighborTouches
  <2>3. r \in Neighbors(q)
    BY <2>1, <2>2, TouchSymmetric, TouchingIsNeighbor DEF Neighbors
  <2> QED BY <2>2, <2>3
<1> QED BY <1>1, WalkStaysOnFaces, PTL

\* No step of the walk jumps or stays where it is, whatever edge or corner it
\* goes over.
THEOREM WalkStepsAreShort == Spec => StepsAreShort
<1>1. TypeOK /\ [Next]_texel =>
        [LET d == Distance(CubePoint(Width, texel), CubePoint(Width, texel')) IN d = 2]_texel
  <2> SUFFICES ASSUME TypeOK, NEW k \in 1 .. 8, texel' = Neighbor(texel, k)
               PROVE  Distance(CubePoint(Width, texel), CubePoint(Width, texel')) = 2
    BY DEF Next, Step
  <2>1. texel \in Texels /\ texel' \in Texels
    BY NeighborIsTexel DEF TypeOK
  <2>2. PICK r \in Texels : /\ Touch(r, texel') /\ r # texel'
                            /\ CubePoint(Width, r) = CubePoint(Width, texel)
    BY <2>1, NeighborTouches
  <2> QED BY <2>1, <2>2, TouchingAreNear
<1> QED BY <1>1, WalkStaysOnFaces, PTL DEF Spec, StepsAreShort
============================================================================
