--------------------------- MODULE ClipMapProofs ---------------------------
(***************************************************************************)
(* For vectors and faces of every size, every number of levels and every   *)
(* size of the mesh: the routines which find the face of a vector agree    *)
(* and keep its direction, the patches fit their array, every hole is      *)
(* where its child is drawn, the seams meet that should, and the mesh has  *)
(* no cracks and is sewn to its children.                                  *)
(***************************************************************************)
EXTENDS ClipMap, FiniteSetTheorems, TLAPS

\* The quotient is the only integer that leaves a remainder in range.
LEMMA DivUnique ==
  ASSUME NEW a \in Int, NEW b \in Int, b > 0, NEW q \in Int, NEW r \in 0 .. b - 1,
         a = b * q + r
  PROVE  a \div b = q
BY Z3

\* On the diagonal between two faces muldiv gives the end of the range exactly,
\* in both builds.
LEMMA MulDivTie ==
  ASSUME NEW b \in BOOLEAN, NEW m \in Nat, NEW d \in Nat, d > 0
  PROVE  MulDiv(b, d, m, d) = m /\ MulDiv(b, -d, m, d) = -m
<1>1. (d * m) \div d = m
  <2>1. d * m \in Int /\ d * m = d * m + 0 /\ 0 \in 0 .. d - 1
    OBVIOUS
  <2> QED BY <2>1, DivUnique
<1>2. (2 * d * m + d) \div (2 * d) = m
  <2>1. d \in 0 .. 2 * d - 1 /\ 2 * d \in Int /\ 2 * d > 0
    OBVIOUS
  <2>2. 2 * d * m + d \in Int /\ 2 * d * m + d = (2 * d) * m + d
    OBVIOUS
  <2> QED BY <2>1, <2>2, DivUnique
<1>3. ~(d < 0) /\ -d < 0 /\ -(-d) = d
  OBVIOUS
<1> QED BY <1>1, <1>2, <1>3 DEF MulDiv

\* Where the vector points through the face, the clamping of Coordinate is
\* what muldiv would give anyway.
LEMMA CoordinateOfOwnFace ==
  ASSUME NEW b \in BOOLEAN, NEW m \in Nat, NEW d \in Nat, d > 0,
         NEW k \in Int, d >= Abs(k), NEW zero
  PROVE  Coordinate(b, m, k, d, zero) = MulDiv(b, k, m, d)
<1>1. CASE d > Abs(k)
  BY <1>1 DEF Coordinate
<1>2. CASE d = Abs(k) /\ k > 0
  BY <1>2, MulDivTie DEF Coordinate, Abs
<1>3. CASE d = Abs(k) /\ k < 0
  <2>1. k = -d /\ ~(d > Abs(k)) /\ ~(k > 0)
    BY <1>3 DEF Abs
  <2> QED BY <1>3, <2>1, MulDivTie DEF Coordinate
<1> QED BY <1>1, <1>2, <1>3 DEF Abs

LEMMA RoutinesAgreeAlways ==
  ASSUME NEW b \in BOOLEAN, NEW m \in Nat, NEW u \in [x : Int, y : Int, z : Int], u # Zero
  PROVE  LET p == GetFaceCoordinates(b, m, u)
         IN  GetFace(u) = p.face /\ NearestCoordinates(b, m, p.face, u) = p
<1> DEFINE p == GetFaceCoordinates(b, m, u)
           ax == Abs(u.x)
           ay == Abs(u.y)
           az == Abs(u.z)
           At(f, s, t, d) == [face |-> f,
                              x |-> (MulDiv(b, s, m, d) + m) \div 2,
                              y |-> (MulDiv(b, t, m, d) + m) \div 2]
<1>1. /\ u.x \in Int /\ u.y \in Int /\ u.z \in Int
      /\ ax \in Nat /\ ay \in Nat /\ az \in Nat
      /\ ax > 0 \/ ay > 0 \/ az > 0
      /\ Abs(-u.x) = ax /\ Abs(-u.y) = ay /\ Abs(-u.z) = az
  <2>1. u.x # 0 \/ u.y # 0 \/ u.z # 0
    BY DEF Zero
  <2> QED BY <2>1 DEF Abs
<1>2. CASE ax > ay /\ ax > az /\ u.x > 0
  <2>1. p = At("right", -u.z, -u.y, ax) /\ GetFace(u) = "right" /\ ax = u.x
    BY <1>1, <1>2 DEF GetFaceCoordinates, FacePoint, GetFace, Abs
  <2>2. \A k \in {-u.z, -u.y}, zero \in Int : Coordinate(b, m, k, u.x, zero) = MulDiv(b, k, m, u.x)
    BY <1>1, <1>2, <2>1, CoordinateOfOwnFace
  <2> QED BY <1>1, <2>1, <2>2 DEF NearestCoordinates
<1>3. CASE ax > ay /\ ax > az /\ ~(u.x > 0)
  <2>1. p = At("left", u.z, -u.y, ax) /\ GetFace(u) = "left" /\ ax = -u.x
    BY <1>1, <1>3 DEF GetFaceCoordinates, FacePoint, GetFace, Abs
  <2>2. \A k \in {u.z, -u.y}, zero \in Int : Coordinate(b, m, k, -u.x, zero) = MulDiv(b, k, m, -u.x)
    BY <1>1, <1>3, <2>1, CoordinateOfOwnFace
  <2> QED BY <1>1, <2>1, <2>2 DEF NearestCoordinates
<1>4. CASE ~(ax > ay /\ ax > az) /\ ay > az /\ u.y > 0
  <2>1. p = At("top", u.x, u.z, ay) /\ GetFace(u) = "top" /\ ay = u.y /\ ay >= ax
    BY <1>1, <1>4 DEF GetFaceCoordinates, FacePoint, GetFace, Abs
  <2>2. \A k \in {u.x, u.z}, zero \in Int : Coordinate(b, m, k, u.y, zero) = MulDiv(b, k, m, u.y)
    BY <1>1, <1>4, <2>1, CoordinateOfOwnFace
  <2> QED BY <1>1, <2>1, <2>2 DEF NearestCoordinates
<1>5. CASE ~(ax > ay /\ ax > az) /\ ay > az /\ ~(u.y > 0)
  <2>1. p = At("bottom", u.x, -u.z, ay) /\ GetFace(u) = "bottom" /\ ay = -u.y /\ ay >= ax
    BY <1>1, <1>5 DEF GetFaceCoordinates, FacePoint, GetFace, Abs
  <2>2. \A k \in {u.x, -u.z}, zero \in Int : Coordinate(b, m, k, -u.y, zero) = MulDiv(b, k, m, -u.y)
    BY <1>1, <1>5, <2>1, CoordinateOfOwnFace
  <2> QED BY <1>1, <2>1, <2>2 DEF NearestCoordinates
<1>6. CASE ~(ax > ay /\ ax > az) /\ ~(ay > az) /\ u.z > 0
  <2>1. p = At("front", u.x, -u.y, az) /\ GetFace(u) = "front" /\ az = u.z /\ az >= ax /\ az >= ay
    BY <1>1, <1>6 DEF GetFaceCoordinates, FacePoint, GetFace, Abs
  <2>2. \A k \in {u.x, -u.y}, zero \in Int : Coordinate(b, m, k, u.z, zero) = MulDiv(b, k, m, u.z)
    BY <1>1, <1>6, <2>1, CoordinateOfOwnFace
  <2> QED BY <1>1, <2>1, <2>2 DEF NearestCoordinates
<1>7. CASE ~(ax > ay /\ ax > az) /\ ~(ay > az) /\ ~(u.z > 0)
  <2>1. p = At("back", -u.x, -u.y, az) /\ GetFace(u) = "back" /\ az = -u.z /\ az >= ax /\ az >= ay
    BY <1>1, <1>7 DEF GetFaceCoordinates, FacePoint, GetFace, Abs
  <2>2. \A k \in {-u.x, -u.y}, zero \in Int : Coordinate(b, m, k, -u.z, zero) = MulDiv(b, k, m, -u.z)
    BY <1>1, <1>7, <2>1, CoordinateOfOwnFace
  <2> QED BY <1>1, <2>1, <2>2 DEF NearestCoordinates
<1> QED BY <1>2, <1>3, <1>4, <1>5, <1>6, <1>7

\* However the camera moves, GetFace and both versions of GetFaceCoordinates
\* agree on the face beneath it and on the coordinates in that face.
THEOREM FaceRoutinesAgree == CameraSpec => []RoutinesAgree
<1> DEFINE Inv == v \in Vectors /\ win64 \in BOOLEAN
<1>1. CameraInit => Inv
  BY ReachAssumption DEF CameraInit, Vectors, Zero
<1>2. Inv /\ [CameraMove]_camera => Inv'
  BY DEF CameraMove, camera
<1>3. Inv => RoutinesAgree
  <2> SUFFICES ASSUME Inv PROVE RoutinesAgree
    OBVIOUS
  <2>1. MaxCoord \in Nat /\ v \in [x : Int, y : Int, z : Int] /\ v # Zero
    BY CoordAssumption, ReachAssumption DEF Vectors
  <2> QED BY <2>1, RoutinesAgreeAlways DEF RoutinesAgree, Found
<1> QED BY <1>1, <1>2, <1>3, PTL DEF CameraSpec

---------------------------------------------------------------------------
(* Rounding. *)

\* The quotient leaves less than the divisor.
LEMMA DivBounds ==
  ASSUME NEW a \in Int, NEW b \in Int, b > 0
  PROVE  a \div b \in Int /\ b * (a \div b) <= a /\ a < b * (a \div b) + b
BY Z3

LEMMA DivNat ==
  ASSUME NEW a \in Nat, NEW b \in Int, b > 0
  PROVE  a \div b \in Nat
BY Z3

\* What muldiv gives is less than one off the exact quotient, in both builds.
LEMMA MulDivNear ==
  ASSUME NEW b \in BOOLEAN, NEW k \in Int, NEW m \in Nat, NEW d \in Nat, d > 0
  PROVE  /\ MulDiv(b, k, m, d) \in Int
         /\ -d < MulDiv(b, k, m, d) * d - k * m
         /\ MulDiv(b, k, m, d) * d - k * m < d
<1> DEFINE Quotient(n) == IF b THEN (n * m) \div d ELSE (2 * n * m + d) \div (2 * d)
<1>1. ASSUME NEW n \in Nat
      PROVE  Quotient(n) \in Int /\ -d < Quotient(n) * d - n * m /\ Quotient(n) * d - n * m < d
  <2> DEFINE x == n * m
  <2>1. x \in Int /\ 2 * n * m = 2 * x
    OBVIOUS
  <2> HIDE DEF x
  <2>2. CASE b
    <3> DEFINE q == x \div d
    <3>1. q \in Int /\ d * q <= x /\ x < d * q + d
      BY <2>1, DivBounds
    <3>2. Quotient(n) = q
      BY <2>2 DEF x
    <3> HIDE DEF q, Quotient
    <3> QED BY <2>1, <3>1, <3>2 DEF x
  <2>3. CASE ~b
    <3> DEFINE q == (2 * x + d) \div (2 * d)
    <3>1. q \in Int /\ (2 * d) * q <= 2 * x + d /\ 2 * x + d < (2 * d) * q + 2 * d
      BY <2>1, DivBounds
    <3>2. Quotient(n) = q
      BY <2>1, <2>3
    <3> HIDE DEF q, Quotient
    <3>3. q * d \in Int /\ (2 * d) * q = 2 * (q * d)
      BY <3>1
    <3>4. -d < q * d - x /\ q * d - x < d
      BY <2>1, <3>1, <3>3
    <3> QED BY <3>1, <3>2, <3>4 DEF x
  <2> QED BY <2>2, <2>3
<1> HIDE DEF Quotient
<1>2. MulDiv(b, k, m, d) = IF k < 0 THEN -Quotient(-k) ELSE Quotient(k)
  BY DEF MulDiv, Quotient
<1>3. CASE k < 0
  <2> DEFINE q == Quotient(-k)
  <2>1. q \in Int /\ -d < q * d - (-k) * m /\ q * d - (-k) * m < d
    BY <1>1, <1>3
  <2>2. MulDiv(b, k, m, d) = -q
    BY <1>2, <1>3
  <2> HIDE DEF q
  <2>3. (-k) * m = -(k * m) /\ (-q) * d = -(q * d) /\ q * d \in Int /\ k * m \in Int
    BY <2>1
  <2> QED BY <2>1, <2>2, <2>3
<1>4. CASE ~(k < 0)
  BY <1>1, <1>2, <1>4
<1> QED BY <1>3, <1>4

\* A coordinate of FacePoint, moved back to the middle of the face: in range, and
\* less than two units off the vector.
LEMMA CoordinateNear ==
  ASSUME NEW b \in BOOLEAN, NEW k \in Int, NEW m \in Nat, NEW d \in Nat, d > 0, Abs(k) <= d
  PROVE  LET i == (MulDiv(b, k, m, d) + m) \div 2
         IN  /\ i \in 0 .. m
             /\ Abs((2 * i - m) * d - k * m) < 2 * d
<1> DEFINE n == MulDiv(b, k, m, d)
           i == (n + m) \div 2
<1>1. n \in Int /\ -d < n * d - k * m /\ n * d - k * m < d
  BY MulDivNear
<1>2. -m <= n /\ n <= m
  <2>1. k * m <= d * m /\ -(d * m) <= k * m
    BY DEF Abs
  <2>2. n * d < (m + 1) * d /\ -((m + 1) * d) < n * d
    BY <1>1, <2>1
  <2>3. n < m + 1 /\ -(m + 1) < n
    BY <1>1, <2>2
  <2> QED BY <1>1, <2>3
<1> HIDE DEF n
<1>3. i \in Int /\ 2 * i <= n + m /\ n + m < 2 * i + 2
  BY <1>1, DivBounds
<1> HIDE DEF i
<1>4. i \in 0 .. m
  BY <1>1, <1>2, <1>3
<1>5. 2 * i - m = n \/ 2 * i - m = n - 1
  BY <1>1, <1>3
<1>6. Abs((2 * i - m) * d - k * m) < 2 * d
  <2>1. n * d \in Int /\ k * m \in Int /\ (n - 1) * d = n * d - d
    BY <1>1
  <2> QED BY <1>1, <1>5, <2>1 DEF Abs
<1> QED BY <1>4, <1>6 DEF i, n

\* Coordinate i of a face of half-width m is near component k of a vector whose
\* longest component is d.
Near(i, k, m, d) == Abs(i * d - k * m) < 2 * d

LEMMA NearFlips ==
  ASSUME NEW i \in Int, NEW k \in Int, NEW m \in Int, NEW d \in Int, Near(i, -k, m, d)
  PROVE  Near(-i, k, m, d)
<1>1. i * d \in Int /\ k * m \in Int /\ (-i) * d = -(i * d) /\ (-k) * m = -(k * m)
  OBVIOUS
<1> QED BY <1>1 DEF Near, Abs

LEMMA NearEnds ==
  ASSUME NEW m \in Int, NEW d \in Nat, d > 0
  PROVE  Near(m, d, m, d) /\ Near(-m, -d, m, d)
<1>1. m * d - d * m = 0 /\ (-m) * d - (-d) * m = 0
  OBVIOUS
<1> QED BY <1>1 DEF Near, Abs

\* FacePoint finds a point of its face near a vector that points through it.
LEMMA FacePointNear ==
  ASSUME NEW b \in BOOLEAN, NEW m \in Nat, NEW f \in Faces, NEW s \in Int, NEW t \in Int,
         NEW d \in Nat, d > 0, Abs(s) <= d, Abs(t) <= d
  PROVE  LET p == FacePoint(b, m, f, s, t, d)
         IN  /\ p \in [face : Faces, x : 0 .. m, y : 0 .. m] /\ p.face = f
             /\ Near(2 * p.x - m, s, m, d) /\ Near(2 * p.y - m, t, m, d)
             /\ 2 * p.x - m \in Int /\ 2 * p.y - m \in Int
<1> DEFINE x == (MulDiv(b, s, m, d) + m) \div 2
           y == (MulDiv(b, t, m, d) + m) \div 2
<1>1. x \in 0 .. m /\ y \in 0 .. m /\ Near(2 * x - m, s, m, d) /\ Near(2 * y - m, t, m, d)
  BY CoordinateNear DEF Near
<1>2. FacePoint(b, m, f, s, t, d) = [face |-> f, x |-> x, y |-> y]
  BY DEF FacePoint
<1> HIDE DEF x, y
<1> QED BY <1>1, <1>2

Largest(u, d) ==
  /\ d \in {Abs(u.x), Abs(u.y), Abs(u.z)}
  /\ d >= Abs(u.x) /\ d >= Abs(u.y) /\ d >= Abs(u.z)

NearAll(c, u, m, d) == Near(c.x, u.x, m, d) /\ Near(c.y, u.y, m, d) /\ Near(c.z, u.z, m, d)

LEMMA FoundNear ==
  ASSUME NEW b \in BOOLEAN, NEW m \in Nat, NEW u \in [x : Int, y : Int, z : Int], u # Zero
  PROVE  LET p == GetFaceCoordinates(b, m, u)
         IN  /\ p \in [face : Faces, x : 0 .. m, y : 0 .. m]
             /\ \E d \in Nat : d > 0 /\ Largest(u, d) /\ NearAll(CubePoint(m, p), u, m, d)
<1> DEFINE p == GetFaceCoordinates(b, m, u)
           ax == Abs(u.x)
           ay == Abs(u.y)
           az == Abs(u.z)
           At(f, s, t, d) == FacePoint(b, m, f, s, t, d)
           Good(d) == /\ p \in [face : Faces, x : 0 .. m, y : 0 .. m]
                      /\ d \in Nat /\ d > 0 /\ Largest(u, d) /\ NearAll(CubePoint(m, p), u, m, d)
<1>1. /\ u.x \in Int /\ u.y \in Int /\ u.z \in Int
      /\ ax \in Nat /\ ay \in Nat /\ az \in Nat
      /\ ax > 0 \/ ay > 0 \/ az > 0
      /\ Abs(-u.x) = ax /\ Abs(-u.y) = ay /\ Abs(-u.z) = az
      /\ -u.x \in Int /\ -u.y \in Int /\ -u.z \in Int /\ -(-u.x) = u.x /\ -(-u.y) = u.y /\ -(-u.z) = u.z
  <2>1. u.x # 0 \/ u.y # 0 \/ u.z # 0
    BY DEF Zero
  <2> QED BY <2>1 DEF Abs
<1>2. CASE ax > ay /\ ax > az /\ u.x > 0
  <2>1. p = At("right", -u.z, -u.y, ax) /\ ax = u.x /\ ax > 0 /\ Largest(u, ax) /\ "right" \in Faces
    BY <1>1, <1>2 DEF GetFaceCoordinates, Largest, Abs, Faces
  <2> HIDE DEF p
  <2>2. /\ p \in [face : Faces, x : 0 .. m, y : 0 .. m] /\ p.face = "right"
        /\ Near(2 * p.x - m, -u.z, m, ax) /\ Near(2 * p.y - m, -u.y, m, ax)
        /\ 2 * p.x - m \in Int /\ 2 * p.y - m \in Int
    BY <1>1, <2>1, FacePointNear DEF Largest
  <2>3. CubePoint(m, p) = OnCube(m, "right", 2 * p.x - m, 2 * p.y - m)
    BY <2>2 DEF CubePoint
  <2> DEFINE s == 2 * p.x - m
             t == 2 * p.y - m
  <2> HIDE DEF s, t
  <2>4. NearAll(OnCube(m, "right", s, t), u, m, ax)
    BY <1>1, <2>1, <2>2, NearFlips, NearEnds DEF OnCube, NearAll, s, t
  <2>5. Good(ax)
    BY <1>1, <2>1, <2>2, <2>3, <2>4 DEF s, t
  <2> QED BY <2>5 DEF p
<1>3. CASE ax > ay /\ ax > az /\ ~(u.x > 0)
  <2>1. p = At("left", u.z, -u.y, ax) /\ ax = -u.x /\ ax > 0 /\ Largest(u, ax) /\ "left" \in Faces
    BY <1>1, <1>3 DEF GetFaceCoordinates, Largest, Abs, Faces
  <2> HIDE DEF p
  <2>2. /\ p \in [face : Faces, x : 0 .. m, y : 0 .. m] /\ p.face = "left"
        /\ Near(2 * p.x - m, u.z, m, ax) /\ Near(2 * p.y - m, -u.y, m, ax)
        /\ 2 * p.x - m \in Int /\ 2 * p.y - m \in Int
    BY <1>1, <2>1, FacePointNear DEF Largest
  <2>3. CubePoint(m, p) = OnCube(m, "left", 2 * p.x - m, 2 * p.y - m)
    BY <2>2 DEF CubePoint
  <2> DEFINE s == 2 * p.x - m
             t == 2 * p.y - m
  <2> HIDE DEF s, t
  <2>4. NearAll(OnCube(m, "left", s, t), u, m, ax)
    BY <1>1, <2>1, <2>2, NearFlips, NearEnds DEF OnCube, NearAll, s, t
  <2>5. Good(ax)
    BY <1>1, <2>1, <2>2, <2>3, <2>4 DEF s, t
  <2> QED BY <2>5 DEF p
<1>4. CASE ~(ax > ay /\ ax > az) /\ ay > az /\ u.y > 0
  <2>1. p = At("top", u.x, u.z, ay) /\ ay = u.y /\ ay > 0 /\ Largest(u, ay) /\ "top" \in Faces
    BY <1>1, <1>4 DEF GetFaceCoordinates, Largest, Abs, Faces
  <2> HIDE DEF p
  <2>2. /\ p \in [face : Faces, x : 0 .. m, y : 0 .. m] /\ p.face = "top"
        /\ Near(2 * p.x - m, u.x, m, ay) /\ Near(2 * p.y - m, u.z, m, ay)
        /\ 2 * p.x - m \in Int /\ 2 * p.y - m \in Int
    BY <1>1, <2>1, FacePointNear DEF Largest
  <2>3. CubePoint(m, p) = OnCube(m, "top", 2 * p.x - m, 2 * p.y - m)
    BY <2>2 DEF CubePoint
  <2> DEFINE s == 2 * p.x - m
             t == 2 * p.y - m
  <2> HIDE DEF s, t
  <2>4. NearAll(OnCube(m, "top", s, t), u, m, ay)
    BY <1>1, <2>1, <2>2, NearFlips, NearEnds DEF OnCube, NearAll, s, t
  <2>5. Good(ay)
    BY <1>1, <2>1, <2>2, <2>3, <2>4 DEF s, t
  <2> QED BY <2>5 DEF p
<1>5. CASE ~(ax > ay /\ ax > az) /\ ay > az /\ ~(u.y > 0)
  <2>1. p = At("bottom", u.x, -u.z, ay) /\ ay = -u.y /\ ay > 0 /\ Largest(u, ay) /\ "bottom" \in Faces
    BY <1>1, <1>5 DEF GetFaceCoordinates, Largest, Abs, Faces
  <2> HIDE DEF p
  <2>2. /\ p \in [face : Faces, x : 0 .. m, y : 0 .. m] /\ p.face = "bottom"
        /\ Near(2 * p.x - m, u.x, m, ay) /\ Near(2 * p.y - m, -u.z, m, ay)
        /\ 2 * p.x - m \in Int /\ 2 * p.y - m \in Int
    BY <1>1, <2>1, FacePointNear DEF Largest
  <2>3. CubePoint(m, p) = OnCube(m, "bottom", 2 * p.x - m, 2 * p.y - m)
    BY <2>2 DEF CubePoint
  <2> DEFINE s == 2 * p.x - m
             t == 2 * p.y - m
  <2> HIDE DEF s, t
  <2>4. NearAll(OnCube(m, "bottom", s, t), u, m, ay)
    BY <1>1, <2>1, <2>2, NearFlips, NearEnds DEF OnCube, NearAll, s, t
  <2>5. Good(ay)
    BY <1>1, <2>1, <2>2, <2>3, <2>4 DEF s, t
  <2> QED BY <2>5 DEF p
<1>6. CASE ~(ax > ay /\ ax > az) /\ ~(ay > az) /\ u.z > 0
  <2>1. p = At("front", u.x, -u.y, az) /\ az = u.z /\ az > 0 /\ Largest(u, az) /\ "front" \in Faces
    BY <1>1, <1>6 DEF GetFaceCoordinates, Largest, Abs, Faces
  <2> HIDE DEF p
  <2>2. /\ p \in [face : Faces, x : 0 .. m, y : 0 .. m] /\ p.face = "front"
        /\ Near(2 * p.x - m, u.x, m, az) /\ Near(2 * p.y - m, -u.y, m, az)
        /\ 2 * p.x - m \in Int /\ 2 * p.y - m \in Int
    BY <1>1, <2>1, FacePointNear DEF Largest
  <2>3. CubePoint(m, p) = OnCube(m, "front", 2 * p.x - m, 2 * p.y - m)
    BY <2>2 DEF CubePoint
  <2> DEFINE s == 2 * p.x - m
             t == 2 * p.y - m
  <2> HIDE DEF s, t
  <2>4. NearAll(OnCube(m, "front", s, t), u, m, az)
    BY <1>1, <2>1, <2>2, NearFlips, NearEnds DEF OnCube, NearAll, s, t
  <2>5. Good(az)
    BY <1>1, <2>1, <2>2, <2>3, <2>4 DEF s, t
  <2> QED BY <2>5 DEF p
<1>7. CASE ~(ax > ay /\ ax > az) /\ ~(ay > az) /\ ~(u.z > 0)
  <2>1. p = At("back", -u.x, -u.y, az) /\ az = -u.z /\ az > 0 /\ Largest(u, az) /\ "back" \in Faces
    BY <1>1, <1>7 DEF GetFaceCoordinates, Largest, Abs, Faces
  <2> HIDE DEF p
  <2>2. /\ p \in [face : Faces, x : 0 .. m, y : 0 .. m] /\ p.face = "back"
        /\ Near(2 * p.x - m, -u.x, m, az) /\ Near(2 * p.y - m, -u.y, m, az)
        /\ 2 * p.x - m \in Int /\ 2 * p.y - m \in Int
    BY <1>1, <2>1, FacePointNear DEF Largest
  <2>3. CubePoint(m, p) = OnCube(m, "back", 2 * p.x - m, 2 * p.y - m)
    BY <2>2 DEF CubePoint
  <2> DEFINE s == 2 * p.x - m
             t == 2 * p.y - m
  <2> HIDE DEF s, t
  <2>4. NearAll(OnCube(m, "back", s, t), u, m, az)
    BY <1>1, <2>1, <2>2, NearFlips, NearEnds DEF OnCube, NearAll, s, t
  <2>5. Good(az)
    BY <1>1, <2>1, <2>2, <2>3, <2>4 DEF s, t
  <2> QED BY <2>5 DEF p
<1> QED BY <1>2, <1>3, <1>4, <1>5, <1>6, <1>7

---------------------------------------------------------------------------
(* The camera. *)

CameraInv == v \in Vectors /\ win64 \in BOOLEAN

LEMMA CameraTyped == CameraSpec => []CameraInv
<1>1. CameraInit => CameraInv
  BY ReachAssumption DEF CameraInit, CameraInv, Vectors, Zero
<1>2. CameraInv /\ [CameraMove]_camera => CameraInv'
  BY DEF CameraInv, CameraMove, camera
<1> QED BY <1>1, <1>2, PTL DEF CameraSpec

LEMMA LargestIsLongest ==
  ASSUME NEW d \in Nat, Largest(v, d), v \in [x : Int, y : Int, z : Int]
  PROVE  Longest = d
<1> DEFINE S == {Abs(v.x), Abs(v.y), Abs(v.z)}
           Most(n) == n >= Abs(v.x) /\ n >= Abs(v.y) /\ n >= Abs(v.z)
<1>1. d \in S /\ Most(d)
  BY DEF Largest
<1>2. \A n \in S : Most(n) => n = d
  BY DEF Largest, Abs
<1>3. Longest = CHOOSE n \in S : Most(n)
  BY DEF Longest
<1> HIDE DEF S, Most
<1> QED BY <1>1, <1>2, <1>3

LEMMA FoundIsNear ==
  ASSUME CameraInv
  PROVE  Found \in [face : Faces, x : 0 .. MaxCoord, y : 0 .. MaxCoord] /\ DirectionKept
<1>1. MaxCoord \in Nat /\ v \in [x : Int, y : Int, z : Int] /\ v # Zero /\ win64 \in BOOLEAN
  BY CoordAssumption, ReachAssumption DEF CameraInv, Vectors
<1>2. /\ Found \in [face : Faces, x : 0 .. MaxCoord, y : 0 .. MaxCoord]
      /\ \E d \in Nat : d > 0 /\ Largest(v, d) /\ NearAll(CubePoint(MaxCoord, Found), v, MaxCoord, d)
  BY <1>1, FoundNear DEF Found
<1>3. PICK d \in Nat : d > 0 /\ Largest(v, d) /\ NearAll(CubePoint(MaxCoord, Found), v, MaxCoord, d)
  BY <1>2
<1>4. Longest = d
  BY <1>1, <1>3, LargestIsLongest
<1> DEFINE c == CubePoint(MaxCoord, Found)
<1> HIDE DEF c
<1>5. Near(c["x"], v["x"], MaxCoord, d) /\ Near(c["y"], v["y"], MaxCoord, d) /\ Near(c["z"], v["z"], MaxCoord, d)
  BY <1>3 DEF NearAll, c
<1>6. DirectionKept
  BY <1>4, <1>5 DEF DirectionKept, Near, c
<1> QED BY <1>2, <1>6

\* The coordinates found always name the direction of the camera, but for less
\* than two units of a face: in both builds, for vectors of every length, through
\* edges and corners too.
THEOREM FaceCoordinatesKeepDirection == CameraSpec => []DirectionKept
BY CameraTyped, FoundIsNear, PTL

---------------------------------------------------------------------------
(* The patches. *)

FaceSides == Edges \cup {"front"}

LEMMA SidesAndFaces ==
  /\ IsFiniteSet(FaceSides) /\ Cardinality(FaceSides) = 5
  /\ IsFiniteSet(Faces) /\ Cardinality(Faces) = 6
<1>1. IsFiniteSet({}) /\ Cardinality({}) = 0
  BY FS_EmptySet
<1> DEFINE a1 == {} \cup {"top"}
           a2 == a1 \cup {"right"}
           a3 == a2 \cup {"bottom"}
           a4 == a3 \cup {"left"}
           a5 == a4 \cup {"front"}
           b1 == {} \cup {"right"}
           b2 == b1 \cup {"left"}
           b3 == b2 \cup {"top"}
           b4 == b3 \cup {"bottom"}
           b5 == b4 \cup {"front"}
           b6 == b5 \cup {"back"}
<1>2. /\ "top" \notin {} /\ "right" \notin a1 /\ "bottom" \notin a2 /\ "left" \notin a3 /\ "front" \notin a4
      /\ "right" \notin {} /\ "left" \notin b1 /\ "top" \notin b2 /\ "bottom" \notin b3
      /\ "front" \notin b4 /\ "back" \notin b5
      /\ FaceSides = a5 /\ Faces = b6
  BY DEF FaceSides, Edges, Faces
<1> HIDE DEF a2, a3, a4, a5, b2, b3, b4, b5, b6
<1>3. IsFiniteSet(a1) /\ Cardinality(a1) = 1 /\ IsFiniteSet(b1) /\ Cardinality(b1) = 1
  <2>1. \A e \in {"top", "right"} : IsFiniteSet({} \cup {e}) /\ Cardinality({} \cup {e}) = 1
    <3> DEFINE none == {}
    <3>1. IsFiniteSet(none) /\ Cardinality(none) = 0 /\ \A e : e \notin none
      BY <1>1
    <3> HIDE DEF none
    <3>2. \A e : IsFiniteSet(none \cup {e}) /\ Cardinality(none \cup {e}) = 1
      BY <3>1, FS_AddElement
    <3> QED BY <3>2 DEF none
  <2> QED BY <2>1
<1>4. IsFiniteSet(a2) /\ Cardinality(a2) = 2 /\ IsFiniteSet(b2) /\ Cardinality(b2) = 2
  BY <1>2, <1>3, FS_AddElement DEF a2, b2
<1>5. IsFiniteSet(a3) /\ Cardinality(a3) = 3 /\ IsFiniteSet(b3) /\ Cardinality(b3) = 3
  BY <1>2, <1>4, FS_AddElement DEF a3, b3
<1>6. IsFiniteSet(a4) /\ Cardinality(a4) = 4 /\ IsFiniteSet(b4) /\ Cardinality(b4) = 4
  BY <1>2, <1>5, FS_AddElement DEF a4, b4
<1>7. IsFiniteSet(a5) /\ Cardinality(a5) = 5 /\ IsFiniteSet(b5) /\ Cardinality(b5) = 5
  BY <1>2, <1>6, FS_AddElement DEF a5, b5
<1>8. IsFiniteSet(b6) /\ Cardinality(b6) = 6
  BY <1>2, <1>7, FS_AddElement DEF b6
<1> QED BY <1>2, <1>7, <1>8

\* There is one patch for each side and level, at most.
LEMMA PatchesFit ==
  ASSUME deepest \in 0 .. MaxLevels - 1
  PROVE  IsFiniteSet(Patches) /\ Cardinality(Patches) <= MaxLevels * Cardinality(Faces)
<1> DEFINE S == FaceSides \X (0 .. MaxLevels - 1)
           f == [p \in S |-> Patch(p[1], p[2], Child(p[1], p[2]))]
           T == {f[p] : p \in S}
<1>1. MaxLevels \in Nat /\ MaxLevels >= 2
  BY LevelsAssumption
<1>2. IsFiniteSet(S) /\ Cardinality(S) = 5 * MaxLevels
  <2>1. IsFiniteSet(0 .. MaxLevels - 1) /\ Cardinality(0 .. MaxLevels - 1) = MaxLevels
    BY <1>1, FS_Interval
  <2> QED BY <2>1, SidesAndFaces, FS_Product
<1>3. f \in Surjection(S, T)
  BY DEF Surjection
<1>4. IsFiniteSet(T) /\ Cardinality(T) <= Cardinality(S)
  <2> HIDE DEF S, f, T
  <2> QED BY <1>2, <1>3, FS_Surjection
<1>5. Patches \subseteq T
  <2>1. ASSUME NEW side \in FaceSides, NEW level \in DrawnOn(side) \cup {0}
        PROVE  Patch(side, level, Child(side, level)) \in T
    <3>1. level \in 0 .. MaxLevels - 1
      BY <1>1 DEF DrawnOn, NeighborLevels
    <3>2. <<side, level>> \in S /\ f[<<side, level>>] = Patch(side, level, Child(side, level))
      BY <3>1
    <3> QED BY <3>2
  <2> QED BY <2>1 DEF Patches, FaceSides
<1>6. IsFiniteSet(Patches) /\ Cardinality(Patches) <= Cardinality(T)
  <2> HIDE DEF T
  <2> QED BY <1>4, <1>5, FS_Subset
<1>7. Cardinality(Patches) \in Nat /\ Cardinality(T) \in Nat
  <2> HIDE DEF T
  <2> QED BY <1>4, <1>6, FS_CardinalityType
<1> HIDE DEF S, T
<1> QED BY <1>1, <1>2, <1>4, <1>6, <1>7, SidesAndFaces

---------------------------------------------------------------------------
(* Powers of two, counted as the subsets of an interval. *)

LEMMA PowerDoubles ==
  ASSUME NEW n \in Nat
  PROVE  2^n \in Nat /\ 2^n > 0 /\ 2^(n + 1) = 2 * 2^n
<1> DEFINE S == 1 .. n
           T == 1 .. n + 1
           With == {A \in SUBSET T : n + 1 \in A}
           f == [A \in SUBSET S |-> A \cup {n + 1}]
<1>1. /\ IsFiniteSet(S) /\ Cardinality(S) = n
      /\ IsFiniteSet(T) /\ Cardinality(T) = n + 1
  BY FS_Interval
<1>2. T = S \cup {n + 1} /\ n + 1 \notin S
  OBVIOUS
<1> HIDE DEF S, T
<1>3. /\ IsFiniteSet(SUBSET S) /\ Cardinality(SUBSET S) = 2^n
      /\ IsFiniteSet(SUBSET T) /\ Cardinality(SUBSET T) = 2^(n + 1)
  BY <1>1, FS_SUBSET
<1>4. f \in Bijection(SUBSET S, With)
  <2>1. f \in [SUBSET S -> With]
    BY <1>2
  <2>2. \A A, B \in SUBSET S : f[A] = f[B] => A = B
    BY <1>2
  <2>3. \A B \in With : \E A \in SUBSET S : f[A] = B
    <3> SUFFICES ASSUME NEW B \in With PROVE \E A \in SUBSET S : f[A] = B
      OBVIOUS
    <3>1. B \ {n + 1} \in SUBSET S /\ (B \ {n + 1}) \cup {n + 1} = B
      BY <1>2
    <3> QED BY <3>1
  <2> HIDE DEF f, With
  <2> QED BY <2>1, <2>2, <2>3 DEF Bijection, Injection, Surjection, IsInjective
<1>5. IsFiniteSet(With) /\ Cardinality(With) = 2^n
  <2>1. ExistsBijection(SUBSET S, With)
    BY <1>4 DEF ExistsBijection
  <2> HIDE DEF With
  <2> QED BY <1>3, <2>1, FS_Bijection
<1>6. SUBSET T = (SUBSET S) \cup With /\ (SUBSET S) \cap With = {}
  BY <1>2
<1> HIDE DEF With
<1>7. Cardinality(SUBSET T) = Cardinality(SUBSET S) + Cardinality(With) - Cardinality((SUBSET S) \cap With)
  BY <1>3, <1>5, <1>6, FS_Union
<1>8. Cardinality((SUBSET S) \cap With) = 0
  BY <1>6, FS_EmptySet
<1>9. Cardinality(SUBSET S) \in Nat /\ Cardinality(SUBSET S) # 0
  <2>1. S \in SUBSET S
    OBVIOUS
  <2> QED BY <1>3, <2>1, FS_CardinalityType, FS_EmptySet
<1> QED BY <1>3, <1>5, <1>7, <1>8, <1>9

---------------------------------------------------------------------------
(* Levels.  Mid(l) is half the width of a face in units of level l. *)

LEMMA NatLeast ==
  ASSUME NEW S \in SUBSET Nat, S # {}
  PROVE  \E m \in S : \A k \in S : m <= k
<1>1. PICK m \in S : \A k \in S : ~(<<k, m>> \in OpToRel(<, Nat))
  BY NatLessThanWellFounded, WFMin, Zenon
<1>2. \A k \in S : ~(k < m)
  BY <1>1 DEF OpToRel
<1> QED BY <1>2

\* Induction on the natural numbers, for sets.
LEMMA NatInduct ==
  ASSUME NEW T \in SUBSET Nat, 0 \in T, \A n \in T : n + 1 \in T
  PROVE  T = Nat
<1> SUFFICES ASSUME Nat \ T # {} PROVE FALSE
  OBVIOUS
<1>1. PICK m \in Nat \ T : \A k \in Nat \ T : ~(<<k, m>> \in OpToRel(<, Nat))
  BY NatLessThanWellFounded, WFMin, Zenon
<1>2. \A k \in Nat \ T : ~(k < m)
  BY <1>1 DEF OpToRel
<1>3. m # 0 /\ m - 1 \in Nat
  OBVIOUS
<1>4. m - 1 \in T
  BY <1>2, <1>3
<1> QED BY <1>3, <1>4

Mid(l) == NodeFourth * 2^l

LEMMA FactorHalves ==
  ASSUME NEW l \in Levels
  PROVE  /\ Factor(l) \in Nat /\ Factor(l) > 0
         /\ Mid(l) \in Nat /\ Mid(l) > 0
         /\ Mid(l + 1) = 2 * Mid(l)
         /\ l + 1 \in Levels => Factor(l) = 2 * Factor(l + 1)
<1>1. MaxLevels \in Nat /\ NodeFourth \in Nat /\ NodeFourth > 0 /\ l \in Nat /\ l <= MaxLevels - 1
  BY LevelsAssumption, NodeAssumption DEF Levels
<1>2. Factor(l) \in Nat /\ Factor(l) > 0
  BY <1>1, PowerDoubles DEF Factor
<1>3. 2^l \in Nat /\ 2^l > 0 /\ 2^(l + 1) = 2 * 2^l
  BY <1>1, PowerDoubles
<1>4. Mid(l) \in Nat /\ Mid(l) > 0 /\ Mid(l + 1) = 2 * Mid(l)
  <2> DEFINE x == 2^l
  <2>1. x \in Nat /\ x > 0 /\ Mid(l) = NodeFourth * x /\ Mid(l + 1) = NodeFourth * (2 * x)
    BY <1>3 DEF Mid
  <2> HIDE DEF x
  <2>2. NodeFourth * x \in Nat /\ NodeFourth * x > 0 /\ NodeFourth * (2 * x) = 2 * (NodeFourth * x)
    BY <1>1, <2>1
  <2> QED BY <2>1, <2>2
<1>5. ASSUME l + 1 \in Levels PROVE Factor(l) = 2 * Factor(l + 1)
  <2> DEFINE n == MaxLevels - 1 - (l + 1)
  <2>1. n \in Nat /\ n + 1 = MaxLevels - 1 - l
    BY <1>1, <1>5 DEF Levels
  <2>2. 2^(n + 1) = 2 * 2^n
    BY <2>1, PowerDoubles
  <2> QED BY <2>1, <2>2 DEF Factor
<1> QED BY <1>2, <1>4, <1>5

\* All levels divide the same MaxScale.
LEMMA ScaleOfLevel ==
  ASSUME NEW l \in Levels
  PROVE  MaxScale \in Nat /\ MaxScale = (2 * Mid(l)) * Factor(l)
<1>1. MaxLevels \in Nat /\ MaxLevels >= 2 /\ NodeFourth \in Nat
  BY LevelsAssumption, NodeAssumption
<1> DEFINE Same(n) == MaxScale = (2 * Mid(n)) * Factor(n)
           T == {n \in Nat : n + 1 \in Levels => Same(n + 1)}
<1>2. MaxScale \in Nat /\ Same(1)
  <2> DEFINE x == 2^(MaxLevels - 2)
  <2>1. x \in Nat /\ MaxLevels - 1 - 1 = MaxLevels - 2
    BY <1>1, PowerDoubles
  <2>2. 2^1 = 2
    <3>1. 2^0 = 1 /\ 2^(0 + 1) = 2 * 2^0
      BY PowerDoubles
    <3> QED BY <3>1
  <2>3. MaxScale = (4 * NodeFourth) * x /\ Factor(1) = x /\ Mid(1) = NodeFourth * 2
    BY <2>1, <2>2 DEF MaxScale, NodeWidth, Factor, Mid
  <2> HIDE DEF x
  <2>4. (4 * NodeFourth) * x \in Nat /\ (4 * NodeFourth) * x = (2 * (NodeFourth * 2)) * x
    BY <1>1, <2>1
  <2> QED BY <2>3, <2>4
<1>3. 0 \in T
  BY <1>2
<1>4. ASSUME NEW n \in T PROVE n + 1 \in T
  <2> SUFFICES ASSUME n + 1 + 1 \in Levels PROVE Same(n + 1 + 1)
    OBVIOUS
  <2>1. n \in Nat /\ n + 1 \in Levels /\ (n + 1) + 1 \in Levels /\ Same(n + 1)
    BY <1>1 DEF Levels
  <2> DEFINE m == Mid(n + 1)
             f == Factor(n + 1 + 1)
  <2>2. /\ m \in Nat /\ f \in Nat /\ Mid(n + 1 + 1) = 2 * m /\ Factor(n + 1) = 2 * f
        /\ MaxScale = (2 * m) * Factor(n + 1)
    <3> HIDE DEF T
    <3> QED BY <2>1, FactorHalves
  <2> HIDE DEF m, f
  <2>3. (2 * m) * (2 * f) = (2 * (2 * m)) * f
    BY <2>2
  <2>4. MaxScale = (2 * Mid(n + 1 + 1)) * Factor(n + 1 + 1)
    BY <2>2, <2>3 DEF f
  <2> QED BY <2>4
<1>5. T = Nat
  <2> HIDE DEF Same
  <2>1. T \in SUBSET Nat
    OBVIOUS
  <2> HIDE DEF T
  <2> QED BY <1>3, <1>4, <2>1, NatInduct
<1>6. l - 1 \in Nat /\ l - 1 + 1 = l
  BY <1>1 DEF Levels
<1> HIDE DEF Same
<1>7. Same(l)
  BY <1>5, <1>6
<1> QED BY <1>2, <1>7 DEF Same

\* Width of a level's grid, as the code computes it.
LEMMA WidthOfLevel ==
  ASSUME NEW l \in Levels
  PROVE  /\ MaxScale \div Factor(l) = 2 * Mid(l)
         /\ (MaxScale \div Factor(l)) \div 2 = Mid(l)
         /\ NodeHalf * 2^l = 2 * Mid(l)
<1> DEFINE m == Mid(l)
           f == Factor(l)
<1>1. m \in Nat /\ f \in Nat /\ f > 0 /\ MaxScale = (2 * m) * f
  BY FactorHalves, ScaleOfLevel
<1>2. NodeFourth \in Nat /\ 2^l \in Nat
  BY NodeAssumption, LevelsAssumption, PowerDoubles DEF Levels
<1>3. NodeHalf * 2^l = 2 * m
  BY <1>2 DEF NodeHalf, Mid
<1> HIDE DEF m, f
<1>4. MaxScale \div f = 2 * m
  <2>1. (2 * m) * f \in Int /\ (2 * m) * f = f * (2 * m) + 0 /\ 0 \in 0 .. f - 1 /\ 2 * m \in Int
    BY <1>1
  <2> QED BY <1>1, <2>1, DivUnique
<1>5. (2 * m) \div 2 = m
  BY <1>1
<1> QED BY <1>3, <1>4, <1>5 DEF m, f

LEMMA FineIs ==
  /\ Fine \in Nat /\ Fine > 0 /\ W \in Nat
  /\ W = MaxScale * Fine /\ MaxScale \in Nat /\ MaxScale > 0
<1>1. MaxScale \in Nat /\ MaxScale > 0
  <2>1. 1 \in Levels
    BY LevelsAssumption DEF Levels
  <2> DEFINE m == Mid(1)
             f == Factor(1)
  <2>2. MaxScale = (2 * m) * f /\ m \in Nat /\ m > 0 /\ f \in Nat /\ f > 0
    BY <2>1, ScaleOfLevel, FactorHalves
  <2> HIDE DEF m, f
  <2> QED BY <2>2
<1>2. W \in Nat /\ W % MaxScale = 0 /\ W >= MaxScale
  BY CoordAssumption, FineAssumption DEF W
<1>3. W = MaxScale * (W \div MaxScale) + (W % MaxScale) /\ W \div MaxScale \in Nat
  BY <1>1, <1>2, Z3
<1>4. Fine = W \div MaxScale
  BY DEF Fine, W
<1>5. Fine # 0
  BY <1>1, <1>2, <1>3, <1>4
<1> QED BY <1>1, <1>2, <1>3, <1>4, <1>5

---------------------------------------------------------------------------
(* Truncation nests. *)

LEMMA HalfOfQuotient ==
  ASSUME NEW x \in Nat, NEW f \in Nat, f > 0
  PROVE  (x \div f) \div 2 = x \div (2 * f)
<1> DEFINE q == x \div f
           h == q \div 2
<1>1. q \in Int /\ f * q <= x /\ x < f * q + f
  BY DivBounds
<1> HIDE DEF q
<1>2. h \in Int /\ (q = 2 * h \/ q = 2 * h + 1)
  BY <1>1
<1> HIDE DEF h
<1>3. f * q = 2 * (f * h) \/ f * q = 2 * (f * h) + f
  BY <1>1, <1>2
<1>4. f * h \in Int /\ (2 * f) * h = 2 * (f * h)
  BY <1>2
<1>5. x - 2 * (f * h) \in 0 .. 2 * f - 1
  BY <1>1, <1>3, <1>4
<1>6. x \div (2 * f) = h
  <2> DEFINE r == x - 2 * (f * h)
  <2>1. r \in 0 .. 2 * f - 1 /\ x = (2 * f) * h + r
    BY <1>4, <1>5
  <2> HIDE DEF r
  <2> QED BY <1>2, <2>1, DivUnique
<1> QED BY <1>6 DEF h, q

\* A position n, in fine units, in units of level l.
Depth(l, n) == (n \div Fine) \div Factor(l)

LEMMA DepthIs ==
  ASSUME NEW l \in Levels, NEW n \in Nat
  PROVE  /\ Depth(l, n) \in Nat
         /\ Factor(l) * Depth(l, n) <= n \div Fine
         /\ n \div Fine < Factor(l) * Depth(l, n) + Factor(l)
         /\ l + 1 \in Levels => Depth(l, n) = Depth(l + 1, n) \div 2
<1> DEFINE x == n \div Fine
<1>1. x \in Nat /\ Factor(l) \in Nat /\ Factor(l) > 0
  BY FineIs, FactorHalves, DivNat
<1> HIDE DEF x
<1>2. /\ x \div Factor(l) \in Nat
      /\ Factor(l) * (x \div Factor(l)) <= x
      /\ x < Factor(l) * (x \div Factor(l)) + Factor(l)
  BY <1>1, DivBounds, DivNat
<1>3. ASSUME l + 1 \in Levels PROVE x \div Factor(l) = (x \div Factor(l + 1)) \div 2
  <2>1. Factor(l + 1) \in Nat /\ Factor(l + 1) > 0 /\ Factor(l) = 2 * Factor(l + 1)
    BY <1>3, FactorHalves
  <2> QED BY <1>1, <2>1, HalfOfQuotient
<1> QED BY <1>2, <1>3 DEF Depth, x

\* A position on the face seen from its other end.
LEMMA DepthFromEnd ==
  ASSUME NEW l \in Levels, NEW n \in Nat
  PROVE  /\ Depth(l, W + n) = 2 * Mid(l) + Depth(l, n)
         /\ n <= W => /\ Depth(l, n) <= 2 * Mid(l)
                      /\ Depth(l, W - n) \in {2 * Mid(l) - Depth(l, n), 2 * Mid(l) - Depth(l, n) - 1}
<1> DEFINE m == 2 * Mid(l)
           f == Factor(l)
           y == n \div Fine
           d == Depth(l, n)
<1>1. /\ m \in Nat /\ m > 0 /\ f \in Nat /\ f > 0 /\ MaxScale = m * f
      /\ Fine \in Nat /\ Fine > 0 /\ W = MaxScale * Fine /\ MaxScale \in Nat
  BY FineIs, FactorHalves, ScaleOfLevel
<1>2. y \in Nat /\ Fine * y <= n /\ n < Fine * y + Fine
  BY <1>1, DivBounds, DivNat
<1>3. d \in Nat /\ f * d <= y /\ y < f * d + f
  BY DepthIs
<1>4. Depth(l, W + n) = m + d
  <2>1. (W + n) \div Fine = MaxScale + y
    <3> DEFINE r == n - Fine * y
    <3>1. r \in 0 .. Fine - 1 /\ W + n \in Int
      BY <1>1, <1>2
    <3>2. W + n = Fine * (MaxScale + y) + r
      <4> HIDE DEF y
      <4>1. Fine * (MaxScale + y) = MaxScale * Fine + Fine * y
        BY <1>1, <1>2
      <4> QED BY <1>1, <1>2, <4>1
    <3>3. MaxScale + y \in Int
      BY <1>1, <1>2
    <3> DEFINE q == MaxScale + y
               a == W + n
    <3> HIDE DEF r, y, q, a
    <3>4. a \in Int /\ q \in Int /\ r \in 0 .. Fine - 1 /\ a = Fine * q + r
      BY <3>1, <3>2, <3>3 DEF q, a
    <3>5. a \div Fine = q
      BY <1>1, <3>4, DivUnique
    <3> QED BY <3>5 DEF q, a
  <2>2. (MaxScale + y) \div f = m + d
    <3> DEFINE r == y - f * d
    <3> HIDE DEF m, f, y, d
    <3>1. r \in 0 .. f - 1 /\ MaxScale + y \in Int /\ m + d \in Int
      BY <1>1, <1>2, <1>3
    <3>2. MaxScale + y = f * (m + d) + r
      <4>1. f * (m + d) = m * f + f * d
        BY <1>1, <1>3
      <4> QED BY <1>1, <1>2, <1>3, <4>1
    <3> HIDE DEF r
    <3> QED BY <1>1, <3>1, <3>2, DivUnique
  <2> QED BY <2>1, <2>2 DEF Depth
<1>5. ASSUME n <= W PROVE d <= m /\ Depth(l, W - n) \in {m - d, m - d - 1}
  <2> DEFINE z == (W - n) \div Fine
             e == Depth(l, W - n)
  <2>1. W - n \in Nat /\ W \in Nat
    BY <1>1, <1>5, FineIs
  <2>2. z \in Nat /\ Fine * z <= W - n /\ W - n < Fine * z + Fine
    BY <1>1, <2>1, DivBounds, DivNat
  <2>3. e \in Nat /\ f * e <= z /\ z < f * e + f
    BY <2>1, DepthIs
  <2> HIDE DEF m, f, y, d, z, e
  <2>4. y + z <= MaxScale /\ MaxScale < y + z + 2
    <3>1. Fine * (y + z) <= Fine * MaxScale /\ Fine * MaxScale < Fine * (y + z + 2)
      <4>1. Fine * (y + z) = Fine * y + Fine * z /\ Fine * (y + z + 2) = Fine * y + Fine * z + 2 * Fine
            /\ Fine * MaxScale = W
        BY <1>1, <1>2, <2>2
      <4> QED BY <1>1, <1>2, <2>1, <2>2, <4>1
    <3> QED BY <1>1, <1>2, <2>2, <3>1
  <2>5. d + e <= m /\ m < d + e + 2
    <3>1. f * (d + e) <= f * m /\ f * m < f * (d + e + 2)
      <4>1. f * (d + e) = f * d + f * e /\ f * (d + e + 2) = f * d + f * e + 2 * f /\ f * m = MaxScale
        BY <1>1, <1>3, <2>3
      <4> QED BY <1>1, <1>2, <1>3, <2>2, <2>3, <2>4, <4>1
    <3> QED BY <1>1, <1>3, <2>3, <3>1
  <2>6. d <= m /\ e \in {m - d, m - d - 1}
    BY <1>1, <1>3, <2>3, <2>5
  <2> QED BY <2>6 DEF e
<1> QED BY <1>4, <1>5

\* Truncating a position twice, as the code does, inside and outside a face.
LEMMA TruncIs ==
  ASSUME NEW l \in Levels, NEW n \in Nat
  PROVE  /\ Trunc(Trunc(n, Fine), Factor(l)) = Depth(l, n)
         /\ Trunc(Trunc(-n, Fine), Factor(l)) = -Depth(l, n)
<1> DEFINE f == Factor(l)
           y == n \div Fine
<1>1. f \in Nat /\ f > 0 /\ Fine \in Nat /\ Fine > 0
  BY FineIs, FactorHalves
<1>2. y \in Nat
  BY <1>1, DivNat
<1>3. Trunc(n, Fine) = y
  BY DEF Trunc
<1>4. Trunc(-n, Fine) = -y
  <2>1. CASE n = 0
    <3>1. Trunc(-n, Fine) = 0 \div Fine /\ y = 0 \div Fine
      BY <2>1 DEF Trunc
    <3>2. 0 \div Fine = 0
      BY <1>1, Z3
    <3> QED BY <3>1, <3>2
  <2>2. CASE n # 0
    <3>1. -n < 0 /\ -(-n) = n
      BY <2>2
    <3> QED BY <3>1 DEF Trunc
  <2> QED BY <2>1, <2>2
<1> HIDE DEF y, f
<1>5. Trunc(y, f) = y \div f
  BY <1>2 DEF Trunc
<1>6. Trunc(-y, f) = -(y \div f)
  <2>1. CASE y = 0
    <3>1. 0 \div f = 0
      BY <1>1, Z3
    <3>2. Trunc(-y, f) = 0 \div f
      BY <2>1 DEF Trunc
    <3> QED BY <2>1, <3>1, <3>2
  <2>2. CASE y # 0
    <3>1. -y < 0 /\ -(-y) = y
      BY <1>2, <2>2
    <3> QED BY <3>1 DEF Trunc
  <2> QED BY <2>1, <2>2
<1> QED BY <1>3, <1>4, <1>5, <1>6 DEF Depth, y, f

\* The offset of a hole is what truncating its child's center loses.
LEMMA ParityIs ==
  ASSUME NEW k \in Int
  PROVE  /\ Trunc(k, 2) \in Int
         /\ k - 2 * Trunc(k, 2) = IF k % 2 = 0 THEN 0 ELSE IF k > 0 THEN 1 ELSE -1
BY DEF Trunc

---------------------------------------------------------------------------
(* Which edges a level reaches over. *)

AtIsPoint == at \in [face : Faces, x : 0 .. W, y : 0 .. W]

\* How deep inside its face the camera is from edge e.
EdgeDepth(e, l) == Depth(l, -Beyond(W, e, at))

LEMMA AtInside ==
  ASSUME AtIsPoint, NEW e \in Edges
  PROVE  /\ W \in Nat /\ at.face \in Faces /\ at.x \in 0 .. W /\ at.y \in 0 .. W
         /\ Along(e, at) \in 0 .. W
         /\ -Beyond(W, e, at) = CASE e = "top" -> at.y [] e = "bottom" -> W - at.y
                                  [] e = "left" -> at.x [] e = "right" -> W - at.x
         /\ -Beyond(W, e, at) \in 0 .. W
<1>1. W \in Nat /\ at.face \in Faces /\ at.x \in 0 .. W /\ at.y \in 0 .. W
  BY FineIs DEF AtIsPoint
<1>2. Along(e, at) \in 0 .. W
  BY <1>1 DEF Along
<1> DEFINE x == at.x
           y == at.y
<1>3. -Beyond(W, e, at) = CASE e = "top" -> -(0 - y) [] e = "bottom" -> -(y - W)
                            [] e = "left" -> -(0 - x) [] e = "right" -> -(x - W)
  BY DEF Beyond, Edges
<1> HIDE DEF x, y
<1>4. -(0 - y) = y /\ -(y - W) = W - y /\ -(0 - x) = x /\ -(x - W) = W - x
  BY <1>1 DEF x, y
<1> QED BY <1>1, <1>2, <1>3, <1>4 DEF Edges, x, y

LEMMA FrontCenterIs ==
  ASSUME AtIsPoint, NEW l \in Levels
  PROVE  /\ FrontCenter(l) = [x |-> Depth(l, at.x), y |-> Depth(l, at.y)]
         /\ Depth(l, at.x) \in Nat /\ Depth(l, at.y) \in Nat
<1>1. at.x \in Nat /\ at.y \in Nat
  BY FineIs DEF AtIsPoint
<1>2. FrontCenter(l) = [x |-> Trunc(Trunc(at.x, Fine), Factor(l)), y |-> Trunc(Trunc(at.y, Fine), Factor(l))]
  BY DEF FrontCenter, Each
<1> QED BY <1>1, <1>2, TruncIs, DepthIs

\* A level reaches over the edges the camera is near; on the far ends of a face
\* truncation counts one unit more.
LEMMA OverlapsIs ==
  ASSUME AtIsPoint, NEW e \in Edges, NEW l \in Levels
  PROVE  /\ EdgeDepth(e, l) \in Nat
         /\ \E j \in {0, 1} :
              Overlaps(e, l) <=> (NodeFourth - EdgeDepth(e, l) - j) * 1000 > 2 * Mid(l)
<1> DEFINE m == 2 * Mid(l)
           cx == Depth(l, at.x)
           cy == Depth(l, at.y)
           d == EdgeDepth(e, l)
<1>1. /\ W \in Nat /\ at.x \in 0 .. W /\ at.y \in 0 .. W
      /\ -Beyond(W, e, at) = CASE e = "top" -> at.y [] e = "bottom" -> W - at.y
                               [] e = "left" -> at.x [] e = "right" -> W - at.x
  BY AtInside
<1>2. d \in Nat
  BY AtInside, DepthIs DEF EdgeDepth
<1>3. m \in Nat /\ NodeHalf * 2^l = m /\ NodeFourth \in Nat
  BY FactorHalves, WidthOfLevel, NodeAssumption
<1>4. /\ cx \in Nat /\ cy \in Nat
      /\ Depth(l, W - at.x) \in {m - cx, m - cx - 1}
      /\ Depth(l, W - at.y) \in {m - cy, m - cy - 1}
  <2> DEFINE x == at.x
             y == at.y
  <2>1. x \in Nat /\ x <= W /\ y \in Nat /\ y <= W
    BY <1>1
  <2> HIDE DEF x, y
  <2>2. Depth(l, x) \in Nat /\ Depth(l, y) \in Nat
    BY <2>1, DepthIs
  <2>3. Depth(l, W - x) \in {2 * Mid(l) - Depth(l, x), 2 * Mid(l) - Depth(l, x) - 1}
    BY <2>1, DepthFromEnd
  <2>4. Depth(l, W - y) \in {2 * Mid(l) - Depth(l, y), 2 * Mid(l) - Depth(l, y) - 1}
    BY <2>1, DepthFromEnd
  <2> QED BY <2>2, <2>3, <2>4 DEF x, y
<1>5. Overlaps(e, l) <=> CASE e = "left" -> (NodeFourth - cx) * 1000 > m
                           [] e = "top" -> (NodeFourth - cy) * 1000 > m
                           [] e = "right" -> (cx + NodeFourth) * 1000 > 1001 * m
                           [] e = "bottom" -> (cy + NodeFourth) * 1000 > 1001 * m
  <2> HIDE DEF m, cx, cy
  <2>1. FrontCenter(l).x = cx /\ FrontCenter(l).y = cy
    BY FrontCenterIs DEF cx, cy
  <2> QED BY <1>3, <2>1 DEF Overlaps, Edges
<1>6. /\ e = "left" => d = cx
      /\ e = "top" => d = cy
      /\ e = "right" => d \in {m - cx, m - cx - 1}
      /\ e = "bottom" => d \in {m - cy, m - cy - 1}
  BY <1>1, <1>4 DEF EdgeDepth
<1> HIDE DEF m, cx, cy, d
<1>7. CASE e = "left"
  <2>1. Overlaps(e, l) <=> (NodeFourth - d - 0) * 1000 > m
    BY <1>2, <1>3, <1>4, <1>5, <1>6, <1>7
  <2> QED BY <1>2, <2>1 DEF m, d
<1>8. CASE e = "top"
  <2>1. Overlaps(e, l) <=> (NodeFourth - d - 0) * 1000 > m
    BY <1>2, <1>3, <1>4, <1>5, <1>6, <1>8
  <2> QED BY <1>2, <2>1 DEF m, d
<1>9. CASE e = "right"
  <2>1. \E j \in {0, 1} : Overlaps(e, l) <=> (NodeFourth - d - j) * 1000 > m
    BY <1>2, <1>3, <1>4, <1>5, <1>6, <1>9
  <2> QED BY <1>2, <2>1 DEF m, d
<1>10. CASE e = "bottom"
  <2>1. \E j \in {0, 1} : Overlaps(e, l) <=> (NodeFourth - d - j) * 1000 > m
    BY <1>2, <1>3, <1>4, <1>5, <1>6, <1>10
  <2> QED BY <1>2, <2>1 DEF m, d
<1> QED BY <1>7, <1>8, <1>9, <1>10 DEF Edges

\* An edge a level reaches over is no farther than one it does not reach over.
LEMMA OverlapsNearer ==
  ASSUME AtIsPoint, NEW e \in Edges, NEW f \in Edges, NEW l \in Levels,
         Overlaps(e, l), ~Overlaps(f, l)
  PROVE  EdgeDepth(e, l) <= EdgeDepth(f, l)
<1> DEFINE m == 2 * Mid(l)
           d == EdgeDepth(e, l)
           c == EdgeDepth(f, l)
<1>1. m \in Nat /\ NodeFourth \in Nat
  BY FactorHalves, NodeAssumption
<1>2. PICK i \in {0, 1} : d \in Nat /\ (NodeFourth - d - i) * 1000 > m
  BY OverlapsIs
<1>3. PICK j \in {0, 1} : c \in Nat /\ ~((NodeFourth - c - j) * 1000 > m)
  BY OverlapsIs
<1> HIDE DEF m, d, c
<1>4. d <= c
  BY <1>1, <1>2, <1>3
<1> QED BY <1>4 DEF d, c

\* No level reaches over two opposite edges.
LEMMA OverlapsOneSide ==
  ASSUME AtIsPoint, NEW l \in Levels
  PROVE  /\ ~(Overlaps("left", l) /\ Overlaps("right", l))
         /\ ~(Overlaps("top", l) /\ Overlaps("bottom", l))
<1> DEFINE m == 2 * Mid(l)
           cx == Depth(l, at.x)
           cy == Depth(l, at.y)
<1>1. m \in Nat /\ NodeHalf * 2^l = m /\ NodeFourth \in Nat /\ m >= 4 * NodeFourth
  <2>1. 2^l \in Nat /\ 2^l > 1 /\ NodeFourth \in Nat
    <3>1. l - 1 \in Nat /\ (l - 1) + 1 = l
      BY LevelsAssumption DEF Levels
    <3>2. 2^(l - 1) \in Nat /\ 2^(l - 1) > 0 /\ 2^((l - 1) + 1) = 2 * 2^(l - 1)
      BY <3>1, PowerDoubles
    <3> QED BY <3>1, <3>2, NodeAssumption
  <2> DEFINE x == 2^l
  <2>2. Mid(l) = NodeFourth * x /\ x \in Nat /\ x > 1
    BY <2>1 DEF Mid
  <2> HIDE DEF x
  <2>3. 2 * (NodeFourth * x) >= 4 * NodeFourth /\ NodeFourth * x \in Nat
    BY <2>1, <2>2
  <2> QED BY <2>1, <2>2, <2>3, WidthOfLevel
<1>2. FrontCenter(l).x = cx /\ FrontCenter(l).y = cy /\ cx \in Nat /\ cy \in Nat
  BY FrontCenterIs
<1> HIDE DEF m, cx, cy
<1> QED BY <1>1, <1>2, NodeAssumption DEF Overlaps

\* A level that reaches over an edge is inside one that does.
LEMMA OverlapsBelow ==
  ASSUME AtIsPoint, NEW e \in Edges, NEW l \in Levels, l + 1 \in Levels, Overlaps(e, l + 1)
  PROVE  Overlaps(e, l)
<1> DEFINE m == Mid(l)
           X == Depth(l + 1, at.x)
           Y == Depth(l + 1, at.y)
           x == Depth(l, at.x)
           y == Depth(l, at.y)
<1>1. /\ m \in Nat /\ m > 0 /\ NodeFourth \in Nat /\ NodeFourth > 0
      /\ NodeHalf * 2^l = 2 * m /\ NodeHalf * 2^(l + 1) = 4 * m
  <2>1. NodeHalf * 2^(l + 1) = 2 * Mid(l + 1) /\ Mid(l + 1) = 2 * m /\ m \in Nat /\ m > 0
    BY FactorHalves, WidthOfLevel
  <2> QED BY <2>1, FactorHalves, WidthOfLevel, NodeAssumption
<1>2. at.x \in Nat /\ at.y \in Nat
  BY AtInside
<1>3. x = X \div 2 /\ y = Y \div 2
  BY <1>2, DepthIs
<1>4. /\ FrontCenter(l).x = x /\ FrontCenter(l).y = y /\ x \in Nat /\ y \in Nat
      /\ FrontCenter(l + 1).x = X /\ FrontCenter(l + 1).y = Y /\ X \in Nat /\ Y \in Nat
  BY FrontCenterIs
<1> HIDE DEF m, X, Y, x, y
<1>5. X \in {2 * x, 2 * x + 1} /\ Y \in {2 * y, 2 * y + 1}
  BY <1>3, <1>4
<1>6. CASE e = "left"    BY <1>1, <1>4, <1>5, <1>6 DEF Overlaps
<1>7. CASE e = "top"     BY <1>1, <1>4, <1>5, <1>7 DEF Overlaps
<1>8. CASE e = "right"   BY <1>1, <1>4, <1>5, <1>8 DEF Overlaps
<1>9. CASE e = "bottom"  BY <1>1, <1>4, <1>5, <1>9 DEF Overlaps
<1> QED BY <1>6, <1>7, <1>8, <1>9 DEF Edges
---------------------------------------------------------------------------
(* The center of a level on a neighboring face: along the border, and so   *)
(* far outside of it.                                                      *)

Border(e) == NeighborEdge(at.face, e)
Shift(e) == IF Reversed(e, Border(e)) THEN W - Along(e, at) ELSE Along(e, at)
Outer(r, l, n) == IF r \in {"top", "left"} THEN -n ELSE 2 * Mid(l) + n
Outside(r, a, n, l) ==
  IF r \in {"top", "bottom"} THEN [x |-> a, y |-> Outer(r, l, n)]
  ELSE [x |-> Outer(r, l, n), y |-> a]

LEMMA BorderIs ==
  ASSUME AtIsPoint, NEW e \in Edges
  PROVE  Border(e) \in Edges /\ Shift(e) \in Nat /\ Shift(e) <= W
<1>1. W \in Nat /\ at.face \in Faces /\ Along(e, at) \in 0 .. W
  BY AtInside
<1>2. Border(e) \in Edges
  BY <1>1 DEF Border, NeighborEdge, Edges, Faces
<1> DEFINE a == Along(e, at)
<1>3. Shift(e) = a \/ Shift(e) = W - a
  BY DEF Shift
<1> HIDE DEF a
<1>4. a \in 0 .. W
  BY <1>1 DEF a
<1> QED BY <1>1, <1>2, <1>3, <1>4

LEMMA OwnCenterIs ==
  ASSUME AtIsPoint, NEW e \in Edges, NEW l \in Levels
  PROVE  /\ OwnCenter(e, l) = Outside(Border(e), Depth(l, Shift(e)), EdgeDepth(e, l), l)
         /\ Depth(l, Shift(e)) \in Nat /\ Depth(l, Shift(e)) <= 2 * Mid(l)
         /\ EdgeDepth(e, l) \in Nat
<1> DEFINE r == Border(e)
           a == Shift(e)
           b == -Beyond(W, e, at)
           p == GetNeighborCoordinates(W, e, at)
           f == Factor(l)
<1>1. r \in Edges /\ a \in Nat /\ a <= W
  BY BorderIs
<1>2. b \in Nat /\ b <= W /\ Beyond(W, e, at) = -b /\ W \in Nat
  <2> DEFINE n == Beyond(W, e, at)
  <2>1. -n \in 0 .. W /\ W \in Nat
    BY AtInside
  <2>2. n \in Int
    BY AtInside DEF Beyond, Edges
  <2> HIDE DEF n
  <2> QED BY <2>1, <2>2 DEF n
<1>3. /\ r \in {"top", "bottom"} => p.x = a
      /\ r \in {"left", "right"} => p.y = a
      /\ r = "top" => p.y = -b
      /\ r = "bottom" => p.y = W - (-b)
      /\ r = "left" => p.x = -b
      /\ r = "right" => p.x = W - (-b)
  <2>1. p = Inside(W, NeighborFace(at.face, e), r, a, -b)
    <3>1. p = CrossEdge(W, e, at, -b)
      <4> HIDE DEF b
      <4> QED BY <1>2 DEF GetNeighborCoordinates
    <3> QED BY <3>1 DEF CrossEdge, Border, Shift
  <2> HIDE DEF r, a, b, p
  <2> QED BY <2>1 DEF Inside
<1>4. Each(NeighborPos(e), f) = [x |-> Trunc(Trunc(p.x, Fine), f), y |-> Trunc(Trunc(p.y, Fine), f)]
  BY DEF NeighborPos, Each
<1> HIDE DEF r, a, b, p
<1>5. W - (-b) = W + b
  BY <1>2
<1>6. /\ Trunc(Trunc(a, Fine), f) = Depth(l, a)
      /\ Trunc(Trunc(-b, Fine), f) = -Depth(l, b)
      /\ Trunc(Trunc(W + b, Fine), f) = 2 * Mid(l) + Depth(l, b)
  <2>1. W + b \in Nat
    BY <1>2
  <2>2. Trunc(Trunc(W + b, Fine), f) = Depth(l, W + b)
    BY <2>1, TruncIs
  <2> QED BY <1>1, <1>2, <2>2, TruncIs, DepthFromEnd
<1>7. Depth(l, b) = EdgeDepth(e, l)
  BY DEF b, EdgeDepth
<1> HIDE DEF f
<1>8. Each(NeighborPos(e), f) = Outside(r, Depth(l, a), EdgeDepth(e, l), l)
  BY <1>1, <1>3, <1>4, <1>5, <1>6, <1>7 DEF Outside, Outer, Edges
<1>9. Depth(l, a) \in Nat /\ Depth(l, a) <= 2 * Mid(l) /\ Depth(l, b) \in Nat
  BY <1>1, <1>2, DepthIs, DepthFromEnd
<1> QED BY <1>7, <1>8, <1>9 DEF r, a, f, OwnCenter

Lesser(m, n) == IF n < m THEN n ELSE m

LEMMA WidenedIs ==
  ASSUME NEW l \in Levels, NEW r \in Edges, NEW s \in Edges,
         NEW a \in 0 .. 2 * Mid(l), NEW b \in 0 .. 2 * Mid(l), NEW m \in Nat, NEW n \in Nat
  PROVE  Widened(l, Outside(r, a, m, l), Outside(s, b, n, l)) = Outside(r, a, Lesser(m, n), l)
<1> DEFINE h == (MaxScale \div Factor(l)) \div 2
           c == Outside(r, a, m, l)
           d == Outside(s, b, n, l)
           ox == Abs(h - c.x)
           oy == Abs(h - c.y)
           other == IF Abs(h - d.x) > Abs(h - d.y) THEN Abs(h - d.x) ELSE Abs(h - d.y)
           pulled(k, o) == IF k > h THEN k - (o - other) ELSE k - (other - o)
<1>1. h = Mid(l) /\ h \in Nat /\ h > 0 /\ a \in 0 .. 2 * h /\ b \in 0 .. 2 * h
  BY FactorHalves, WidthOfLevel
<1>2. Widened(l, c, d) = IF ox > oy /\ other < ox THEN [c EXCEPT !.x = pulled(@, ox)]
                         ELSE IF oy > ox /\ other < oy THEN [c EXCEPT !.y = pulled(@, oy)]
                         ELSE c
  BY DEF Widened
<1>3. /\ r \in {"top", "bottom"} => c = [x |-> a, y |-> IF r = "top" THEN -m ELSE 2 * h + m]
      /\ r \in {"left", "right"} => c = [x |-> IF r = "left" THEN -m ELSE 2 * h + m, y |-> a]
      /\ s \in {"top", "bottom"} => d = [x |-> b, y |-> IF s = "top" THEN -n ELSE 2 * h + n]
      /\ s \in {"left", "right"} => d = [x |-> IF s = "left" THEN -n ELSE 2 * h + n, y |-> b]
  <2> HIDE DEF h
  <2> QED BY <1>1 DEF Outside, Outer, Edges
<1> HIDE DEF h, c, d
<1>4. other = h + n
  <2>1. /\ s \in {"top", "bottom"} => Abs(h - d.y) = h + n /\ Abs(h - d.x) <= h
        /\ s \in {"left", "right"} => Abs(h - d.x) = h + n /\ Abs(h - d.y) <= h
        /\ Abs(h - d.x) \in Nat /\ Abs(h - d.y) \in Nat
    BY <1>1, <1>3 DEF Abs, Edges
  <2> QED BY <1>1, <2>1 DEF Edges
<1>5. /\ r \in {"top", "bottom"} => oy = h + m /\ ox <= h
      /\ r \in {"left", "right"} => ox = h + m /\ oy <= h
      /\ ox \in Nat /\ oy \in Nat
  BY <1>1, <1>3 DEF Abs, Edges
<1> HIDE DEF ox, oy, other
<1> DEFINE k == Lesser(m, n)
<1>6. k = (IF n < m THEN n ELSE m)
  BY DEF Lesser
<1> HIDE DEF k
<1>7. CASE r \in {"top", "bottom"}
  <2>1. Widened(l, c, d) = [x |-> a, y |-> IF r = "top" THEN -k ELSE 2 * h + k]
    <3>1. CASE n < m
      <4>1. ~(ox > oy /\ other < ox) /\ oy > ox /\ other < oy
        BY <1>1, <1>4, <1>5, <1>7, <3>1
      <4>2. Widened(l, c, d) = [c EXCEPT !.y = pulled(@, oy)]
        BY <1>2, <4>1
      <4>3. pulled(c.y, oy) = IF r = "top" THEN -k ELSE 2 * h + k
        BY <1>1, <1>3, <1>4, <1>5, <1>6, <1>7, <3>1
      <4> HIDE DEF pulled
      <4> QED BY <1>3, <1>7, <4>2, <4>3
    <3>2. CASE ~(n < m)
      <4>1. ~(ox > oy /\ other < ox) /\ ~(oy > ox /\ other < oy)
        BY <1>1, <1>4, <1>5, <1>7, <3>2
      <4>2. Widened(l, c, d) = c
        BY <1>2, <4>1
      <4> QED BY <1>3, <1>6, <1>7, <3>2, <4>2
    <3> QED BY <3>1, <3>2
  <2> QED BY <1>1, <1>7, <2>1 DEF Outside, Outer, k, c, d
<1>8. CASE r \in {"left", "right"}
  <2>1. Widened(l, c, d) = [x |-> IF r = "left" THEN -k ELSE 2 * h + k, y |-> a]
    <3>1. CASE n < m
      <4>1. ox > oy /\ other < ox
        BY <1>1, <1>4, <1>5, <1>8, <3>1
      <4>2. Widened(l, c, d) = [c EXCEPT !.x = pulled(@, ox)]
        BY <1>2, <4>1
      <4>3. pulled(c.x, ox) = IF r = "left" THEN -k ELSE 2 * h + k
        BY <1>1, <1>3, <1>4, <1>5, <1>6, <1>8, <3>1
      <4> HIDE DEF pulled
      <4> QED BY <1>3, <1>8, <4>2, <4>3
    <3>2. CASE ~(n < m)
      <4>1. ~(ox > oy /\ other < ox) /\ ~(oy > ox /\ other < oy)
        BY <1>1, <1>4, <1>5, <1>8, <3>2
      <4>2. Widened(l, c, d) = c
        BY <1>2, <4>1
      <4> QED BY <1>3, <1>6, <1>8, <3>2, <4>2
    <3> QED BY <3>1, <3>2
  <2> QED BY <1>1, <1>8, <2>1 DEF Outside, Outer, k, c, d
<1> QED BY <1>7, <1>8 DEF Edges

\* How far outside its face a neighbor draws a level: as far as the neighbor that
\* the camera is nearest to.
Toward(e, l, f, n) == IF f = e \/ l \notin NeighborLevels(f) THEN n ELSE Lesser(n, EdgeDepth(f, l))
Least(e, l) ==
  Toward(e, l, "left", Toward(e, l, "bottom", Toward(e, l, "right", Toward(e, l, "top", EdgeDepth(e, l)))))

LEMMA TowardIs ==
  ASSUME AtIsPoint, NEW e \in Edges, NEW f \in Edges, NEW l \in Levels, NEW n \in Nat
  PROVE  /\ Toward(e, l, f, n) \in Nat
         /\ Toward(e, l, f, n) <= n
         /\ f # e /\ l \in NeighborLevels(f) => Toward(e, l, f, n) <= EdgeDepth(f, l)
         /\ Toward(e, l, f, n) = n \/ (l \in NeighborLevels(f) /\ Toward(e, l, f, n) = EdgeDepth(f, l))
<1>1. EdgeDepth(f, l) \in Nat
  BY OverlapsIs
<1> QED BY <1>1 DEF Toward, Lesser

LEMMA NeighborCenterIs ==
  ASSUME AtIsPoint, NEW e \in Edges, NEW l \in Levels
  PROVE  NeighborCenter(e, l) = Outside(Border(e), Depth(l, Shift(e)), Least(e, l), l)
<1> DEFINE by(f, c) == WidenedFor(f, e, l, c)
           center(f) == OwnCenter(f, l)
           At(n) == Outside(Border(e), Depth(l, Shift(e)), n, l)
<1>1. center(e) = At(EdgeDepth(e, l)) /\ EdgeDepth(e, l) \in Nat
  BY OwnCenterIs
<1>2. ASSUME NEW f \in Edges, NEW n \in Nat PROVE by(f, At(n)) = At(Toward(e, l, f, n))
  <2>1. CASE f = e \/ l \notin NeighborLevels(f)
    BY <2>1 DEF Toward, WidenedFor
  <2>2. CASE ~(f = e \/ l \notin NeighborLevels(f))
    <3>1. by(f, At(n)) = Widened(l, At(n), center(f))
      BY <2>2 DEF WidenedFor
    <3>2. center(f) = Outside(Border(f), Depth(l, Shift(f)), EdgeDepth(f, l), l)
      BY OwnCenterIs
    <3>3. /\ Border(e) \in Edges /\ Border(f) \in Edges /\ EdgeDepth(f, l) \in Nat
          /\ Depth(l, Shift(e)) \in 0 .. 2 * Mid(l) /\ Depth(l, Shift(f)) \in 0 .. 2 * Mid(l)
      <4> DEFINE a == Depth(l, Shift(e))
                 b == Depth(l, Shift(f))
                 w == 2 * Mid(l)
      <4>1. /\ Border(e) \in Edges /\ Border(f) \in Edges /\ EdgeDepth(f, l) \in Nat
            /\ a \in Nat /\ a <= w /\ b \in Nat /\ b <= w /\ w \in Nat
        BY BorderIs, OwnCenterIs, FactorHalves
      <4> HIDE DEF a, b, w
      <4>2. a \in 0 .. w /\ b \in 0 .. w
        BY <4>1
      <4> QED BY <4>1, <4>2 DEF a, b, w
    <3>4. Widened(l, At(n), center(f)) = At(Lesser(n, EdgeDepth(f, l)))
      BY <3>2, <3>3, WidenedIs
    <3> QED BY <2>2, <3>1, <3>4 DEF Toward
  <2> QED BY <2>1, <2>2
<1>3. NeighborCenter(e, l) = by("left", by("bottom", by("right", by("top", center(e)))))
  BY DEF NeighborCenter
<1> HIDE DEF by, center, At
<1> DEFINE n1 == Toward(e, l, "top", EdgeDepth(e, l))
           n2 == Toward(e, l, "right", n1)
           n3 == Toward(e, l, "bottom", n2)
           n4 == Toward(e, l, "left", n3)
<1>4. "top" \in Edges /\ "right" \in Edges /\ "bottom" \in Edges /\ "left" \in Edges
  BY DEF Edges
<1>5. n1 \in Nat
  BY <1>1, <1>4, TowardIs
<1>6. by("top", center(e)) = At(n1)
  BY <1>1, <1>2, <1>4
<1> HIDE DEF n1
<1>7. n2 \in Nat /\ by("right", At(n1)) = At(n2)
  BY <1>2, <1>4, <1>5, TowardIs
<1> HIDE DEF n2
<1>8. n3 \in Nat /\ by("bottom", At(n2)) = At(n3)
  BY <1>2, <1>4, <1>7, TowardIs
<1> HIDE DEF n3
<1>9. by("left", At(n3)) = At(n4)
  BY <1>2, <1>4, <1>8
<1>10. n4 = Least(e, l)
  BY DEF n1, n2, n3, n4, Least
<1> HIDE DEF n4
<1> QED BY <1>3, <1>6, <1>7, <1>8, <1>9, <1>10 DEF At

LEMMA LeastIs ==
  ASSUME AtIsPoint, NEW e \in Edges, NEW l \in Levels, l \in NeighborLevels(e)
  PROVE  /\ Least(e, l) \in Nat
         /\ \E f \in Edges : l \in NeighborLevels(f) /\ Least(e, l) = EdgeDepth(f, l)
         /\ \A f \in Edges : l \in NeighborLevels(f) => Least(e, l) <= EdgeDepth(f, l)
<1> DEFINE n0 == EdgeDepth(e, l)
           n1 == Toward(e, l, "top", n0)
           n2 == Toward(e, l, "right", n1)
           n3 == Toward(e, l, "bottom", n2)
           n4 == Toward(e, l, "left", n3)
           Reached(n) == \E f \in Edges : l \in NeighborLevels(f) /\ n = EdgeDepth(f, l)
           Below(n, f) == f # e /\ l \in NeighborLevels(f) => n <= EdgeDepth(f, l)
<1>1. "top" \in Edges /\ "right" \in Edges /\ "bottom" \in Edges /\ "left" \in Edges
  BY DEF Edges
<1>2. \A f \in Edges : EdgeDepth(f, l) \in Nat
  BY OverlapsIs
<1>3. n0 \in Nat /\ Reached(n0)
  BY <1>2
<1>4. n1 \in Nat /\ n1 <= n0 /\ Below(n1, "top") /\ (n1 = n0 \/ Reached(n1))
  BY <1>1, <1>3, TowardIs
<1>5. n1 \in Nat => n2 \in Nat /\ n2 <= n1 /\ Below(n2, "right") /\ (n2 = n1 \/ Reached(n2))
  <2> HIDE DEF n1
  <2> QED BY <1>1, TowardIs
<1>6. n2 \in Nat => n3 \in Nat /\ n3 <= n2 /\ Below(n3, "bottom") /\ (n3 = n2 \/ Reached(n3))
  <2> HIDE DEF n2
  <2> QED BY <1>1, TowardIs
<1>7. n3 \in Nat => n4 \in Nat /\ n4 <= n3 /\ Below(n4, "left") /\ (n4 = n3 \/ Reached(n4))
  <2> HIDE DEF n3
  <2> QED BY <1>1, TowardIs
<1>8. n4 = Least(e, l)
  BY DEF Least
<1> HIDE DEF n1, n2, n3, n4
<1>9. n4 \in Nat /\ n4 <= n0 /\ n4 <= n1 /\ n4 <= n2 /\ n4 <= n3
  BY <1>3, <1>4, <1>5, <1>6, <1>7
<1>10. Reached(n4)
  BY <1>3, <1>4, <1>5, <1>6, <1>7
<1>11. \A f \in Edges : l \in NeighborLevels(f) => n4 <= EdgeDepth(f, l)
  <2> SUFFICES ASSUME NEW f \in Edges, l \in NeighborLevels(f) PROVE n4 <= EdgeDepth(f, l)
    OBVIOUS
  <2>1. CASE f = e
    BY <1>9, <2>1
  <2> HIDE DEF n0
  <2>2. CASE f # e /\ f = "top"     BY <1>2, <1>4, <1>9, <2>2
  <2>3. CASE f # e /\ f = "right"   BY <1>2, <1>4, <1>5, <1>9, <2>3
  <2>4. CASE f # e /\ f = "bottom"  BY <1>2, <1>4, <1>5, <1>6, <1>9, <2>4
  <2>5. CASE f # e /\ f = "left"    BY <1>2, <1>4, <1>5, <1>6, <1>7, <1>9, <2>5
  <2> QED BY <2>1, <2>2, <2>3, <2>4, <2>5 DEF Edges
<1> QED BY <1>8, <1>9, <1>10, <1>11
---------------------------------------------------------------------------
(* Centers nest: the center of a level is its child's, truncated by half.  *)

DeepestIs == deepest \in 0 .. MaxLevels - 1

LEMMA DrawnBelow ==
  ASSUME AtIsPoint, DeepestIs, NEW e \in Edges
  PROVE  /\ NeighborLevels(e) \in SUBSET Levels
         /\ \A l \in Levels : l + 1 \in NeighborLevels(e) => l \in NeighborLevels(e)
<1>1. deepest \in Nat /\ deepest <= MaxLevels - 1 /\ MaxLevels \in Nat
  BY LevelsAssumption DEF DeepestIs
<1>2. NeighborLevels(e) \in SUBSET Levels
  BY <1>1 DEF NeighborLevels, Levels
<1>3. ASSUME NEW l \in Levels, l + 1 \in NeighborLevels(e) PROVE l \in NeighborLevels(e)
  <2>1. l + 1 \in Levels /\ l + 1 \in 1 .. deepest /\ Overlaps(e, l + 1)
    BY <1>2, <1>3 DEF NeighborLevels
  <2>2. l \in 1 .. deepest
    BY <1>1, <2>1 DEF Levels
  <2> QED BY <2>1, <2>2, OverlapsBelow DEF NeighborLevels
<1> QED BY <1>2, <1>3

LEMMA EdgeDepthHalves ==
  ASSUME AtIsPoint, NEW e \in Edges, NEW l \in Levels, l + 1 \in Levels
  PROVE  /\ EdgeDepth(e, l) = EdgeDepth(e, l + 1) \div 2
         /\ EdgeDepth(e, l) \in Nat /\ EdgeDepth(e, l + 1) \in Nat
<1> DEFINE n == -Beyond(W, e, at)
<1>1. n \in 0 .. W /\ W \in Nat
  BY AtInside
<1> HIDE DEF n
<1>2. n \in Nat
  BY <1>1
<1>3. Depth(l, n) = Depth(l + 1, n) \div 2 /\ Depth(l, n) \in Nat /\ Depth(l + 1, n) \in Nat
  BY <1>2, DepthIs
<1> QED BY <1>3 DEF EdgeDepth, n

LEMMA LeastHalves ==
  ASSUME AtIsPoint, DeepestIs, NEW e \in Edges, NEW l \in Levels, l + 1 \in NeighborLevels(e)
  PROVE  Least(e, l) = Least(e, l + 1) \div 2 /\ Least(e, l) \in Nat /\ Least(e, l + 1) \in Nat
<1>1. l + 1 \in Levels /\ l \in NeighborLevels(e)
  BY DrawnBelow
<1> DEFINE A == Least(e, l)
           B == Least(e, l + 1)
<1>2. /\ A \in Nat
      /\ \A f \in Edges : l \in NeighborLevels(f) => A <= EdgeDepth(f, l)
  BY <1>1, LeastIs
<1>3. PICK g \in Edges : l \in NeighborLevels(g) /\ A = EdgeDepth(g, l)
  BY <1>1, LeastIs
<1>4. /\ B \in Nat
      /\ \A f \in Edges : l + 1 \in NeighborLevels(f) => B <= EdgeDepth(f, l + 1)
  BY <1>1, LeastIs
<1>5. PICK h \in Edges : l + 1 \in NeighborLevels(h) /\ B = EdgeDepth(h, l + 1)
  BY <1>1, LeastIs
<1> HIDE DEF A, B
<1>6. A <= B \div 2
  <2>1. l \in NeighborLevels(h)
    BY <1>5, DrawnBelow
  <2>2. EdgeDepth(h, l) = B \div 2
    BY <1>1, <1>5, EdgeDepthHalves
  <2> QED BY <1>2, <2>1, <2>2
<1>7. B <= EdgeDepth(g, l + 1)
  <2>1. CASE l + 1 \in NeighborLevels(g)
    BY <1>4, <2>1
  <2>2. CASE l + 1 \notin NeighborLevels(g)
    <3>1. Overlaps(e, l + 1) /\ ~Overlaps(g, l + 1)
      BY <2>2 DEF NeighborLevels
    <3>2. EdgeDepth(e, l + 1) <= EdgeDepth(g, l + 1)
      BY <1>1, <3>1, OverlapsNearer
    <3>3. B <= EdgeDepth(e, l + 1)
      BY <1>4
    <3>4. EdgeDepth(e, l + 1) \in Nat /\ EdgeDepth(g, l + 1) \in Nat
      BY <1>1, EdgeDepthHalves
    <3> QED BY <1>4, <3>2, <3>3, <3>4
  <2> QED BY <2>1, <2>2
<1>8. A = EdgeDepth(g, l + 1) \div 2 /\ EdgeDepth(g, l + 1) \in Nat
  BY <1>1, <1>3, EdgeDepthHalves
<1> DEFINE C == EdgeDepth(g, l + 1)
<1> HIDE DEF C
<1>9. A = B \div 2
  <2>1. A = C \div 2 /\ C \in Nat /\ B <= C /\ A <= B \div 2
    BY <1>6, <1>7, <1>8 DEF C
  <2> QED BY <1>2, <1>4, <2>1
<1> QED BY <1>2, <1>4, <1>9 DEF A, B

LEMMA NeighborCenterNests ==
  ASSUME AtIsPoint, DeepestIs, NEW e \in Edges, NEW l \in Levels, l + 1 \in NeighborLevels(e)
  PROVE  /\ NeighborCenter(e, l) = Each(NeighborCenter(e, l + 1), 2)
         /\ NeighborCenter(e, l + 1).x \in Int /\ NeighborCenter(e, l + 1).y \in Int
<1> DEFINE r == Border(e)
           m == Mid(l)
           a == Depth(l, Shift(e))
           b == Depth(l + 1, Shift(e))
           n == Least(e, l)
           k == Least(e, l + 1)
<1>1. l + 1 \in Levels
  BY DrawnBelow
<1>2. r \in Edges /\ Shift(e) \in Nat
  BY BorderIs
<1>3. a = b \div 2 /\ a \in Nat /\ b \in Nat
  BY <1>1, <1>2, DepthIs
<1>4. n = k \div 2 /\ n \in Nat /\ k \in Nat
  BY LeastHalves
<1>5. m \in Nat /\ Mid(l + 1) = 2 * m
  BY FactorHalves
<1>6. NeighborCenter(e, l) = Outside(r, a, n, l) /\ NeighborCenter(e, l + 1) = Outside(r, b, k, l + 1)
  BY <1>1, NeighborCenterIs
<1> HIDE DEF r, m, a, b, n, k
<1>7. Trunc(b, 2) = a /\ Trunc(-k, 2) = -n /\ Trunc(2 * (2 * m) + k, 2) = 2 * m + n
  BY <1>3, <1>4, <1>5 DEF Trunc
<1>8. CASE r \in {"top", "bottom"}
  BY <1>3, <1>4, <1>5, <1>6, <1>7, <1>8 DEF Outside, Outer, Each, m
<1>9. CASE r \in {"left", "right"}
  BY <1>3, <1>4, <1>5, <1>6, <1>7, <1>9 DEF Outside, Outer, Each, m
<1> QED BY <1>2, <1>8, <1>9 DEF Edges

LEMMA FrontCenterNests ==
  ASSUME AtIsPoint, NEW l \in Levels, l + 1 \in Levels
  PROVE  /\ FrontCenter(l) = Each(FrontCenter(l + 1), 2)
         /\ FrontCenter(l + 1).x \in Int /\ FrontCenter(l + 1).y \in Int
<1> DEFINE x == at.x
           y == at.y
<1>1. x \in Nat /\ y \in Nat
  BY FineIs DEF AtIsPoint
<1>2. /\ FrontCenter(l) = [x |-> Depth(l, x), y |-> Depth(l, y)]
      /\ FrontCenter(l + 1) = [x |-> Depth(l + 1, x), y |-> Depth(l + 1, y)]
  BY FrontCenterIs
<1> HIDE DEF x, y
<1>3. /\ Depth(l, x) = Depth(l + 1, x) \div 2 /\ Depth(l + 1, x) \in Nat
      /\ Depth(l, y) = Depth(l + 1, y) \div 2 /\ Depth(l + 1, y) \in Nat
  BY <1>1, DepthIs
<1> QED BY <1>2, <1>3 DEF Each, Trunc

\* The centers of all patches nest, and a hole is for the next level.
LEMMA ChildIsNext ==
  ASSUME AtIsPoint, DeepestIs, NEW s \in FaceSides, NEW l \in DrawnOn(s) \cup {0}, Child(s, l) # 0
  PROVE  Child(s, l) = l + 1 /\ l + 1 \in DrawnOn(s) /\ l \in Nat
<1>1. /\ DrawnOn(s) \in SUBSET Levels
      /\ \A k \in Levels : k + 1 \in DrawnOn(s) => k \in DrawnOn(s)
  <2>1. CASE s = "front"
    <3>1. deepest \in Nat /\ deepest <= MaxLevels - 1 /\ MaxLevels \in Nat
      BY LevelsAssumption DEF DeepestIs
    <3> QED BY <2>1, <3>1 DEF DrawnOn, Levels
  <2>2. CASE s \in Edges /\ s # "front"
    BY <2>2, DrawnBelow DEF DrawnOn
  <2> QED BY <2>1, <2>2 DEF FaceSides
<1>2. Levels \in SUBSET Nat /\ \A k \in Nat : k + 1 \in Levels /\ k # 0 => k \in Levels
  BY LevelsAssumption DEF Levels
<1>3. l \in Nat
  <2>1. l = 0 \/ l \in DrawnOn(s)
    OBVIOUS
  <2>2. Levels \in SUBSET Nat /\ DrawnOn(s) \in SUBSET Levels /\ 0 \in Nat
    BY <1>1, <1>2
  <2> QED BY <2>1, <2>2
<1>4. Deeper(s, l) # {} /\ Child(s, l) = CHOOSE c \in Deeper(s, l) : \A k \in Deeper(s, l) : c <= k
  BY DEF Child
<1>5. Deeper(s, l) = {k \in DrawnOn(s) : k > l}
  BY DEF Deeper
<1>6. PICK m \in Deeper(s, l) : \A k \in Deeper(s, l) : m <= k
  <2>1. Deeper(s, l) \in SUBSET Nat
    BY <1>1, <1>2, <1>5
  <2> QED BY <1>4, <2>1, NatLeast
<1>7. Child(s, l) \in Deeper(s, l) /\ \A k \in Deeper(s, l) : Child(s, l) <= k
  BY <1>4, <1>6
<1> DEFINE c == Child(s, l)
<1> HIDE DEF c
<1>8. c \in DrawnOn(s) /\ c > l /\ c \in Nat /\ c \in Levels
  BY <1>1, <1>2, <1>5, <1>7 DEF c
<1>9. c = l + 1
  <2> SUFFICES ASSUME c # l + 1 PROVE FALSE
    OBVIOUS
  <2>1. c - 1 \in Nat /\ c - 1 # 0 /\ (c - 1) + 1 = c /\ c - 1 > l
    BY <1>3, <1>8
  <2>2. c - 1 \in DrawnOn(s)
    BY <1>1, <1>2, <1>8, <2>1
  <2>3. c <= c - 1
    BY <1>5, <1>7, <2>1, <2>2 DEF c
  <2> QED BY <1>8, <2>3
<1> QED BY <1>3, <1>8, <1>9 DEF c

LEMMA HolesFitAt ==
  ASSUME AtIsPoint, DeepestIs
  PROVE  HolesFit
<1> SUFFICES ASSUME NEW p \in Patches, p.child # 0 PROVE p.child = p.level + 1 /\ HoleFits(p)
  BY DEF HolesFit
<1>1. PICK s \in FaceSides : \E l \in DrawnOn(s) \cup {0} : p = Patch(s, l, Child(s, l))
  BY DEF Patches, FaceSides
<1>2. PICK l \in DrawnOn(s) \cup {0} : p = Patch(s, l, Child(s, l))
  BY <1>1
<1>3. p.side = s /\ p.level = l /\ p.child = Child(s, l)
  BY <1>2 DEF Patch
<1>4. Child(s, l) = l + 1 /\ l + 1 \in DrawnOn(s) /\ l \in Nat
  BY <1>3, ChildIsNext
<1> DEFINE c == Center(s, l + 1)
           q == Center(s, l)
<1>5. l + 1 \in Levels /\ (l # 0 => l \in Levels)
  <2>1. DrawnOn(s) \in SUBSET Levels
    <3>1. deepest \in Nat /\ deepest <= MaxLevels - 1 /\ MaxLevels \in Nat
      BY LevelsAssumption DEF DeepestIs
    <3>2. CASE s = "front"
      BY <3>1, <3>2 DEF DrawnOn, Levels
    <3>3. CASE s \in Edges /\ s # "front"
      BY <3>3, DrawnBelow DEF DrawnOn
    <3> QED BY <3>2, <3>3 DEF FaceSides
  <2> QED BY <1>4, <2>1
<1>6. c.x \in Int /\ c.y \in Int
  <2>1. l + 1 # 0
    BY <1>4
  <2>2. CASE s = "front"
    <3>1. c = FrontCenter(l + 1)
      BY <2>1, <2>2 DEF Center
    <3> QED BY <1>5, <3>1, FrontCenterIs
  <2>3. CASE s \in Edges /\ s # "front"
    <3>1. c = NeighborCenter(s, l + 1) /\ l + 1 \in NeighborLevels(s)
      BY <1>4, <2>1, <2>3 DEF Center, DrawnOn
    <3>2. /\ c = Outside(Border(s), Depth(l + 1, Shift(s)), Least(s, l + 1), l + 1)
          /\ Depth(l + 1, Shift(s)) \in Nat /\ Least(s, l + 1) \in Nat /\ Mid(l + 1) \in Nat
      BY <1>5, <2>3, <3>1, NeighborCenterIs, LeastIs, OwnCenterIs, FactorHalves
    <3> QED BY <3>2 DEF Outside, Outer
  <2> QED BY <2>2, <2>3 DEF FaceSides
<1>7. CASE l = 0
  <2>1. c = Center(s, 1) /\ q = [x |-> NodeFourth, y |-> NodeFourth]
    BY <1>7 DEF Center
  <2>2. NodeFourth \in Nat /\ NodeHalf = 2 * NodeFourth
    BY NodeAssumption DEF NodeHalf
  <2>3. HoleOffset(1, c) = [x |-> c.x - NodeHalf, y |-> c.y - NodeHalf]
    BY DEF HoleOffset
  <2>4. p.child = 1 /\ p.level = 0 /\ p.side = s
    BY <1>3, <1>4, <1>7
  <2> HIDE DEF c, q
  <2>5. HoleFits(p) <=> LET off == HoleOffset(1, c) IN off.x = c.x - 2 * q.x /\ off.y = c.y - 2 * q.y
    BY <2>1, <2>4, <1>7 DEF HoleFits, q
  <2> QED BY <1>6, <2>1, <2>2, <2>3, <2>4, <2>5
<1>8. CASE l # 0
  <2>1. q = Each(c, 2)
    <3>1. CASE s = "front"
      <4>1. c = FrontCenter(l + 1) /\ q = FrontCenter(l)
        BY <1>4, <1>8, <3>1 DEF Center
      <4> QED BY <1>5, <1>8, <4>1, FrontCenterNests
    <3>2. CASE s \in Edges /\ s # "front"
      <4>1. c = NeighborCenter(s, l + 1) /\ q = NeighborCenter(s, l) /\ l + 1 \in NeighborLevels(s)
        BY <1>4, <1>8, <3>2 DEF Center, DrawnOn
      <4> QED BY <1>5, <1>8, <3>2, <4>1, NeighborCenterNests
    <3> QED BY <3>1, <3>2 DEF FaceSides
  <2> HIDE DEF c, q
  <2>2. l + 1 # 1
    BY <1>4, <1>8
  <2> DEFINE off(k) == IF k % 2 = 0 THEN 0 ELSE IF k > 0 THEN 1 ELSE -1
  <2>3. HoleOffset(l + 1, c) = [x |-> off(c.x), y |-> off(c.y)]
    BY <2>2 DEF HoleOffset
  <2>4. off(c.x) = c.x - 2 * q.x /\ off(c.y) = c.y - 2 * q.y
    BY <1>6, <2>1, ParityIs DEF Each
  <2> HIDE DEF off
  <2>5. HoleFits(p) <=> LET o == HoleOffset(l + 1, c) IN o.x = c.x - 2 * q.x /\ o.y = c.y - 2 * q.y
    BY <1>3, <1>4 DEF HoleFits, c, q
  <2> QED BY <1>3, <1>4, <2>3, <2>4, <2>5
<1> QED BY <1>7, <1>8
---------------------------------------------------------------------------
(* The seams.                                                              *)

Level(e) == e \in {"top", "bottom"}
Low(e) == e \in {"top", "left"}

\* Where three faces meet: the faces across two edges of a face share one edge,
\* which leaves both at right angles, and which they count in opposite directions
\* if it leaves one of them at its low end and the other at its high end.
Joint(F, e, d, g) ==
  /\ \A k \in Edges : NeighborFace(NeighborFace(F, e), k) = NeighborFace(F, d) <=> k = g
  /\ Level(g) <=> ~Level(NeighborEdge(F, e))
  /\ Level(NeighborEdge(NeighborFace(F, e), g)) <=> ~Level(NeighborEdge(F, d))
  /\ Reversed(g, NeighborEdge(NeighborFace(F, e), g)) <=>
       (Low(NeighborEdge(F, e)) <=> ~Low(NeighborEdge(F, d)))

LEMMA FacesMeetAtCorners ==
  ASSUME NEW F \in Faces, NEW e \in Edges, NEW d \in Edges, Level(e) <=> ~Level(d)
  PROVE  \E g \in Edges : Joint(F, e, d, g)
<1>1. SUFFICES Joint(F, e, d, "top") \/ Joint(F, e, d, "bottom") \/ Joint(F, e, d, "left") \/ Joint(F, e, d, "right")
  BY DEF Edges
<1>2. CASE F = "front"
  BY <1>2 DEF Joint, NeighborFace, NeighborEdge, Reversed, Level, Low, Edges
<1>3. CASE F = "back"
  BY <1>3 DEF Joint, NeighborFace, NeighborEdge, Reversed, Level, Low, Edges
<1>4. CASE F = "top"
  BY <1>4 DEF Joint, NeighborFace, NeighborEdge, Reversed, Level, Low, Edges
<1>5. CASE F = "bottom"
  BY <1>5 DEF Joint, NeighborFace, NeighborEdge, Reversed, Level, Low, Edges
<1>6. CASE F = "left"
  BY <1>6 DEF Joint, NeighborFace, NeighborEdge, Reversed, Level, Low, Edges
<1>7. CASE F = "right"
  BY <1>7 DEF Joint, NeighborFace, NeighborEdge, Reversed, Level, Low, Edges
<1> QED BY <1>2, <1>3, <1>4, <1>5, <1>6, <1>7 DEF Faces

\* The stretch of an edge that a level covers, from where its center is along it.
Covered(l, a) == {k \in 0 .. 2 * Mid(l) : a - NodeFourth <= k /\ k <= a + NodeFourth}

LEMMA StretchIs ==
  ASSUME NEW e \in Edges, NEW l \in Levels, NEW c
  PROVE  Stretch(e, c, l) = Covered(l, IF Level(e) THEN c.x ELSE c.y)
BY WidthOfLevel DEF Stretch, Covered, Level

LEMMA CoverFlips ==
  ASSUME NEW l \in Levels, NEW a \in Int
  PROVE  {2 * Mid(l) - k : k \in Covered(l, a)} = Covered(l, 2 * Mid(l) - a)
<1> DEFINE m == 2 * Mid(l)
<1>1. m \in Nat /\ NodeFourth \in Nat
  BY FactorHalves, NodeAssumption
<1>2. Covered(l, a) = {k \in 0 .. m : a - NodeFourth <= k /\ k <= a + NodeFourth}
  BY DEF Covered
<1>3. Covered(l, m - a) = {k \in 0 .. m : m - a - NodeFourth <= k /\ k <= m - a + NodeFourth}
  BY DEF Covered
<1> HIDE DEF m
<1>4. ASSUME NEW k \in Covered(l, a) PROVE m - k \in Covered(l, m - a)
  BY <1>1, <1>2, <1>3, <1>4
<1>5. ASSUME NEW k \in Covered(l, m - a) PROVE m - k \in Covered(l, a) /\ m - (m - k) = k
  BY <1>1, <1>2, <1>3, <1>5
<1>6. {m - k : k \in Covered(l, a)} = Covered(l, m - a)
  BY <1>4, <1>5
<1> QED BY <1>6 DEF m

LEMMA StraightEdgesMeetAt ==
  ASSUME AtIsPoint, DeepestIs
  PROVE  StraightEdgesMeet
<1> SUFFICES ASSUME NEW e \in Edges, ~Reversed(e, NeighborEdge(at.face, e)),
                    NEW l \in NeighborLevels(e)
             PROVE  MeetAt(e, l)
  BY DEF StraightEdgesMeet
<1>1. l \in Levels
  BY DrawnBelow
<1> DEFINE r == Border(e)
           a == Depth(l, Along(e, at))
<1>2. r \in Edges /\ r = NeighborEdge(at.face, e) /\ ~Reversed(e, r)
  BY BorderIs DEF Border
<1>3. Stretch(e, FrontCenter(l), l) = Covered(l, a)
  <2>1. (IF Level(e) THEN FrontCenter(l).x ELSE FrontCenter(l).y) = a
    BY <1>1, FrontCenterIs DEF Along, Level
  <2> QED BY <1>1, <2>1, StretchIs
<1>4. Stretch(r, NeighborCenter(e, l), l) = Covered(l, a)
  <2>1. NeighborCenter(e, l) = Outside(r, a, Least(e, l), l)
    BY <1>1, <1>2, NeighborCenterIs DEF Shift
  <2> DEFINE c == NeighborCenter(e, l)
  <2>2. (IF Level(r) THEN c.x ELSE c.y) = a
    <3> HIDE DEF r, a
    <3> QED BY <2>1 DEF Outside, Level
  <2>3. Stretch(r, c, l) = Covered(l, IF Level(r) THEN c.x ELSE c.y)
    <3> HIDE DEF r, c
    <3> QED BY <1>1, <1>2, StretchIs
  <2> QED BY <2>2, <2>3
<1> QED BY <1>2, <1>3, <1>4 DEF MeetAt

LEMMA CornersMeetAt ==
  ASSUME AtIsPoint, DeepestIs
  PROVE  CornersMeet
<1> SUFFICES ASSUME NEW e \in Edges, NEW d \in Edges, e # d,
                    NEW l \in NeighborLevels(e) \cap NeighborLevels(d)
             PROVE  CornerMeets(e, d, l)
  BY DEF CornersMeet
<1>1. l \in Levels /\ l \in NeighborLevels(e) /\ l \in NeighborLevels(d)
  BY DrawnBelow
<1>2. Level(e) <=> ~Level(d)
  <2>1. Overlaps(e, l) /\ Overlaps(d, l)
    BY <1>1 DEF NeighborLevels
  <2> QED BY <1>1, <2>1, OverlapsOneSide DEF Edges, Level
<1>3. at.face \in Faces
  BY AtInside
<1> DEFINE f == NeighborFace(at.face, e)
           p == Border(e)
           q == Border(d)
           n == Least(e, l)
           a == Outer(p, l, n)
           b == Outer(q, l, n)
           last == 2 * Mid(l)
<1>4. PICK g \in Edges : Joint(at.face, e, d, g)
  BY <1>2, <1>3, FacesMeetAtCorners
<1> DEFINE r == NeighborEdge(f, g)
<1>5. g = CHOOSE k \in Edges : NeighborFace(f, k) = NeighborFace(at.face, d)
  <2>1. \A k \in Edges : NeighborFace(f, k) = NeighborFace(at.face, d) <=> k = g
    BY <1>4 DEF Joint
  <2> QED BY <2>1
<1>6. /\ Level(g) <=> ~Level(p)
      /\ Level(r) <=> ~Level(q)
      /\ Reversed(g, r) <=> (Low(p) <=> ~Low(q))
  BY <1>4 DEF Joint, Border
<1>7. n \in Nat /\ Least(d, l) = n
  <2>1. /\ Least(e, l) \in Nat /\ Least(d, l) \in Nat
        /\ \E k \in Edges : l \in NeighborLevels(k) /\ Least(e, l) = EdgeDepth(k, l)
        /\ \E k \in Edges : l \in NeighborLevels(k) /\ Least(d, l) = EdgeDepth(k, l)
        /\ \A k \in Edges : l \in NeighborLevels(k) => Least(e, l) <= EdgeDepth(k, l)
        /\ \A k \in Edges : l \in NeighborLevels(k) => Least(d, l) <= EdgeDepth(k, l)
    BY <1>1, LeastIs
  <2> QED BY <2>1
<1>8. p \in Edges /\ q \in Edges /\ r \in Edges /\ last \in Nat
  <2>1. r \in Edges
    <3>1. f \in Faces
      BY <1>3 DEF NeighborFace, Faces, Edges
    <3> HIDE DEF f
    <3> QED BY <3>1 DEF NeighborEdge, Edges, Faces
  <2> QED BY <1>1, <2>1, BorderIs, FactorHalves
<1>9. /\ NeighborCenter(e, l) = Outside(p, Depth(l, Shift(e)), n, l)
      /\ NeighborCenter(d, l) = Outside(q, Depth(l, Shift(d)), n, l)
  BY <1>1, <1>7, NeighborCenterIs
<1> HIDE DEF f, p, q, n, r
<1>10. a \in Int /\ b \in Int /\ (Reversed(g, r) => a = last - b) /\ (~Reversed(g, r) => a = b)
  <2>1. /\ Low(p) => a = -n
        /\ ~Low(p) => a = last + n
        /\ Low(q) => b = -n
        /\ ~Low(q) => b = last + n
    BY DEF Outer, Low
  <2> HIDE DEF a, b, last
  <2> QED BY <1>6, <1>7, <1>8, <2>1
<1>11. Stretch(g, NeighborCenter(e, l), l) = Covered(l, a)
  <2> DEFINE c == NeighborCenter(e, l)
  <2>1. (IF Level(g) THEN c.x ELSE c.y) = a
    BY <1>6, <1>9 DEF Outside, Level
  <2> HIDE DEF c, a
  <2>2. Stretch(g, c, l) = Covered(l, IF Level(g) THEN c.x ELSE c.y)
    BY <1>1, StretchIs
  <2> QED BY <2>1, <2>2 DEF c
<1>12. Stretch(r, NeighborCenter(d, l), l) = Covered(l, b)
  <2> DEFINE c == NeighborCenter(d, l)
  <2>1. (IF Level(r) THEN c.x ELSE c.y) = b
    BY <1>6, <1>9 DEF Outside, Level
  <2> HIDE DEF c, b
  <2>2. Stretch(r, c, l) = Covered(l, IF Level(r) THEN c.x ELSE c.y)
    BY <1>1, <1>8, StretchIs
  <2> QED BY <2>1, <2>2 DEF c
<1> HIDE DEF a, b
<1>13. Covered(l, a) = IF Reversed(g, r) THEN {last - k : k \in Covered(l, b)} ELSE Covered(l, b)
  <2>1. {last - k : k \in Covered(l, b)} = Covered(l, last - b)
    BY <1>1, <1>10, CoverFlips
  <2> HIDE DEF last
  <2> QED BY <1>10, <2>1
<1>14. MaxScale \div Factor(l) = last
  BY <1>1, WidthOfLevel
<1> HIDE DEF last
<1> QED
  <2>1. CornerMeets(e, d, l) <=>
          Stretch(g, NeighborCenter(e, l), l) =
            IF Reversed(g, r) THEN {last - k : k \in Stretch(r, NeighborCenter(d, l), l)}
            ELSE Stretch(r, NeighborCenter(d, l), l)
    BY <1>5, <1>14 DEF CornerMeets, f, r
  <2> QED BY <1>11, <1>12, <1>13, <2>1
---------------------------------------------------------------------------
(* The mesh: which triangles the loops of onCreate write, that they tile   *)
(* the square, and what is left of them around a hole.                     *)

\* The number of the vertex in column c and row r.
Vertex(c, r) == r * NodeEdge + c

\* The kinds of triangles, each by the places where its first vertex may be: the two
\* halves of a quad, those halves where the mesh turns them at its left and right end, and
\* the triangles that stand on the edge of the mesh.
UpperHalf(a, b) ==
  \/ 2 <= a /\ a <= NodeWidth - 1 /\ 1 <= b /\ b <= NodeWidth - 2
  \/ a = 1 /\ b % 2 = 0 /\ 2 <= b /\ b <= NodeWidth - 2
  \/ b = NodeWidth - 1 /\ a % 2 = 0 /\ 2 <= a /\ a <= NodeWidth - 2
LowerHalf(a, b) ==
  \/ 1 <= a /\ a <= NodeWidth - 2 /\ 1 <= b /\ b <= NodeWidth - 2
  \/ a = NodeWidth - 1 /\ b % 2 = 1 /\ 1 <= b /\ b <= NodeWidth - 3
  \/ b = 0 /\ a % 2 = 0 /\ 2 <= a /\ a <= NodeWidth - 2
LowerRight(a, b) ==
  \/ b = 0 /\ a % 2 = 0 /\ 2 <= a /\ a <= NodeWidth - 2
  \/ a = 1 /\ b % 2 = 1 /\ 1 <= b /\ b <= NodeWidth - 3
UpperLeft(a, b) ==
  \/ a = NodeWidth /\ b % 2 = 0 /\ 2 <= b /\ b <= NodeWidth - 2
  \/ b = NodeWidth - 1 /\ a % 2 = 1 /\ 3 <= a /\ a <= NodeWidth - 1
AtTop(a, b) == b = 0 /\ a % 2 = 0 /\ 2 <= a /\ a <= NodeWidth
AtLeft(a, b) == a = 1 /\ b % 2 = 1 /\ 1 <= b /\ b <= NodeWidth - 1
AtRight(a, b) == a = NodeWidth /\ b % 2 = 0 /\ 0 <= b /\ b <= NodeWidth - 2
AtBottom(a, b) == b = NodeWidth - 1 /\ a % 2 = 1 /\ 1 <= a /\ a <= NodeWidth - 1

\* The triangle with corners a, b and c, d and e, f, in the order of the index buffer.
Fits(a, b, c, d, e, f) ==
  \/ UpperHalf(a, b) /\ c = a - 1 /\ d = b /\ e = a /\ f = b + 1
  \/ LowerHalf(a, b) /\ c = a /\ d = b + 1 /\ e = a + 1 /\ f = b + 1
  \/ LowerRight(a, b) /\ c = a - 1 /\ d = b + 1 /\ e = a /\ f = b + 1
  \/ UpperLeft(a, b) /\ c = a - 1 /\ d = b /\ e = a - 1 /\ f = b + 1
  \/ AtTop(a, b) /\ c = a - 2 /\ d = 0 /\ e = a - 1 /\ f = 1
  \/ AtLeft(a, b) /\ c = 0 /\ d = b - 1 /\ e = 0 /\ f = b + 1
  \/ AtRight(a, b) /\ c = a - 1 /\ d = b + 1 /\ e = a /\ f = b + 2
  \/ AtBottom(a, b) /\ c = a - 1 /\ d = NodeWidth /\ e = a + 1 /\ f = NodeWidth

Triangle(a, b, c, d, e, f) == <<Vertex(a, b), Vertex(c, d), Vertex(e, f)>>

LEMMA WidthIs ==
  /\ NodeWidth \in Nat /\ NodeWidth >= 4 /\ NodeWidth % 2 = 0
  /\ NodeWidth = 2 * NodeHalf /\ NodeHalf \in Nat
BY NodeAssumption DEF NodeWidth, NodeHalf

\* A triangle lies in the mesh and turns the way the pipeline keeps.
LEMMA PlacesInRange ==
  ASSUME NEW a \in Int, NEW b \in Int, NEW c \in Int, NEW d \in Int, NEW e \in Int, NEW f \in Int,
         Fits(a, b, c, d, e, f)
  PROVE  /\ a \in 0 .. NodeWidth /\ b \in 0 .. NodeWidth /\ c \in 0 .. NodeWidth
         /\ d \in 0 .. NodeWidth /\ e \in 0 .. NodeWidth /\ f \in 0 .. NodeWidth
         /\ (c - a) * (f - b) - (e - a) * (d - b) < 0
BY WidthIs DEF Fits, UpperHalf, LowerHalf, LowerRight, UpperLeft, AtTop, AtLeft, AtRight, AtBottom

\* A side of a triangle fixes its third corner, and the place of the side in the triangle.
LEMMA SameFirst ==
  ASSUME NEW a \in Int, NEW b \in Int, NEW c \in Int, NEW d \in Int, NEW e \in Int, NEW f \in Int,
         NEW g \in Int, NEW h \in Int,
         Fits(a, b, c, d, e, f), Fits(a, b, c, d, g, h), ~(e = g /\ f = h)
  PROVE  FALSE
BY WidthIs DEF Fits, UpperHalf, LowerHalf, LowerRight, UpperLeft, AtTop, AtLeft, AtRight, AtBottom

LEMMA SameSecond ==
  ASSUME NEW a \in Int, NEW b \in Int, NEW c \in Int, NEW d \in Int, NEW e \in Int, NEW f \in Int,
         NEW g \in Int, NEW h \in Int,
         Fits(a, b, c, d, e, f), Fits(g, h, c, d, e, f), ~(a = g /\ b = h)
  PROVE  FALSE
BY WidthIs DEF Fits, UpperHalf, LowerHalf, LowerRight, UpperLeft, AtTop, AtLeft, AtRight, AtBottom

LEMMA SameThird ==
  ASSUME NEW a \in Int, NEW b \in Int, NEW c \in Int, NEW d \in Int, NEW e \in Int, NEW f \in Int,
         NEW g \in Int, NEW h \in Int,
         Fits(a, b, c, d, e, f), Fits(a, b, g, h, e, f), ~(c = g /\ d = h)
  PROVE  FALSE
BY WidthIs DEF Fits, UpperHalf, LowerHalf, LowerRight, UpperLeft, AtTop, AtLeft, AtRight, AtBottom

LEMMA FirstNotSecond ==
  ASSUME NEW a \in Int, NEW b \in Int, NEW c \in Int, NEW d \in Int, NEW e \in Int, NEW f \in Int,
         NEW g \in Int, NEW h \in Int,
         Fits(a, b, c, d, e, f), Fits(g, h, a, b, c, d)
  PROVE  FALSE
BY WidthIs DEF Fits, UpperHalf, LowerHalf, LowerRight, UpperLeft, AtTop, AtLeft, AtRight, AtBottom

LEMMA FirstNotThird ==
  ASSUME NEW a \in Int, NEW b \in Int, NEW c \in Int, NEW d \in Int, NEW e \in Int, NEW f \in Int,
         NEW g \in Int, NEW h \in Int,
         Fits(a, b, c, d, e, f), Fits(c, d, g, h, a, b)
  PROVE  FALSE
BY WidthIs DEF Fits, UpperHalf, LowerHalf, LowerRight, UpperLeft, AtTop, AtLeft, AtRight, AtBottom

LEMMA SecondNotThird ==
  ASSUME NEW a \in Int, NEW b \in Int, NEW c \in Int, NEW d \in Int, NEW e \in Int, NEW f \in Int,
         NEW g \in Int, NEW h \in Int,
         Fits(a, b, c, d, e, f), Fits(e, f, g, h, c, d)
  PROVE  FALSE
BY WidthIs DEF Fits, UpperHalf, LowerHalf, LowerRight, UpperLeft, AtTop, AtLeft, AtRight, AtBottom

\* Columns and rows count vertex numbers, and a number has one column and row.
LEMMA VertexSteps ==
  ASSUME NEW c \in Int, NEW r \in Int
  PROVE  /\ Vertex(c, r) \in Int /\ NodeEdge \in Int
         /\ \A k \in Int : Vertex(c + k, r) = Vertex(c, r) + k
         /\ Vertex(c, r + 1) = Vertex(c, r) + NodeEdge /\ Vertex(c, r - 1) = Vertex(c, r) - NodeEdge
<1>1. NodeEdge \in Int
  BY WidthIs DEF NodeEdge
<1>2. (r + 1) * NodeEdge = r * NodeEdge + NodeEdge /\ (r - 1) * NodeEdge = r * NodeEdge - NodeEdge
      /\ r * NodeEdge \in Int
  BY <1>1
<1> DEFINE x == r * NodeEdge
<1> HIDE DEF x
<1>3. /\ Vertex(c, r) = x + c /\ \A k \in Int : Vertex(c + k, r) = x + (c + k)
      /\ Vertex(c, r + 1) = x + NodeEdge + c /\ Vertex(c, r - 1) = x - NodeEdge + c
  BY <1>2 DEF Vertex, x
<1>4. x \in Int
  BY <1>2 DEF x
<1> QED BY <1>1, <1>3, <1>4

LEMMA VertexPlace ==
  ASSUME NEW c \in 0 .. NodeWidth, NEW r \in 0 .. NodeWidth
  PROVE  Column(Vertex(c, r)) = c /\ Row(Vertex(c, r)) = r /\ Vertex(c, r) \in 0 .. NodeEdge * NodeEdge
<1>1. NodeEdge \in Nat /\ NodeEdge > 0 /\ c \in 0 .. NodeEdge - 1 /\ r \in 0 .. NodeEdge - 1
  BY WidthIs DEF NodeEdge
<1> DEFINE E == NodeEdge
<1>2. E \in Nat /\ E > 0 /\ c \in 0 .. E - 1 /\ r \in 0 .. E - 1
  BY <1>1
<1>3. Column(Vertex(c, r)) = (r * E + c) % E /\ Row(Vertex(c, r)) = (r * E + c) \div E /\ Vertex(c, r) = r * E + c
  BY DEF Column, Row, Vertex
<1> HIDE DEF E
<1>4. (r * E + c) % E = c /\ (r * E + c) \div E = r
  BY <1>2, Z3
<1>5. r * E + c \in 0 .. E * E
  <2>1. (r + 1) * E <= E * E
    BY <1>2, Z3
  <2>2. (r + 1) * E = r * E + E /\ r * E \in Nat /\ E * E \in Nat
    BY <1>2, Z3
  <2> QED BY <1>2, <2>1, <2>2
<1> QED BY <1>3, <1>4, <1>5 DEF E

IsTriangle(t) ==
  \E a, b, c, d, e, f \in Int : Fits(a, b, c, d, e, f) /\ t = Triangle(a, b, c, d, e, f)

LEMMA NextVertices ==
  /\ NodeEdge = NodeWidth + 1 /\ NodeEdge \in Int
  /\ \A c \in Int : Vertex(c, 0) = c /\ Vertex(c, 1) = NodeEdge + c
  /\ \A c, r \in Int : Vertex(c, r) \in Int
  /\ \A c, r \in Int : Vertex(c + 1, r) = Vertex(c, r) + 1 /\ Vertex(c - 1, r) = Vertex(c, r) - 1
  /\ \A c, r \in Int : Vertex(c + 2, r) = Vertex(c, r) + 2
  /\ \A c, r \in Int : Vertex(c, r + 1) = Vertex(c, r) + NodeEdge /\ Vertex(c, r - 1) = Vertex(c, r) - NodeEdge
<1>1. \A c, r \in Int : \A k \in Int : Vertex(c + k, r) = Vertex(c, r) + k
  BY VertexSteps
<1>2. \A c, r \in Int : c - 1 = c + (-1)
  OBVIOUS
<1>3. \A c \in Int : Vertex(c, 0) = c /\ Vertex(c, 1) = NodeEdge + c
  BY WidthIs DEF Vertex, NodeEdge
<1>4. \A c, r \in Int : Vertex(c, r) \in Int
  BY VertexSteps
<1>5. \A c, r \in Int : Vertex(c + 1, r) = Vertex(c, r) + 1
  BY <1>1
<1>6. \A c, r \in Int : Vertex(c - 1, r) = Vertex(c, r) - 1
  <2> SUFFICES ASSUME NEW c \in Int, NEW r \in Int PROVE Vertex(c - 1, r) = Vertex(c, r) - 1
    OBVIOUS
  <2>1. Vertex(c + (-1), r) = Vertex(c, r) + (-1)
    BY <1>1
  <2> QED BY <1>2, <1>4, <2>1
<1>7. \A c, r \in Int : Vertex(c + 2, r) = Vertex(c, r) + 2
  BY <1>1
<1>8. \A c, r \in Int : Vertex(c, r + 1) = Vertex(c, r) + NodeEdge /\ Vertex(c, r - 1) = Vertex(c, r) - NodeEdge
  BY VertexSteps
<1>9. NodeEdge = NodeWidth + 1 /\ NodeEdge \in Int
  BY WidthIs DEF NodeEdge
<1> QED BY <1>3, <1>4, <1>5, <1>6, <1>7, <1>8, <1>9

\* The vertices that the loop over the row at the top counts.
LEMMA TopVertices ==
  ASSUME NEW n \in Int
  PROVE  /\ Vertex(n, 0) = n /\ Vertex(n + 2, 0) = n + 2 /\ Vertex(n, 1) = n + NodeEdge
         /\ Vertex(n + 1, 1) = n + NodeEdge + 1 /\ Vertex(n + 2, 1) = n + NodeEdge + 2
<1>1. NodeEdge \in Int /\ Vertex(n, 1) = NodeEdge + n /\ Vertex(n + 1, 1) = NodeEdge + (n + 1)
      /\ Vertex(n + 2, 1) = NodeEdge + (n + 2) /\ Vertex(n, 0) = n /\ Vertex(n + 2, 0) = n + 2
  <2>1. n + 1 \in Int /\ n + 2 \in Int
    OBVIOUS
  <2> QED BY <2>1, NextVertices
<1> QED BY <1>1

\* What the loops of onCreate write are triangles that fit.
LEMMA TopRowFits ==
  ASSUME NEW t \in TopRow
  PROVE  IsTriangle(t)
<1>1. PICK n \in Evens : t \in
        If(n > 0, <<n, n + NodeEdge, n + NodeEdge + 1>>)
        \cup {<<n + 2, n, n + NodeEdge + 1>>}
        \cup If(n < NodeWidth - 2, <<n + 2, n + NodeEdge + 1, n + NodeEdge + 2>>)
  BY DEF TopRow
<1>2. n \in Int /\ 0 <= n /\ n <= NodeWidth - 2 /\ n % 2 = 0 /\ (n + 2) % 2 = 0
      /\ n + 1 \in Int /\ n + 2 \in Int /\ n + 2 - 1 = n + 1 /\ n + 2 - 2 = n /\ NodeWidth \in Int
  BY WidthIs DEF Evens
<1>9. /\ Vertex(n, 0) = n /\ Vertex(n + 2, 0) = n + 2 /\ Vertex(n, 1) = n + NodeEdge
      /\ Vertex(n + 1, 1) = n + NodeEdge + 1 /\ Vertex(n + 2, 1) = n + NodeEdge + 2
  BY <1>2, TopVertices
<1>3. CASE t = <<n, n + NodeEdge, n + NodeEdge + 1>> /\ n > 0
  <2>1. Fits(n, 0, n, 1, n + 1, 1)
    BY <1>2, <1>3 DEF Fits, LowerHalf
  <2>2. t = Triangle(n, 0, n, 1, n + 1, 1)
    BY <1>2, <1>3, <1>9 DEF Triangle
  <2> QED BY <1>2, <2>1, <2>2 DEF IsTriangle
<1>4. CASE t = <<n + 2, n, n + NodeEdge + 1>>
  <2>1. Fits(n + 2, 0, n, 0, n + 1, 1)
    BY <1>2, <1>4 DEF Fits, AtTop
  <2>2. t = Triangle(n + 2, 0, n, 0, n + 1, 1)
    BY <1>2, <1>4, <1>9 DEF Triangle
  <2> QED BY <1>2, <2>1, <2>2 DEF IsTriangle
<1>5. CASE t = <<n + 2, n + NodeEdge + 1, n + NodeEdge + 2>> /\ n < NodeWidth - 2
  <2>1. Fits(n + 2, 0, n + 1, 1, n + 2, 1)
    BY <1>2, <1>5, WidthIs DEF Fits, LowerRight
  <2>2. t = Triangle(n + 2, 0, n + 1, 1, n + 2, 1)
    BY <1>2, <1>5, <1>9 DEF Triangle
  <2> QED BY <1>2, <2>1, <2>2 DEF IsTriangle
<1> QED BY <1>1, <1>3, <1>4, <1>5 DEF If

\* What a quad contributes, where it is in its row.
LEMMA QuadIs ==
  ASSUME NEW i \in 1 .. NodeWidth - 2, NEW j \in 0 .. NodeWidth - 1
  PROVE  LET q == Quad(i, j, i * NodeEdge + j + 1) IN
         /\ j = 0 /\ i % 2 = 1 => q = {Triangle(1, i, 0, i - 1, 0, i + 1), Triangle(1, i, 0, i + 1, 1, i + 1)}
         /\ j = 0 /\ i % 2 = 0 => q = {Triangle(1, i, 0, i, 1, i + 1)}
         /\ j = NodeWidth - 1 /\ i % 2 = 1 =>
              q = {Triangle(j + 1, i - 1, j, i, j + 1, i + 1), Triangle(j, i, j, i + 1, j + 1, i + 1)}
         /\ j = NodeWidth - 1 /\ i % 2 = 0 => q = {Triangle(j + 1, i, j, i, j, i + 1)}
         /\ j # 0 /\ j # NodeWidth - 1 =>
              q = {Triangle(j + 1, i, j, i, j + 1, i + 1), Triangle(j, i, j, i + 1, j + 1, i + 1)}
<1> DEFINE n == Vertex(j + 1, i)
<1>1. i * NodeEdge + j + 1 = n /\ n \in Int
  BY WidthIs DEF Vertex, NodeEdge
<1>2. /\ n - 1 = Vertex(j, i) /\ n + NodeEdge = Vertex(j + 1, i + 1) /\ n - NodeEdge = Vertex(j + 1, i - 1)
      /\ n + NodeEdge - 1 = Vertex(j, i + 1) /\ n - 1 + NodeEdge = Vertex(j, i + 1)
      /\ n - NodeEdge - 1 = Vertex(j, i - 1)
  <2>1. i \in Int /\ j \in Int /\ j + 1 \in Int /\ j + 1 - 1 = j /\ i + 1 \in Int /\ i - 1 \in Int
    BY WidthIs
  <2>2. Vertex(j, i) = n - 1 /\ Vertex(j + 1, i + 1) = n + NodeEdge /\ Vertex(j + 1, i - 1) = n - NodeEdge
    BY <2>1, NextVertices
  <2>3. Vertex(j, i + 1) = Vertex(j + 1, i + 1) - 1 /\ Vertex(j, i - 1) = Vertex(j + 1, i - 1) - 1
    BY <2>1, NextVertices
  <2> HIDE DEF n
  <2> QED BY <1>1, <2>2, <2>3, NextVertices
<1>3. NodeWidth - 1 # 0 /\ 1 = 0 + 1 /\ i % 2 \in {0, 1} /\ 0 # 1
  BY WidthIs
<1>4. Quad(i, j, i * NodeEdge + j + 1) = Quad(i, j, n)
  BY <1>1
<1> DEFINE q == Quad(i, j, i * NodeEdge + j + 1)
           F == j = 0
           L == j = NodeWidth - 1
           P == i % 2 = 1
           Q == i % 2 = 0
<1>5. q = CASE F /\ P -> {<<n, n - NodeEdge - 1, n + NodeEdge - 1>>, <<n, n + NodeEdge - 1, n + NodeEdge>>}
            [] F /\ Q -> {<<n, n - 1, n + NodeEdge>>}
            [] L /\ P -> {<<n - NodeEdge, n - 1, n + NodeEdge>>, <<n - 1, n + NodeEdge - 1, n + NodeEdge>>}
            [] L /\ Q -> {<<n, n - 1, n + NodeEdge - 1>>}
            [] OTHER -> {<<n, n - 1, n + NodeEdge>>, <<n - 1, n - 1 + NodeEdge, n + NodeEdge>>}
  BY <1>4 DEF Quad
<1>6. ~(F /\ L) /\ ~(P /\ Q)
  BY <1>3
<1> HIDE DEF n, q, L, P, Q
<1>7. F /\ P => q = {Triangle(1, i, 0, i - 1, 0, i + 1), Triangle(1, i, 0, i + 1, 1, i + 1)}
  BY <1>2, <1>3, <1>5, <1>6 DEF Triangle, n
<1>8. F /\ Q => q = {Triangle(1, i, 0, i, 1, i + 1)}
  BY <1>2, <1>3, <1>5, <1>6 DEF Triangle, n
<1>9. L /\ P => q = {Triangle(j + 1, i - 1, j, i, j + 1, i + 1), Triangle(j, i, j, i + 1, j + 1, i + 1)}
  BY <1>2, <1>5, <1>6 DEF Triangle, n
<1>10. L /\ Q => q = {Triangle(j + 1, i, j, i, j, i + 1)}
  BY <1>2, <1>5, <1>6 DEF Triangle, n
<1>11. ~F /\ ~L => q = {Triangle(j + 1, i, j, i, j + 1, i + 1), Triangle(j, i, j, i + 1, j + 1, i + 1)}
  BY <1>2, <1>5, <1>6 DEF Triangle, n
<1> QED BY <1>7, <1>8, <1>9, <1>10, <1>11 DEF q, L, P, Q

LEMMA QuadFits ==
  ASSUME NEW i \in 1 .. NodeWidth - 2, NEW j \in 0 .. NodeWidth - 1,
         NEW t \in Quad(i, j, i * NodeEdge + j + 1)
  PROVE  IsTriangle(t)
<1>4. /\ i \in Int /\ j \in Int /\ 1 <= i /\ i <= NodeWidth - 2 /\ 0 <= j /\ j <= NodeWidth - 1
      /\ i + 1 \in Int /\ i - 1 \in Int /\ j + 1 \in Int /\ NodeWidth \in Int
      /\ (i % 2 = 1 <=> (i + 1) % 2 = 0) /\ (i % 2 = 1 <=> (i - 1) % 2 = 0) /\ i % 2 \in {0, 1}
      /\ (i % 2 = 1 => i <= NodeWidth - 3) /\ (i % 2 = 0 => i >= 2)
  BY WidthIs
<1>5. CASE j = 0 /\ i % 2 = 1
  <2>1. t = Triangle(1, i, 0, i - 1, 0, i + 1) \/ t = Triangle(1, i, 0, i + 1, 1, i + 1)
    BY <1>5, QuadIs
  <2>2. Fits(1, i, 0, i - 1, 0, i + 1) /\ Fits(1, i, 0, i + 1, 1, i + 1)
    BY <1>4, <1>5 DEF Fits, AtLeft, LowerRight
  <2> QED BY <1>4, <2>1, <2>2 DEF IsTriangle
<1>6. CASE j = 0 /\ i % 2 = 0
  <2>1. t = Triangle(1, i, 0, i, 1, i + 1)
    BY <1>6, QuadIs
  <2>2. Fits(1, i, 0, i, 1, i + 1)
    BY <1>4, <1>6 DEF Fits, UpperHalf
  <2> QED BY <1>4, <2>1, <2>2 DEF IsTriangle
<1>7. CASE j = NodeWidth - 1 /\ i % 2 = 1
  <2>1. t = Triangle(j + 1, i - 1, j, i, j + 1, i + 1) \/ t = Triangle(j, i, j, i + 1, j + 1, i + 1)
    BY <1>7, QuadIs
  <2>2. Fits(j + 1, i - 1, j, i, j + 1, i + 1) /\ Fits(j, i, j, i + 1, j + 1, i + 1)
    BY <1>4, <1>7 DEF Fits, AtRight, LowerHalf
  <2> QED BY <1>4, <2>1, <2>2 DEF IsTriangle
<1>8. CASE j = NodeWidth - 1 /\ i % 2 = 0
  <2>1. t = Triangle(j + 1, i, j, i, j, i + 1)
    BY <1>8, QuadIs
  <2>2. Fits(j + 1, i, j, i, j, i + 1)
    BY <1>4, <1>8 DEF Fits, UpperLeft
  <2> QED BY <1>4, <2>1, <2>2 DEF IsTriangle
<1>9. CASE j # 0 /\ j # NodeWidth - 1
  <2>1. t = Triangle(j + 1, i, j, i, j + 1, i + 1) \/ t = Triangle(j, i, j, i + 1, j + 1, i + 1)
    BY <1>9, QuadIs
  <2>2. Fits(j + 1, i, j, i, j + 1, i + 1) /\ Fits(j, i, j, i + 1, j + 1, i + 1)
    BY <1>4, <1>9 DEF Fits, UpperHalf, LowerHalf
  <2> QED BY <1>4, <2>1, <2>2 DEF IsTriangle
<1> QED BY <1>4, <1>5, <1>6, <1>7, <1>8, <1>9

\* The vertices that the loop over the row at the bottom counts.
LEMMA BottomVertices ==
  ASSUME NEW i \in Int, NEW n, n = (NodeWidth - 1) * NodeEdge + i
  PROVE  /\ n = Vertex(i, NodeWidth - 1) /\ n + 1 = Vertex(i + 1, NodeWidth - 1) /\ n + 2 = Vertex(i + 2, NodeWidth - 1)
         /\ n - 1 = Vertex(i - 1, NodeWidth - 1)
         /\ n - NodeEdge = Vertex(i, NodeWidth - 2) /\ n + NodeEdge = Vertex(i, NodeWidth)
         /\ n + NodeEdge + 2 = Vertex(i + 2, NodeWidth)
<1> DEFINE m == NodeWidth - 1
           x == Vertex(i, m)
<1>1. x \in Int /\ m \in Int /\ m + 1 = NodeWidth /\ m - 1 = NodeWidth - 2 /\ NodeEdge \in Int /\ i \in Int
  BY WidthIs, VertexSteps DEF NodeEdge
<1>2. n = x
  BY DEF Vertex
<1> HIDE DEF m
<1>3. /\ Vertex(i + 1, m) = x + 1 /\ Vertex(i - 1, m) = x - 1 /\ Vertex(i + 2, m) = x + 2
      /\ Vertex(i, m + 1) = x + NodeEdge /\ Vertex(i, m - 1) = x - NodeEdge
      /\ Vertex(i + 2, m + 1) = Vertex(i, m + 1) + 2
  <2>1. Vertex(i + 1, m) = Vertex(i, m) + 1 /\ Vertex(i - 1, m) = Vertex(i, m) - 1
    BY <1>1, NextVertices
  <2>2. Vertex(i + 2, m) = Vertex(i, m) + 2
    BY <1>1, NextVertices
  <2>3. Vertex(i, m + 1) = Vertex(i, m) + NodeEdge /\ Vertex(i, m - 1) = Vertex(i, m) - NodeEdge
    BY <1>1, NextVertices
  <2>4. Vertex(i + 2, m + 1) = Vertex(i, m + 1) + 2
    <3>1. m + 1 \in Int
      BY <1>1
    <3> QED BY <1>1, <3>1, NextVertices
  <2> QED BY <2>1, <2>2, <2>3, <2>4
<1> HIDE DEF x
<1>4. x + 1 = Vertex(i + 1, m) /\ x - 1 = Vertex(i - 1, m) /\ x + 2 = Vertex(i + 2, m)
      /\ x + NodeEdge = Vertex(i, m + 1) /\ x - NodeEdge = Vertex(i, m - 1) /\ x + NodeEdge + 2 = Vertex(i + 2, m + 1)
  BY <1>3
<1> QED BY <1>1, <1>2, <1>4 DEF m, x

LEMMA BottomRowFits ==
  ASSUME NEW t \in BottomRow
  PROVE  IsTriangle(t)
<1> DEFINE first == (NodeWidth - 1) * NodeEdge
           last == first + NodeWidth
           m == NodeWidth - 1
<1>1. /\ NodeWidth \in Int /\ m \in Int /\ m % 2 = 1 /\ m = NodeWidth - 1 /\ m + 1 = NodeWidth /\ NodeWidth >= 4
      /\ NodeWidth % 2 = 0 /\ (NodeWidth - 2) % 2 = 0
  BY WidthIs
<1>2. CASE t = <<first + 1, first - NodeEdge, first + NodeEdge>>
  <2>2. first + 1 = Vertex(1, m) /\ first - NodeEdge = Vertex(0, NodeWidth - 2) /\ first + NodeEdge = Vertex(0, NodeWidth)
    <3>1. 0 \in Int /\ first = first + 0 /\ first \in Int
      BY WidthIs DEF NodeEdge
    <3>2. first + 1 = Vertex(0 + 1, m) /\ first - NodeEdge = Vertex(0, NodeWidth - 2) /\ first + NodeEdge = Vertex(0, NodeWidth)
      BY <3>1, BottomVertices
    <3>3. 0 + 1 = 1
      OBVIOUS
    <3> HIDE DEF first, m
    <3> QED BY <3>2, <3>3
  <2>3. t = Triangle(1, m, 0, NodeWidth - 2, 0, NodeWidth)
    BY <1>2, <2>2 DEF Triangle
  <2>4. Fits(1, m, 0, NodeWidth - 2, 0, NodeWidth)
    <3> HIDE DEF m
    <3> QED BY <1>1 DEF Fits, AtLeft
  <2> QED BY <1>1, <2>3, <2>4 DEF IsTriangle
<1>3. CASE t = <<last - NodeEdge, last - 1, last + NodeEdge>>
  <2>1. /\ last - 1 = Vertex(NodeWidth - 1, m) /\ last - NodeEdge = Vertex(NodeWidth, NodeWidth - 2)
        /\ last + NodeEdge = Vertex(NodeWidth, NodeWidth)
    BY <1>1, BottomVertices
  <2>2. t = Triangle(NodeWidth, NodeWidth - 2, NodeWidth - 1, m, NodeWidth, NodeWidth)
    BY <1>3, <2>1 DEF Triangle
  <2>3. Fits(NodeWidth, NodeWidth - 2, NodeWidth - 1, m, NodeWidth, NodeWidth)
    BY <1>1 DEF Fits, AtRight
  <2> QED BY <1>1, <2>2, <2>3 DEF IsTriangle
<1>4. ASSUME NEW i \in Evens,
             t \in LET n == first + i IN
             If(i > 0, <<n + 1, n, n + NodeEdge>>)
             \cup {<<n + 1, n + NodeEdge, n + NodeEdge + 2>>}
             \cup If(i < NodeWidth - 2, <<n + 2, n + 1, n + NodeEdge + 2>>)
      PROVE  IsTriangle(t)
  <2> DEFINE n == first + i
  <2>1. /\ i \in Int /\ i + 1 \in Int /\ i + 2 \in Int /\ 0 <= i /\ i <= NodeWidth - 2 /\ i % 2 = 0
        /\ (i + 1) % 2 = 1 /\ (i + 2) % 2 = 0
    BY <1>1 DEF Evens
  <2>2. /\ n = Vertex(i, m) /\ n + 1 = Vertex(i + 1, m) /\ n + 2 = Vertex(i + 2, m) /\ n + NodeEdge = Vertex(i, NodeWidth)
        /\ n + NodeEdge + 2 = Vertex(i + 2, NodeWidth)
    BY <2>1, BottomVertices
  <2>3. \/ t = <<n + 1, n, n + NodeEdge>> /\ i > 0
        \/ t = <<n + 1, n + NodeEdge, n + NodeEdge + 2>>
        \/ t = <<n + 2, n + 1, n + NodeEdge + 2>> /\ i < NodeWidth - 2
    BY <1>4 DEF If
  <2> HIDE DEF n, m
  <2>4. CASE t = <<n + 1, n, n + NodeEdge>> /\ i > 0
    <3>1. t = Triangle(i + 1, m, i, m, i, NodeWidth)
      BY <2>2, <2>4 DEF Triangle
    <3>2. Fits(i + 1, m, i, m, i, NodeWidth)
      BY <1>1, <2>1, <2>4 DEF Fits, UpperLeft
    <3> QED BY <1>1, <2>1, <3>1, <3>2 DEF IsTriangle
  <2>5. CASE t = <<n + 1, n + NodeEdge, n + NodeEdge + 2>>
    <3>1. t = Triangle(i + 1, m, i, NodeWidth, i + 2, NodeWidth)
      BY <2>2, <2>5 DEF Triangle
    <3>2. Fits(i + 1, m, i, NodeWidth, i + 2, NodeWidth)
      BY <1>1, <2>1, <2>5 DEF Fits, AtBottom
    <3> QED BY <1>1, <2>1, <3>1, <3>2 DEF IsTriangle
  <2>6. CASE t = <<n + 2, n + 1, n + NodeEdge + 2>> /\ i < NodeWidth - 2
    <3>1. t = Triangle(i + 2, m, i + 1, m, i + 2, NodeWidth)
      BY <2>2, <2>6 DEF Triangle
    <3>2. Fits(i + 2, m, i + 1, m, i + 2, NodeWidth)
      BY <1>1, <2>1, <2>6 DEF Fits, UpperHalf
    <3> QED BY <1>1, <2>1, <3>1, <3>2 DEF IsTriangle
  <2> QED BY <2>3, <2>4, <2>5, <2>6
<1>5. \/ t = <<first + 1, first - NodeEdge, first + NodeEdge>>
      \/ t = <<last - NodeEdge, last - 1, last + NodeEdge>>
      \/ \E i \in Evens : t \in LET n == first + i IN
             If(i > 0, <<n + 1, n, n + NodeEdge>>)
             \cup {<<n + 1, n + NodeEdge, n + NodeEdge + 2>>}
             \cup If(i < NodeWidth - 2, <<n + 2, n + 1, n + NodeEdge + 2>>)
  BY DEF BottomRow
<1> QED BY <1>2, <1>3, <1>4, <1>5

\* What fits is written by some loop.
LEMMA TopRowHas ==
  ASSUME NEW n \in Int, 0 <= n, n <= NodeWidth - 2, n % 2 = 0
  PROVE  /\ n > 0 => Triangle(n, 0, n, 1, n + 1, 1) \in TopRow
         /\ Triangle(n + 2, 0, n, 0, n + 1, 1) \in TopRow
         /\ n < NodeWidth - 2 => Triangle(n + 2, 0, n + 1, 1, n + 2, 1) \in TopRow
<1>1. n \in Evens
  BY WidthIs DEF Evens
<1>2. If(n > 0, <<n, n + NodeEdge, n + NodeEdge + 1>>)
        \cup {<<n + 2, n, n + NodeEdge + 1>>}
        \cup If(n < NodeWidth - 2, <<n + 2, n + NodeEdge + 1, n + NodeEdge + 2>>) \subseteq TopRow
  BY <1>1 DEF TopRow
<1>3. /\ Triangle(n, 0, n, 1, n + 1, 1) = <<n, n + NodeEdge, n + NodeEdge + 1>>
      /\ Triangle(n + 2, 0, n, 0, n + 1, 1) = <<n + 2, n, n + NodeEdge + 1>>
      /\ Triangle(n + 2, 0, n + 1, 1, n + 2, 1) = <<n + 2, n + NodeEdge + 1, n + NodeEdge + 2>>
  BY TopVertices DEF Triangle
<1> DEFINE x == <<n, n + NodeEdge, n + NodeEdge + 1>>
           y == <<n + 2, n, n + NodeEdge + 1>>
           z == <<n + 2, n + NodeEdge + 1, n + NodeEdge + 2>>
<1>4. If(n > 0, x) \cup {y} \cup If(n < NodeWidth - 2, z) \subseteq TopRow
  BY <1>2
<1> HIDE DEF x, y, z
<1>5. (n > 0 => x \in TopRow) /\ y \in TopRow /\ (n < NodeWidth - 2 => z \in TopRow)
  BY <1>4 DEF If
<1> QED BY <1>3, <1>5 DEF x, y, z

LEMMA BottomRowHas ==
  ASSUME NEW i \in Int, 0 <= i, i <= NodeWidth - 2, i % 2 = 0
  PROVE  LET m == NodeWidth - 1 IN
         /\ i > 0 => Triangle(i + 1, m, i, m, i, NodeWidth) \in BottomRow
         /\ Triangle(i + 1, m, i, NodeWidth, i + 2, NodeWidth) \in BottomRow
         /\ i < NodeWidth - 2 => Triangle(i + 2, m, i + 1, m, i + 2, NodeWidth) \in BottomRow
<1> DEFINE m == NodeWidth - 1
           n == (NodeWidth - 1) * NodeEdge + i
           x == <<n + 1, n, n + NodeEdge>>
           y == <<n + 1, n + NodeEdge, n + NodeEdge + 2>>
           z == <<n + 2, n + 1, n + NodeEdge + 2>>
<1>1. i \in Evens
  BY WidthIs DEF Evens
<1>2. If(i > 0, x) \cup {y} \cup If(i < NodeWidth - 2, z) \subseteq BottomRow
  BY <1>1 DEF BottomRow
<1>3. n = Vertex(i, m) /\ n + 1 = Vertex(i + 1, m) /\ n + 2 = Vertex(i + 2, m) /\ n + NodeEdge = Vertex(i, NodeWidth)
      /\ n + NodeEdge + 2 = Vertex(i + 2, NodeWidth)
  BY BottomVertices
<1>4. /\ Triangle(i + 1, m, i, m, i, NodeWidth) = x
      /\ Triangle(i + 1, m, i, NodeWidth, i + 2, NodeWidth) = y
      /\ Triangle(i + 2, m, i + 1, m, i + 2, NodeWidth) = z
  <2> HIDE DEF m, n
  <2> QED BY <1>3 DEF Triangle, x, y, z
<1> HIDE DEF x, y, z
<1>5. (i > 0 => x \in BottomRow) /\ y \in BottomRow /\ (i < NodeWidth - 2 => z \in BottomRow)
  BY <1>2 DEF If
<1> QED BY <1>4, <1>5

LEMMA BottomCornersHave ==
  /\ Triangle(1, NodeWidth - 1, 0, NodeWidth - 2, 0, NodeWidth) \in BottomRow
  /\ Triangle(NodeWidth, NodeWidth - 2, NodeWidth - 1, NodeWidth - 1, NodeWidth, NodeWidth) \in BottomRow
<1> DEFINE first == (NodeWidth - 1) * NodeEdge
           last == first + NodeWidth
<1>1. /\ <<first + 1, first - NodeEdge, first + NodeEdge>> \in BottomRow
      /\ <<last - NodeEdge, last - 1, last + NodeEdge>> \in BottomRow
  BY DEF BottomRow
<1>2. 0 \in Int /\ first = first + 0 /\ first \in Int /\ NodeWidth \in Int
  BY WidthIs DEF NodeEdge
<1>3. first + 1 = Vertex(0 + 1, NodeWidth - 1) /\ first - NodeEdge = Vertex(0, NodeWidth - 2) /\ first + NodeEdge = Vertex(0, NodeWidth)
  BY <1>2, BottomVertices
<1>4. /\ last - 1 = Vertex(NodeWidth - 1, NodeWidth - 1) /\ last - NodeEdge = Vertex(NodeWidth, NodeWidth - 2)
      /\ last + NodeEdge = Vertex(NodeWidth, NodeWidth)
  BY <1>2, BottomVertices
<1>5. 0 + 1 = 1
  OBVIOUS
<1> HIDE DEF first, last
<1> QED BY <1>1, <1>3, <1>4, <1>5 DEF Triangle

LEMMA QuadHas ==
  ASSUME NEW i \in 1 .. NodeWidth - 2, NEW j \in 0 .. NodeWidth - 1,
         NEW t \in Quad(i, j, i * NodeEdge + j + 1)
  PROVE  t \in MiddleRows
BY DEF MiddleRows

\* The index buffer is exactly these triangles.
LEMMA FitsIsTriangle ==
  ASSUME NEW a \in Int, NEW b \in Int, NEW c \in Int, NEW d \in Int, NEW e \in Int, NEW f \in Int,
         Fits(a, b, c, d, e, f)
  PROVE  Triangle(a, b, c, d, e, f) \in Triangles
<1> DEFINE width == NodeWidth
           t == Triangle(a, b, c, d, e, f)
<1>1. width \in Int /\ width >= 4 /\ width % 2 = 0
  BY WidthIs
<1>2. CASE UpperHalf(a, b) /\ c = a - 1 /\ d = b /\ e = a /\ f = b + 1
  <2>1. CASE 2 <= a /\ a <= width - 1 /\ 1 <= b /\ b <= width - 2
    <3>1. b \in 1 .. width - 2 /\ a - 1 \in 0 .. width - 1 /\ a - 1 # 0 /\ a - 1 # width - 1 /\ a - 1 + 1 = a
      BY <1>1, <2>1
    <3> QED BY <1>2, <3>1, QuadIs, QuadHas DEF Triangles
  <2>2. CASE a = 1 /\ b % 2 = 0 /\ 2 <= b /\ b <= width - 2
    <3>1. b \in 1 .. width - 2 /\ 0 \in 0 .. width - 1 /\ c = 0
      BY <1>1, <1>2, <2>2
    <3> QED BY <1>2, <2>2, <3>1, QuadIs, QuadHas DEF Triangles
  <2>3. CASE b = width - 1 /\ a % 2 = 0 /\ 2 <= a /\ a <= width - 2
    <3>1. a - 2 \in Int /\ 0 <= a - 2 /\ a - 2 <= width - 2 /\ (a - 2) % 2 = 0 /\ a - 2 < width - 2
          /\ a - 2 + 2 = a /\ a - 2 + 1 = a - 1 /\ b + 1 = width
      BY <1>1, <2>3
    <3>2. Triangle(a - 2 + 2, width - 1, a - 2 + 1, width - 1, a - 2 + 2, width) \in BottomRow
      BY <3>1, BottomRowHas
    <3> QED BY <1>2, <2>3, <3>1, <3>2 DEF Triangles
  <2> QED BY <1>2, <2>1, <2>2, <2>3 DEF UpperHalf
<1>3. CASE LowerHalf(a, b) /\ c = a /\ d = b + 1 /\ e = a + 1 /\ f = b + 1
  <2>1. CASE 1 <= a /\ a <= width - 2 /\ 1 <= b /\ b <= width - 2
    <3>1. b \in 1 .. width - 2 /\ a \in 0 .. width - 1 /\ a # 0 /\ a # width - 1
      BY <1>1, <2>1
    <3> QED BY <1>3, <3>1, QuadIs, QuadHas DEF Triangles
  <2>2. CASE a = width - 1 /\ b % 2 = 1 /\ 1 <= b /\ b <= width - 3
    <3>1. b \in 1 .. width - 2 /\ a \in 0 .. width - 1
      BY <1>1, <2>2
    <3> QED BY <1>3, <2>2, <3>1, QuadIs, QuadHas DEF Triangles
  <2>3. CASE b = 0 /\ a % 2 = 0 /\ 2 <= a /\ a <= width - 2
    <3>1. a > 0 /\ 0 <= a /\ f = 1 /\ d = 1
      BY <1>1, <1>3, <2>3
    <3> QED BY <1>3, <2>3, <3>1, TopRowHas DEF Triangles
  <2> QED BY <1>3, <2>1, <2>2, <2>3 DEF LowerHalf
<1>4. CASE LowerRight(a, b) /\ c = a - 1 /\ d = b + 1 /\ e = a /\ f = b + 1
  <2>1. CASE b = 0 /\ a % 2 = 0 /\ 2 <= a /\ a <= width - 2
    <3>1. a - 2 \in Int /\ 0 <= a - 2 /\ a - 2 <= width - 2 /\ (a - 2) % 2 = 0 /\ a - 2 < width - 2
          /\ a - 2 + 2 = a /\ a - 2 + 1 = a - 1 /\ d = 1 /\ f = 1
      BY <1>1, <1>4, <2>1
    <3>2. Triangle(a - 2 + 2, 0, a - 2 + 1, 1, a - 2 + 2, 1) \in TopRow
      BY <3>1, TopRowHas
    <3> QED BY <1>4, <2>1, <3>1, <3>2 DEF Triangles
  <2>2. CASE a = 1 /\ b % 2 = 1 /\ 1 <= b /\ b <= width - 3
    <3>1. b \in 1 .. width - 2 /\ 0 \in 0 .. width - 1 /\ c = 0
      BY <1>1, <1>4, <2>2
    <3> QED BY <1>4, <2>2, <3>1, QuadIs, QuadHas DEF Triangles
  <2> QED BY <1>4, <2>1, <2>2 DEF LowerRight
<1>5. CASE UpperLeft(a, b) /\ c = a - 1 /\ d = b /\ e = a - 1 /\ f = b + 1
  <2>1. CASE a = width /\ b % 2 = 0 /\ 2 <= b /\ b <= width - 2
    <3>1. b \in 1 .. width - 2 /\ a - 1 \in 0 .. width - 1 /\ a - 1 = width - 1 /\ a - 1 + 1 = a
      BY <1>1, <2>1
    <3> QED BY <1>5, <2>1, <3>1, QuadIs, QuadHas DEF Triangles
  <2>2. CASE b = width - 1 /\ a % 2 = 1 /\ 3 <= a /\ a <= width - 1
    <3>1. a - 1 \in Int /\ 0 <= a - 1 /\ a - 1 <= width - 2 /\ (a - 1) % 2 = 0 /\ a - 1 > 0
          /\ a - 1 + 1 = a /\ b + 1 = width
      BY <1>1, <2>2
    <3>2. Triangle(a - 1 + 1, width - 1, a - 1, width - 1, a - 1, width) \in BottomRow
      BY <3>1, BottomRowHas
    <3> QED BY <1>5, <2>2, <3>1, <3>2 DEF Triangles
  <2> QED BY <1>5, <2>1, <2>2 DEF UpperLeft
<1>6. CASE AtTop(a, b) /\ c = a - 2 /\ d = 0 /\ e = a - 1 /\ f = 1
  <2>1. a - 2 \in Int /\ 0 <= a - 2 /\ a - 2 <= width - 2 /\ (a - 2) % 2 = 0
        /\ a - 2 + 2 = a /\ a - 2 + 1 = a - 1 /\ b = 0
    BY <1>1, <1>6 DEF AtTop
  <2>2. Triangle(a - 2 + 2, 0, a - 2, 0, a - 2 + 1, 1) \in TopRow
    BY <2>1, TopRowHas
  <2> QED BY <1>6, <2>1, <2>2 DEF Triangles
<1>7. CASE AtLeft(a, b) /\ c = 0 /\ d = b - 1 /\ e = 0 /\ f = b + 1
  <2>1. CASE b = width - 1
    <3>1. b - 1 = width - 2 /\ b + 1 = width /\ a = 1
      BY <1>1, <1>7, <2>1 DEF AtLeft
    <3> QED BY <1>7, <2>1, <3>1, BottomCornersHave DEF Triangles
  <2>2. CASE b # width - 1
    <3>1. b \in 1 .. width - 2 /\ 0 \in 0 .. width - 1 /\ a = 1 /\ b % 2 = 1
      BY <1>1, <1>7, <2>2 DEF AtLeft
    <3> QED BY <1>7, <3>1, QuadIs, QuadHas DEF Triangles
  <2> QED BY <2>1, <2>2
<1>8. CASE AtRight(a, b) /\ c = a - 1 /\ d = b + 1 /\ e = a /\ f = b + 2
  <2>1. CASE b = width - 2
    <3>1. b + 1 = width - 1 /\ b + 2 = width /\ a = width
      BY <1>1, <1>8, <2>1 DEF AtRight
    <3> QED BY <1>8, <2>1, <3>1, BottomCornersHave DEF Triangles
  <2>2. CASE b # width - 2
    <3>1. b + 1 \in 1 .. width - 2 /\ width - 1 \in 0 .. width - 1 /\ a = width /\ (b + 1) % 2 = 1
          /\ width - 1 + 1 = width /\ b + 1 - 1 = b /\ b + 1 + 1 = b + 2
      BY <1>1, <1>8, <2>2 DEF AtRight
    <3>2. Triangle(width - 1 + 1, b + 1 - 1, width - 1, b + 1, width - 1 + 1, b + 1 + 1) \in MiddleRows
      BY <3>1, QuadIs, QuadHas
    <3> QED BY <1>8, <3>1, <3>2 DEF Triangles
  <2> QED BY <2>1, <2>2
<1>9. CASE AtBottom(a, b) /\ c = a - 1 /\ d = NodeWidth /\ e = a + 1 /\ f = NodeWidth
  <2>1. a - 1 \in Int /\ 0 <= a - 1 /\ a - 1 <= width - 2 /\ (a - 1) % 2 = 0
        /\ a - 1 + 1 = a /\ a - 1 + 2 = a + 1 /\ b = width - 1
    BY <1>1, <1>9 DEF AtBottom
  <2>2. Triangle(a - 1 + 1, width - 1, a - 1, width, a - 1 + 2, width) \in BottomRow
    BY <2>1, BottomRowHas
  <2> QED BY <1>9, <2>1, <2>2 DEF Triangles
<1> QED BY <1>2, <1>3, <1>4, <1>5, <1>6, <1>7, <1>8, <1>9 DEF Fits

LEMMA TrianglesAre == \A t : t \in Triangles <=> IsTriangle(t)
<1>1. ASSUME NEW t \in Triangles PROVE IsTriangle(t)
  <2>1. CASE t \in MiddleRows
    <3>1. PICK i \in 1 .. NodeWidth - 2, j \in 0 .. NodeWidth - 1 : t \in Quad(i, j, i * NodeEdge + j + 1)
      BY <2>1 DEF MiddleRows
    <3> QED BY <3>1, QuadFits
  <2> QED BY <2>1, TopRowFits, BottomRowFits DEF Triangles
<1>2. ASSUME NEW t, IsTriangle(t) PROVE t \in Triangles
  BY <1>2, FitsIsTriangle DEF IsTriangle
<1> QED BY <1>1, <1>2

\* The same, from the vertex numbers of a triangle.
TriangleFits(t) ==
  /\ t = <<t[1], t[2], t[3]>>
  /\ \A k \in 1 .. 3 : /\ Column(t[k]) \in 0 .. NodeWidth /\ Row(t[k]) \in 0 .. NodeWidth
                        /\ t[k] = Vertex(Column(t[k]), Row(t[k])) /\ t[k] \in 0 .. NodeEdge * NodeEdge
  /\ Fits(Column(t[1]), Row(t[1]), Column(t[2]), Row(t[2]), Column(t[3]), Row(t[3]))

LEMMA PlacesFit ==
  ASSUME NEW a \in Int, NEW b \in Int, NEW c \in Int, NEW d \in Int, NEW e \in Int, NEW f \in Int,
         Fits(a, b, c, d, e, f)
  PROVE  TriangleFits(Triangle(a, b, c, d, e, f))
<1>1. /\ a \in 0 .. NodeWidth /\ b \in 0 .. NodeWidth /\ c \in 0 .. NodeWidth
      /\ d \in 0 .. NodeWidth /\ e \in 0 .. NodeWidth /\ f \in 0 .. NodeWidth
  BY PlacesInRange
<1>2. /\ Column(Vertex(a, b)) = a /\ Row(Vertex(a, b)) = b /\ Vertex(a, b) \in 0 .. NodeEdge * NodeEdge
      /\ Column(Vertex(c, d)) = c /\ Row(Vertex(c, d)) = d /\ Vertex(c, d) \in 0 .. NodeEdge * NodeEdge
      /\ Column(Vertex(e, f)) = e /\ Row(Vertex(e, f)) = f /\ Vertex(e, f) \in 0 .. NodeEdge * NodeEdge
  BY <1>1, VertexPlace
<1>3. \A k \in 1 .. 3 : k = 1 \/ k = 2 \/ k = 3
  OBVIOUS
<1> DEFINE t == Triangle(a, b, c, d, e, f)
<1>4. t = <<t[1], t[2], t[3]>> /\ t[1] = Vertex(a, b) /\ t[2] = Vertex(c, d) /\ t[3] = Vertex(e, f)
  BY DEF Triangle
<1> HIDE DEF t
<1>5. \A k \in 1 .. 3 : /\ Column(t[k]) \in 0 .. NodeWidth /\ Row(t[k]) \in 0 .. NodeWidth
                        /\ t[k] = Vertex(Column(t[k]), Row(t[k])) /\ t[k] \in 0 .. NodeEdge * NodeEdge
  BY <1>1, <1>2, <1>3, <1>4
<1>6. Fits(Column(t[1]), Row(t[1]), Column(t[2]), Row(t[2]), Column(t[3]), Row(t[3]))
  BY <1>2, <1>4
<1>7. TriangleFits(t)
  BY <1>4, <1>5, <1>6 DEF TriangleFits
<1> QED BY <1>7 DEF t

LEMMA EveryTriangleFits == \A t \in Triangles : TriangleFits(t)
<1> SUFFICES ASSUME NEW t \in Triangles PROVE TriangleFits(t)
  OBVIOUS
<1>1. PICK a, b, c, d, e, f \in Int : Fits(a, b, c, d, e, f) /\ t = Triangle(a, b, c, d, e, f)
  BY TrianglesAre DEF IsTriangle
<1>2. TriangleFits(Triangle(a, b, c, d, e, f))
  BY <1>1, PlacesFit
<1> QED BY <1>1, <1>2

\* A directed side belongs to one triangle, and to one place in it.
LEMMA SidesDiffer ==
  ASSUME NEW t \in Triangles, NEW u \in Triangles
  PROVE  /\ t[1] = u[1] /\ t[2] = u[2] => t = u
         /\ t[2] = u[2] /\ t[3] = u[3] => t = u
         /\ t[3] = u[3] /\ t[1] = u[1] => t = u
         /\ ~(t[1] = u[2] /\ t[2] = u[3])
         /\ ~(t[1] = u[3] /\ t[2] = u[1])
         /\ ~(t[2] = u[3] /\ t[3] = u[1])
<1>1. TriangleFits(t) /\ TriangleFits(u)
  BY EveryTriangleFits
<1>2. /\ t = <<t[1], t[2], t[3]>> /\ u = <<u[1], u[2], u[3]>>
      /\ Fits(Column(t[1]), Row(t[1]), Column(t[2]), Row(t[2]), Column(t[3]), Row(t[3]))
      /\ Fits(Column(u[1]), Row(u[1]), Column(u[2]), Row(u[2]), Column(u[3]), Row(u[3]))
  BY <1>1 DEF TriangleFits
<1>3. \A k \in 1 .. 3 : /\ Column(t[k]) \in Int /\ Row(t[k]) \in Int /\ t[k] = Vertex(Column(t[k]), Row(t[k]))
                        /\ Column(u[k]) \in Int /\ Row(u[k]) \in Int /\ u[k] = Vertex(Column(u[k]), Row(u[k]))
  BY <1>1 DEF TriangleFits
<1>4. /\ Column(t[1]) \in Int /\ Row(t[1]) \in Int /\ Column(t[2]) \in Int /\ Row(t[2]) \in Int
      /\ Column(t[3]) \in Int /\ Row(t[3]) \in Int
      /\ Column(u[1]) \in Int /\ Row(u[1]) \in Int /\ Column(u[2]) \in Int /\ Row(u[2]) \in Int
      /\ Column(u[3]) \in Int /\ Row(u[3]) \in Int
  BY <1>3
<1>5. ASSUME t[1] = u[1], t[2] = u[2] PROVE t = u
  <2>1. Column(t[3]) = Column(u[3]) /\ Row(t[3]) = Row(u[3])
    <3>1. Fits(Column(t[1]), Row(t[1]), Column(t[2]), Row(t[2]), Column(u[3]), Row(u[3]))
      BY <1>2, <1>5
    <3> QED BY <1>2, <1>4, <3>1, SameFirst
  <2> QED BY <1>2, <1>3, <1>5, <2>1
<1>6. ASSUME t[2] = u[2], t[3] = u[3] PROVE t = u
  <2>1. Column(t[1]) = Column(u[1]) /\ Row(t[1]) = Row(u[1])
    <3>1. Fits(Column(u[1]), Row(u[1]), Column(t[2]), Row(t[2]), Column(t[3]), Row(t[3]))
      BY <1>2, <1>6
    <3> QED BY <1>2, <1>4, <3>1, SameSecond
  <2> QED BY <1>2, <1>3, <1>6, <2>1
<1>7. ASSUME t[3] = u[3], t[1] = u[1] PROVE t = u
  <2>1. Column(t[2]) = Column(u[2]) /\ Row(t[2]) = Row(u[2])
    <3>1. Fits(Column(t[1]), Row(t[1]), Column(u[2]), Row(u[2]), Column(t[3]), Row(t[3]))
      BY <1>2, <1>7
    <3> QED BY <1>2, <1>4, <3>1, SameThird
  <2> QED BY <1>2, <1>3, <1>7, <2>1
<1>8. ~(t[1] = u[2] /\ t[2] = u[3])
  BY <1>2, <1>4, FirstNotSecond
<1>9. ~(t[1] = u[3] /\ t[2] = u[1])
  BY <1>2, <1>4, FirstNotThird
<1>10. ~(t[2] = u[3] /\ t[3] = u[1])
  BY <1>2, <1>4, SecondNotThird
<1> QED BY <1>5, <1>6, <1>7, <1>8, <1>9, <1>10

\* There are finitely many triangles.
LEMMA TrianglesFinite ==
  /\ IsFiniteSet(Triangles)
  /\ \A t \in Triangles : t = <<t[1], t[2], t[3]>>
<1> DEFINE N == 0 .. NodeEdge * NodeEdge
           S == (N \X N) \X N
           f == [p \in S |-> <<p[1][1], p[1][2], p[2]>>]
           R == {f[p] : p \in S}
<1>1. ASSUME NEW t \in Triangles
      PROVE  t = <<t[1], t[2], t[3]>> /\ t[1] \in N /\ t[2] \in N /\ t[3] \in N
  BY EveryTriangleFits DEF TriangleFits
<1>2. IsFiniteSet(S)
  <2>1. NodeEdge * NodeEdge \in Int
    BY WidthIs DEF NodeEdge
  <2>2. IsFiniteSet(N)
    BY <2>1, FS_Interval
  <2> HIDE DEF N
  <2> QED BY <2>2, FS_Product
<1> HIDE DEF N
<1>3. f \in Surjection(S, R)
  BY DEF Surjection
<1>4. IsFiniteSet(R)
  <2> HIDE DEF S, f, R
  <2> QED BY <1>2, <1>3, FS_Surjection
<1>5. Triangles \subseteq R
  <2> SUFFICES ASSUME NEW t \in Triangles PROVE t \in R
    OBVIOUS
  <2>1. <<<<t[1], t[2]>>, t[3]>> \in S /\ t = <<t[1], t[2], t[3]>>
    BY <1>1
  <2>2. f[<<<<t[1], t[2]>>, t[3]>>] = <<t[1], t[2], t[3]>>
    BY <2>1
  <2> QED BY <2>1, <2>2
<1> HIDE DEF R
<1> QED BY <1>1, <1>4, <1>5, FS_Subset

\* The places between which a triangle has a side, and in which direction.
HasSide(x, y, u, w) ==
  \/ u = x - 1 /\ w = y /\ (UpperHalf(x, y) \/ UpperLeft(x, y))
  \/ u = x + 1 /\ w = y /\ (LowerHalf(x, y - 1) \/ LowerRight(x + 1, y - 1))
  \/ u = x /\ w = y - 1 /\ (UpperHalf(x, y - 1) \/ LowerRight(x, y - 1))
  \/ u = x /\ w = y + 1 /\ (LowerHalf(x, y) \/ UpperLeft(x + 1, y))
  \/ u = x + 1 /\ w = y + 1 /\ (UpperHalf(x + 1, y) \/ AtTop(x + 2, y) \/ AtRight(x + 1, y - 1))
  \/ u = x - 1 /\ w = y - 1 /\ (LowerHalf(x - 1, y - 1) \/ AtLeft(x, y) \/ AtBottom(x - 1, y - 1))
  \/ u = x - 1 /\ w = y + 1 /\ (LowerRight(x, y) \/ AtRight(x, y) \/ AtBottom(x, y))
  \/ u = x + 1 /\ w = y - 1 /\ (UpperLeft(x + 1, y - 1) \/ AtTop(x + 1, y - 1) \/ AtLeft(x + 1, y - 1))
  \/ u = x - 2 /\ w = y /\ AtTop(x, y)
  \/ u = x /\ w = y + 2 /\ AtLeft(x + 1, y + 1)
  \/ u = x /\ w = y - 2 /\ AtRight(x, y - 2)
  \/ u = x + 2 /\ w = y /\ AtBottom(x + 1, y - 1)

\* A side on the rim, between places with even coordinates.
RimEven(a, b, c, d) ==
  /\ (a = c /\ a \in {0, NodeWidth}) \/ (b = d /\ b \in {0, NodeWidth})
  /\ a % 2 = 0 /\ b % 2 = 0 /\ c % 2 = 0 /\ d % 2 = 0

\* A side is on the rim or is used in the other direction by another triangle.
LEMMA SidesMeet ==
  ASSUME NEW a \in Int, NEW b \in Int, NEW c \in Int, NEW d \in Int, NEW e \in Int, NEW f \in Int,
         Fits(a, b, c, d, e, f)
  PROVE  /\ HasSide(c, d, a, b) \/ RimEven(a, b, c, d)
         /\ HasSide(e, f, c, d) \/ RimEven(c, d, e, f)
         /\ HasSide(a, b, e, f) \/ RimEven(e, f, a, b)
<1> USE WidthIs DEF HasSide, RimEven, UpperHalf, LowerHalf, LowerRight, UpperLeft, AtTop, AtLeft, AtRight, AtBottom
<1>1. CASE UpperHalf(a, b) /\ c = a - 1 /\ d = b /\ e = a /\ f = b + 1
  BY <1>1
<1>2. CASE LowerHalf(a, b) /\ c = a /\ d = b + 1 /\ e = a + 1 /\ f = b + 1
  BY <1>2
<1>3. CASE LowerRight(a, b) /\ c = a - 1 /\ d = b + 1 /\ e = a /\ f = b + 1
  BY <1>3
<1>4. CASE UpperLeft(a, b) /\ c = a - 1 /\ d = b /\ e = a - 1 /\ f = b + 1
  BY <1>4
<1>5. CASE AtTop(a, b) /\ c = a - 2 /\ d = 0 /\ e = a - 1 /\ f = 1
  BY <1>5
<1>6. CASE AtLeft(a, b) /\ c = 0 /\ d = b - 1 /\ e = 0 /\ f = b + 1
  BY <1>6
<1>7. CASE AtRight(a, b) /\ c = a - 1 /\ d = b + 1 /\ e = a /\ f = b + 2
  BY <1>7
<1>8. CASE AtBottom(a, b) /\ c = a - 1 /\ d = NodeWidth /\ e = a + 1 /\ f = NodeWidth
  BY <1>8
<1> QED BY <1>1, <1>2, <1>3, <1>4, <1>5, <1>6, <1>7, <1>8 DEF Fits

\* A third corner for the side.
Third(x, y, u, w, p, q) ==
  Fits(x, y, u, w, p, q) \/ Fits(p, q, x, y, u, w) \/ Fits(u, w, p, q, x, y)

LEMMA SideHasThird ==
  ASSUME NEW x \in Int, NEW y \in Int, NEW u \in Int, NEW w \in Int, HasSide(x, y, u, w)
  PROVE  \E p, q \in Int : Third(x, y, u, w, p, q)
<1> DEFINE Here(p, q) == p \in Int /\ q \in Int /\ Third(x, y, u, w, p, q)
<1> SUFFICES \E p, q : Here(p, q)
  OBVIOUS
<1>1. CASE u = x - 1 /\ w = y /\ (UpperHalf(x, y) \/ UpperLeft(x, y))
  <2>1. Here(x, y + 1) \/ Here(x - 1, y + 1)
    BY <1>1 DEF Third, Fits
  <2> QED BY <2>1
<1>2. CASE u = x + 1 /\ w = y /\ (LowerHalf(x, y - 1) \/ LowerRight(x + 1, y - 1))
  <2>1. Here(x, y - 1) \/ Here(x + 1, y - 1)
    BY <1>2 DEF Third, Fits
  <2> QED BY <2>1
<1>3. CASE u = x /\ w = y - 1 /\ (UpperHalf(x, y - 1) \/ LowerRight(x, y - 1))
  <2>1. Here(x - 1, y - 1) \/ Here(x - 1, y)
    BY <1>3 DEF Third, Fits
  <2> QED BY <2>1
<1>4. CASE u = x /\ w = y + 1 /\ (LowerHalf(x, y) \/ UpperLeft(x + 1, y))
  <2>1. Here(x + 1, y + 1) \/ Here(x + 1, y)
    BY <1>4 DEF Third, Fits
  <2> QED BY <2>1
<1>5. CASE u = x + 1 /\ w = y + 1 /\ (UpperHalf(x + 1, y) \/ AtTop(x + 2, y) \/ AtRight(x + 1, y - 1))
  <2>1. Here(x + 1, y) \/ Here(x + 2, y) \/ Here(x + 1, y - 1)
    BY <1>5 DEF Third, Fits, AtTop
  <2> QED BY <2>1
<1>6. CASE u = x - 1 /\ w = y - 1 /\ (LowerHalf(x - 1, y - 1) \/ AtLeft(x, y) \/ AtBottom(x - 1, y - 1))
  <2>1. Here(x - 1, y) \/ Here(x - 1, y + 1) \/ Here(x - 2, y)
    BY <1>6, WidthIs DEF Third, Fits, AtLeft, AtBottom
  <2> QED BY <2>1
<1>7. CASE u = x - 1 /\ w = y + 1 /\ (LowerRight(x, y) \/ AtRight(x, y) \/ AtBottom(x, y))
  <2>1. Here(x, y + 1) \/ Here(x, y + 2) \/ Here(x + 1, y + 1)
    BY <1>7, WidthIs DEF Third, Fits, AtBottom
  <2> QED BY <2>1
<1>8. CASE u = x + 1 /\ w = y - 1 /\ (UpperLeft(x + 1, y - 1) \/ AtTop(x + 1, y - 1) \/ AtLeft(x + 1, y - 1))
  <2>1. Here(x, y - 1) \/ Here(x - 1, y - 1) \/ Here(x, y - 2)
    BY <1>8, WidthIs DEF Third, Fits, AtTop, AtLeft
  <2> QED BY <2>1
<1>9. CASE u = x - 2 /\ w = y /\ AtTop(x, y)
  <2>1. Here(x - 1, y + 1)
    BY <1>9 DEF Third, Fits, AtTop
  <2> QED BY <2>1
<1>10. CASE u = x /\ w = y + 2 /\ AtLeft(x + 1, y + 1)
  <2>1. Here(x + 1, y + 1)
    BY <1>10 DEF Third, Fits, AtLeft
  <2> QED BY <2>1
<1>11. CASE u = x /\ w = y - 2 /\ AtRight(x, y - 2)
  <2>1. Here(x - 1, y - 1)
    BY <1>11 DEF Third, Fits
  <2> QED BY <2>1
<1>12. CASE u = x + 2 /\ w = y /\ AtBottom(x + 1, y - 1)
  <2>1. Here(x + 1, y - 1)
    BY <1>12, WidthIs DEF Third, Fits, AtBottom
  <2> QED BY <2>1
<1> QED BY <1>1, <1>2, <1>3, <1>4, <1>5, <1>6, <1>7, <1>8, <1>9, <1>10, <1>11, <1>12 DEF HasSide

\* The sides of all triangles: three times as many.
AllSides == UNION {Sides(t) : t \in Triangles}

LEMMA SidesOfTriangles ==
  ASSUME NEW x \in Int, NEW y \in Int, NEW u \in Int, NEW w \in Int, HasSide(x, y, u, w)
  PROVE  <<Vertex(x, y), Vertex(u, w)>> \in AllSides
<1>1. PICK p, q \in Int : Third(x, y, u, w, p, q)
  BY SideHasThird
<1>2. CASE Fits(x, y, u, w, p, q)
  <2>1. Triangle(x, y, u, w, p, q) \in Triangles
    BY <1>2, FitsIsTriangle
  <2>2. <<Vertex(x, y), Vertex(u, w)>> \in Sides(Triangle(x, y, u, w, p, q))
    BY DEF Sides, Triangle
  <2> QED BY <2>1, <2>2 DEF AllSides
<1>3. CASE Fits(p, q, x, y, u, w)
  <2>1. Triangle(p, q, x, y, u, w) \in Triangles
    BY <1>3, FitsIsTriangle
  <2>2. <<Vertex(x, y), Vertex(u, w)>> \in Sides(Triangle(p, q, x, y, u, w))
    BY DEF Sides, Triangle
  <2> QED BY <2>1, <2>2 DEF AllSides
<1>4. CASE Fits(u, w, p, q, x, y)
  <2>1. Triangle(u, w, p, q, x, y) \in Triangles
    BY <1>4, FitsIsTriangle
  <2>2. <<Vertex(x, y), Vertex(u, w)>> \in Sides(Triangle(u, w, p, q, x, y))
    BY DEF Sides, Triangle
  <2> QED BY <2>1, <2>2 DEF AllSides
<1> QED BY <1>1, <1>2, <1>3, <1>4 DEF Third

Place(t, k) == IF k = 1 THEN <<t[1], t[2]>> ELSE IF k = 2 THEN <<t[2], t[3]>> ELSE <<t[3], t[1]>>

\* As many sides as the triangles have together: none is used twice.
LEMMA SidesCount == Cardinality(AllSides) = 3 * Cardinality(Triangles)
<1> DEFINE P == Triangles \X (1 .. 3)
           f == [p \in P |-> Place(p[1], p[2])]
<1>1. IsFiniteSet(P) /\ Cardinality(P) = 3 * Cardinality(Triangles)
  <2>1. IsFiniteSet(1 .. 3) /\ Cardinality(1 .. 3) = 3
    <3>1. 1 \in Int /\ 3 \in Int /\ ~(1 > 3) /\ 3 - 1 + 1 = 3
      OBVIOUS
    <3>2. IsFiniteSet(1 .. 3) /\ Cardinality(1 .. 3) = IF 1 > 3 THEN 0 ELSE 3 - 1 + 1
      BY <3>1, FS_Interval
    <3> QED BY <3>1, <3>2
  <2>2. IsFiniteSet(Triangles) /\ Cardinality(Triangles) \in Nat
    BY TrianglesFinite, FS_CardinalityType
  <2>3. IsFiniteSet(P) /\ Cardinality(P) = Cardinality(Triangles) * Cardinality(1 .. 3)
    BY <2>1, <2>2, FS_Product
  <2> QED BY <2>1, <2>2, <2>3
<1>2. \A t : Sides(t) = {Place(t, k) : k \in 1 .. 3}
  <2>1. 1 .. 3 = {1, 2, 3}
    OBVIOUS
  <2> QED BY <2>1 DEF Sides, Place
<1>3. \A p \in P : f[p] \in AllSides
  BY <1>2 DEF AllSides
<1>4. \A s \in AllSides : \E p \in P : f[p] = s
  <2> SUFFICES ASSUME NEW s \in AllSides PROVE \E p \in P : f[p] = s
    OBVIOUS
  <2>1. PICK t \in Triangles, k \in 1 .. 3 : s = Place(t, k)
    BY <1>2 DEF AllSides
  <2>2. <<t, k>> \in P /\ f[<<t, k>>] = s
    BY <2>1
  <2> QED BY <2>2
<1>5. ASSUME NEW t \in Triangles, NEW u \in Triangles, NEW k \in 1 .. 3, NEW l \in 1 .. 3,
             Place(t, k) = Place(u, l)
      PROVE  t = u /\ k = l
  <2>1. /\ t[1] = u[1] /\ t[2] = u[2] => t = u
        /\ t[2] = u[2] /\ t[3] = u[3] => t = u
        /\ t[3] = u[3] /\ t[1] = u[1] => t = u
        /\ ~(t[1] = u[2] /\ t[2] = u[3])
        /\ ~(t[1] = u[3] /\ t[2] = u[1])
        /\ ~(t[2] = u[3] /\ t[3] = u[1])
    BY SidesDiffer
  <2>2. /\ ~(u[1] = t[2] /\ u[2] = t[3])
        /\ ~(u[1] = t[3] /\ u[2] = t[1])
        /\ ~(u[2] = t[3] /\ u[3] = t[1])
    BY SidesDiffer
  <2> QED BY <1>5, <2>1, <2>2 DEF Place
<1>6. \A p, q \in P : f[p] = f[q] => p = q
  BY <1>5
<1>7. f \in Surjection(P, AllSides) /\ f \in Injection(P, AllSides)
  <2>1. f \in [P -> AllSides]
    BY <1>3
  <2> HIDE DEF f, P
  <2> QED BY <1>4, <1>6, <2>1 DEF Surjection, Injection, IsInjective
<1> HIDE DEF f, P
<1> QED BY <1>1, <1>7, FS_Surjection

\* The mesh is tiled, for every width.
LEMMA MeshIsTiled == Tiled
<1>1. ASSUME NEW t \in Triangles PROVE Cross(t) < 0
  <2>1. /\ Fits(Column(t[1]), Row(t[1]), Column(t[2]), Row(t[2]), Column(t[3]), Row(t[3]))
        /\ \A k \in 1 .. 3 : Column(t[k]) \in Int /\ Row(t[k]) \in Int
    BY EveryTriangleFits DEF TriangleFits
  <2>2. Column(t[1]) \in Int /\ Row(t[1]) \in Int /\ Column(t[2]) \in Int /\ Row(t[2]) \in Int
        /\ Column(t[3]) \in Int /\ Row(t[3]) \in Int
    BY <2>1
  <2> QED BY <2>1, <2>2, PlacesInRange DEF Cross
<1>2. ASSUME NEW s \in AllSides, <<s[2], s[1]>> \notin AllSides
      PROVE  RimEven(Column(s[1]), Row(s[1]), Column(s[2]), Row(s[2]))
  <2>1. PICK t \in Triangles : s \in Sides(t)
    BY DEF AllSides
  <2>2. /\ Fits(Column(t[1]), Row(t[1]), Column(t[2]), Row(t[2]), Column(t[3]), Row(t[3]))
        /\ \A k \in 1 .. 3 : /\ Column(t[k]) \in Int /\ Row(t[k]) \in Int
                             /\ t[k] = Vertex(Column(t[k]), Row(t[k]))
    BY EveryTriangleFits DEF TriangleFits
  <2>3. Column(t[1]) \in Int /\ Row(t[1]) \in Int /\ Column(t[2]) \in Int /\ Row(t[2]) \in Int
        /\ Column(t[3]) \in Int /\ Row(t[3]) \in Int
        /\ t[1] = Vertex(Column(t[1]), Row(t[1])) /\ t[2] = Vertex(Column(t[2]), Row(t[2])) /\ t[3] = Vertex(Column(t[3]), Row(t[3]))
    BY <2>2
  <2>4. /\ HasSide(Column(t[2]), Row(t[2]), Column(t[1]), Row(t[1]))
             \/ RimEven(Column(t[1]), Row(t[1]), Column(t[2]), Row(t[2]))
        /\ HasSide(Column(t[3]), Row(t[3]), Column(t[2]), Row(t[2]))
             \/ RimEven(Column(t[2]), Row(t[2]), Column(t[3]), Row(t[3]))
        /\ HasSide(Column(t[1]), Row(t[1]), Column(t[3]), Row(t[3]))
             \/ RimEven(Column(t[3]), Row(t[3]), Column(t[1]), Row(t[1]))
    BY <2>2, <2>3, SidesMeet
  <2>5. /\ HasSide(Column(t[2]), Row(t[2]), Column(t[1]), Row(t[1])) => <<t[2], t[1]>> \in AllSides
        /\ HasSide(Column(t[3]), Row(t[3]), Column(t[2]), Row(t[2])) => <<t[3], t[2]>> \in AllSides
        /\ HasSide(Column(t[1]), Row(t[1]), Column(t[3]), Row(t[3])) => <<t[1], t[3]>> \in AllSides
    BY <2>3, SidesOfTriangles
  <2>6. s = <<t[1], t[2]>> \/ s = <<t[2], t[3]>> \/ s = <<t[3], t[1]>>
    BY <2>1 DEF Sides
  <2> QED BY <1>2, <2>4, <2>5, <2>6
<1>3. ASSUME NEW s \in AllSides, <<s[2], s[1]>> \notin AllSides
      PROVE  /\ \/ Column(s[1]) = Column(s[2]) /\ Column(s[1]) \in {0, NodeWidth}
                \/ Row(s[1]) = Row(s[2]) /\ Row(s[1]) \in {0, NodeWidth}
             /\ \A k \in 1 .. 2 : Column(s[k]) % 2 = 0 /\ Row(s[k]) % 2 = 0
  <2>1. RimEven(Column(s[1]), Row(s[1]), Column(s[2]), Row(s[2]))
    BY <1>2, <1>3
  <2>2. \A k \in 1 .. 2 : k = 1 \/ k = 2
    OBVIOUS
  <2> QED BY <2>1, <2>2 DEF RimEven
<1> QED BY <1>1, <1>3, SidesCount DEF Tiled, AllSides

\* The border of the hole with its corner at X, Y.
OnBorder(X, Y, x, y) ==
  /\ X <= x /\ x <= X + NodeHalf /\ Y <= y /\ y <= Y + NodeHalf
  /\ x \in {X, X + NodeHalf} \/ y \in {Y, Y + NodeHalf}
InsideHole(X, Y, x, y) == X < x /\ x < X + NodeHalf /\ Y < y /\ y < Y + NodeHalf

\* No triangle reaches through the border of an inner hole.
LEMMA BorderKeepsApart ==
  ASSUME NEW X \in 1 .. NodeHalf - 1, NEW Y \in 1 .. NodeHalf - 1,
         NEW a \in Int, NEW b \in Int, NEW c \in Int, NEW d \in Int, NEW e \in Int, NEW f \in Int,
         Fits(a, b, c, d, e, f),
         InsideHole(X, Y, a, b) \/ InsideHole(X, Y, c, d) \/ InsideHole(X, Y, e, f)
  PROVE  /\ X <= a /\ a <= X + NodeHalf /\ Y <= b /\ b <= Y + NodeHalf
         /\ X <= c /\ c <= X + NodeHalf /\ Y <= d /\ d <= Y + NodeHalf
         /\ X <= e /\ e <= X + NodeHalf /\ Y <= f /\ f <= Y + NodeHalf
BY WidthIs DEF InsideHole, Fits, UpperHalf, LowerHalf, LowerRight, UpperLeft, AtTop, AtLeft, AtRight, AtBottom

\* A triangle that has the place x, y as a corner and none inside the hole.
KeptAround(X, Y, x, y, a, b, c, d, e, f) ==
  /\ Fits(a, b, c, d, e, f)
  /\ (x = a /\ y = b) \/ (x = c /\ y = d) \/ (x = e /\ y = f)
  /\ ~InsideHole(X, Y, a, b) /\ ~InsideHole(X, Y, c, d) /\ ~InsideHole(X, Y, e, f)

\* Every place of the border is a corner of such a triangle.
LEMMA BorderIsUsed ==
  ASSUME NEW X \in 1 .. NodeHalf - 1, NEW Y \in 1 .. NodeHalf - 1, NEW x \in Int, NEW y \in Int,
         OnBorder(X, Y, x, y)
  PROVE  \E a, b, c, d, e, f \in Int : KeptAround(X, Y, x, y, a, b, c, d, e, f)
<1> DEFINE width == NodeWidth
           Used == \E a, b, c, d, e, f \in Int : KeptAround(X, Y, x, y, a, b, c, d, e, f)
<1> SUFFICES Used
  OBVIOUS
<1>1. /\ width \in Int /\ width >= 4 /\ width % 2 = 0 /\ width = 2 * NodeHalf /\ NodeHalf \in Int /\ X \in Int /\ Y \in Int
      /\ 1 <= X /\ X <= NodeHalf - 1 /\ 1 <= Y /\ Y <= NodeHalf - 1
      /\ 1 <= x /\ x <= width - 1 /\ 1 <= y /\ y <= width - 1
  BY WidthIs DEF OnBorder
<1>2. x % 2 \in {0, 1} /\ y % 2 \in {0, 1} /\ x - 1 \in Int /\ x + 1 \in Int /\ y - 1 \in Int /\ y + 1 \in Int
  BY <1>1
<1>3. CASE y = width - 1
  <2>1. CASE x % 2 = 1
    <3>1. KeptAround(X, Y, x, y, x, y, x - 1, width, x + 1, width)
      BY <1>1, <1>3, <2>1 DEF KeptAround, InsideHole, Fits, AtBottom
    <3> QED BY <1>1, <1>2, <3>1
  <2>2. CASE x % 2 = 0
    <3>1. KeptAround(X, Y, x, y, x, y, x - 1, y, x, y + 1)
      BY <1>1, <1>3, <2>2 DEF KeptAround, InsideHole, Fits, UpperHalf
    <3> QED BY <1>1, <1>2, <3>1
  <2> QED BY <1>2, <2>1, <2>2
<1>4. CASE y # width - 1 /\ (x = X \/ y = Y + NodeHalf) /\ (x > 1 \/ y % 2 = 0)
  <2>1. KeptAround(X, Y, x, y, x, y, x - 1, y, x, y + 1)
    BY <1>1, <1>4 DEF KeptAround, InsideHole, Fits, UpperHalf
  <2> QED BY <1>1, <1>2, <2>1
<1>5. CASE y # width - 1 /\ x = 1 /\ y % 2 = 1
  <2>1. KeptAround(X, Y, x, y, x, y, 0, y - 1, 0, y + 1)
    BY <1>1, <1>5 DEF KeptAround, InsideHole, Fits, AtLeft
  <2> QED BY <1>1, <1>2, <2>1
<1>6. CASE y # width - 1 /\ x = X + NodeHalf /\ (x < width - 1 \/ y % 2 = 1)
  <2>1. KeptAround(X, Y, x, y, x, y, x, y + 1, x + 1, y + 1)
    BY <1>1, <1>6 DEF KeptAround, InsideHole, Fits, LowerHalf
  <2> QED BY <1>1, <1>2, <2>1
<1>7. CASE y # width - 1 /\ x = X + NodeHalf /\ x = width - 1 /\ y % 2 = 0
  <2>1. KeptAround(X, Y, x, y, width, y, x, y, x, y + 1)
    BY <1>1, <1>7 DEF KeptAround, InsideHole, Fits, UpperLeft
  <2> QED BY <1>1, <1>2, <2>1
<1>8. CASE y = Y /\ y > 1 /\ x > 1
  <2>1. KeptAround(X, Y, x, y, x - 1, y - 1, x - 1, y, x, y)
    BY <1>1, <1>8 DEF KeptAround, InsideHole, Fits, LowerHalf
  <2> QED BY <1>1, <1>2, <2>1
<1>9. CASE y = Y /\ y = 1 /\ x % 2 = 1
  <2>1. KeptAround(X, Y, x, y, x + 1, y - 1, x - 1, y - 1, x, y)
    BY <1>1, <1>9 DEF KeptAround, InsideHole, Fits, AtTop
  <2> QED BY <1>1, <1>2, <2>1
<1>10. CASE y = Y /\ y = 1 /\ x % 2 = 0
  <2>1. KeptAround(X, Y, x, y, x, y - 1, x - 1, y, x, y)
    BY <1>1, <1>10 DEF KeptAround, InsideHole, Fits, LowerRight
  <2> QED BY <1>1, <1>2, <2>1
<1>11. x = X \/ x = X + NodeHalf \/ y = Y \/ y = Y + NodeHalf
  BY DEF OnBorder
<1> HIDE DEF Used, width
<1>12. y % 2 = 0 \/ y % 2 = 1
  BY <1>2
<1>13. x % 2 = 0 \/ x % 2 = 1
  BY <1>2
<1>14. CASE x = X
  BY <1>1, <1>3, <1>4, <1>5, <1>12, <1>14
<1>15. CASE x = X + NodeHalf
  BY <1>1, <1>3, <1>6, <1>7, <1>12, <1>15
<1>16. CASE y = Y + NodeHalf
  BY <1>1, <1>3, <1>4, <1>5, <1>12, <1>16
<1>17. CASE y = Y
  <2>1. X <= x
    BY DEF OnBorder
  <2>2. x = X \/ x > 1
    BY <1>1, <2>1
  <2>3. CASE y = 1
    BY <1>9, <1>10, <1>13, <1>17, <2>3
  <2>4. CASE y > 1 /\ x > 1
    BY <1>8, <1>17, <2>4
  <2> QED BY <1>1, <1>14, <2>2, <2>3, <2>4
<1> QED BY <1>11, <1>14, <1>15, <1>16, <1>17

\* Every other place of the rim of the mesh is a corner of some triangle.
LEMMA RimIsUsed ==
  ASSUME NEW x \in 0 .. NodeWidth, NEW y \in 0 .. NodeWidth, x % 2 = 0, y % 2 = 0,
         x \in {0, NodeWidth} \/ y \in {0, NodeWidth}
  PROVE  \E a, b, c, d, e, f \in Int :
           Fits(a, b, c, d, e, f) /\ ((x = a /\ y = b) \/ (x = c /\ y = d) \/ (x = e /\ y = f))
<1> DEFINE width == NodeWidth
           At(a, b, c, d, e, f) ==
             Fits(a, b, c, d, e, f) /\ ((x = a /\ y = b) \/ (x = c /\ y = d) \/ (x = e /\ y = f))
<1>1. width \in Int /\ width >= 4 /\ width % 2 = 0 /\ x \in Int /\ y \in Int /\ 0 <= x /\ x <= width /\ 0 <= y /\ y <= width
  BY WidthIs
<1>2. x - 1 \in Int /\ x + 1 \in Int /\ y - 1 \in Int /\ y + 1 \in Int /\ x - 2 \in Int /\ x + 2 \in Int
      /\ y - 2 \in Int /\ y + 2 \in Int /\ width - 1 \in Int
  BY <1>1
<1>3. CASE y = 0 /\ x > 0
  <2>1. At(x, 0, x - 2, 0, x - 1, 1)
    BY <1>1, <1>3 DEF Fits, AtTop
  <2> QED BY <1>1, <1>2, <2>1
<1>4. CASE y = width /\ x < width
  <2>1. At(x + 1, width - 1, x, width, x + 2, width)
    BY <1>1, <1>4 DEF Fits, AtBottom
  <2> QED BY <1>1, <1>2, <2>1
<1>5. CASE x = 0 /\ y < width
  <2>1. At(1, y + 1, 0, y, 0, y + 2)
    BY <1>1, <1>5 DEF Fits, AtLeft
  <2> QED BY <1>1, <1>2, <2>1
<1>6. CASE x = width /\ y > 0
  <2>1. At(width, y - 2, width - 1, y - 1, width, y)
    BY <1>1, <1>6 DEF Fits, AtRight
  <2> QED BY <1>1, <1>2, <2>1
<1> HIDE DEF At
<1> QED BY <1>1, <1>3, <1>4, <1>5, <1>6

\* t is the triangle with these corners.
IsAt(t, a, b, c, d, e, f) ==
  /\ t \in Triangles
  /\ Column(t[1]) = a /\ Row(t[1]) = b /\ Column(t[2]) = c /\ Row(t[2]) = d
  /\ Column(t[3]) = e /\ Row(t[3]) = f

LEMMA CornersAre ==
  ASSUME NEW a \in Int, NEW b \in Int, NEW c \in Int, NEW d \in Int, NEW e \in Int, NEW f \in Int,
         Fits(a, b, c, d, e, f)
  PROVE  IsAt(Triangle(a, b, c, d, e, f), a, b, c, d, e, f)
<1> DEFINE t == Triangle(a, b, c, d, e, f)
<1>1. /\ a \in 0 .. NodeWidth /\ b \in 0 .. NodeWidth /\ c \in 0 .. NodeWidth
      /\ d \in 0 .. NodeWidth /\ e \in 0 .. NodeWidth /\ f \in 0 .. NodeWidth
  BY PlacesInRange
<1>2. /\ Column(Vertex(a, b)) = a /\ Row(Vertex(a, b)) = b /\ Column(Vertex(c, d)) = c /\ Row(Vertex(c, d)) = d
      /\ Column(Vertex(e, f)) = e /\ Row(Vertex(e, f)) = f
  BY <1>1, VertexPlace
<1>3. t[1] = Vertex(a, b) /\ t[2] = Vertex(c, d) /\ t[3] = Vertex(e, f)
  BY DEF Triangle
<1>4. t \in Triangles
  BY FitsIsTriangle
<1> HIDE DEF t
<1>5. IsAt(t, a, b, c, d, e, f)
  BY <1>2, <1>3, <1>4 DEF IsAt
<1> QED BY <1>5 DEF t

\* A place of the border of an inner hole is a corner of a triangle that is kept.
LEMMA BorderIsKept ==
  ASSUME NEW h \in InnerHoles, NEW x \in Int, NEW y \in Int, OnBorder(h.x, h.y, x, y)
  PROVE  \E m \in Corners(Kept(h)) : Column(m) = x /\ Row(m) = y
<1>1. h.x \in 1 .. NodeHalf - 1 /\ h.y \in 1 .. NodeHalf - 1
  BY DEF InnerHoles
<1>2. PICK a, b, c, d, e, f \in Int : KeptAround(h.x, h.y, x, y, a, b, c, d, e, f)
  BY <1>1, BorderIsUsed
<1>3. PICK t : t = Triangle(a, b, c, d, e, f)
  OBVIOUS
<1>4. /\ Fits(a, b, c, d, e, f)
      /\ (x = a /\ y = b) \/ (x = c /\ y = d) \/ (x = e /\ y = f)
      /\ ~InsideHole(h.x, h.y, a, b) /\ ~InsideHole(h.x, h.y, c, d) /\ ~InsideHole(h.x, h.y, e, f)
  BY <1>2 DEF KeptAround
<1>5. /\ t \in Triangles
      /\ Column(t[1]) = a /\ Row(t[1]) = b /\ Column(t[2]) = c /\ Row(t[2]) = d
      /\ Column(t[3]) = e /\ Row(t[3]) = f
  <2>1. Fits(a, b, c, d, e, f)
    BY <1>4
  <2>2. IsAt(Triangle(a, b, c, d, e, f), a, b, c, d, e, f)
    BY <2>1, CornersAre
  <2> QED BY <1>3, <2>2 DEF IsAt
<1>6. ~InHole(h, t[1]) /\ ~InHole(h, t[2]) /\ ~InHole(h, t[3])
  BY <1>4, <1>5 DEF InHole, InsideHole
<1>7. \A k \in 1 .. 3 : k = 1 \/ k = 2 \/ k = 3
  OBVIOUS
<1>8. t \in Kept(h)
  BY <1>5, <1>6, <1>7 DEF Kept
<1>9. t[1] \in Corners(Kept(h)) /\ t[2] \in Corners(Kept(h)) /\ t[3] \in Corners(Kept(h))
  BY <1>8 DEF Corners
<1> QED BY <1>4, <1>5, <1>9

\* A place of the rim with even coordinates is a corner of a triangle.
LEMMA RimIsCorner ==
  ASSUME NEW x \in 0 .. NodeWidth, NEW y \in 0 .. NodeWidth, x % 2 = 0, y % 2 = 0,
         x \in {0, NodeWidth} \/ y \in {0, NodeWidth}
  PROVE  \E m \in Corners(Triangles) : Column(m) = x /\ Row(m) = y
<1>1. PICK a, b, c, d, e, f \in Int :
        Fits(a, b, c, d, e, f) /\ ((x = a /\ y = b) \/ (x = c /\ y = d) \/ (x = e /\ y = f))
  BY RimIsUsed
<1>2. PICK t : t = Triangle(a, b, c, d, e, f)
  OBVIOUS
<1>3. /\ t \in Triangles
      /\ Column(t[1]) = a /\ Row(t[1]) = b /\ Column(t[2]) = c /\ Row(t[2]) = d
      /\ Column(t[3]) = e /\ Row(t[3]) = f
  <2>1. Fits(a, b, c, d, e, f)
    BY <1>1
  <2>2. IsAt(Triangle(a, b, c, d, e, f), a, b, c, d, e, f)
    BY <2>1, CornersAre
  <2> QED BY <1>2, <2>2 DEF IsAt
<1>4. t[1] \in Corners(Triangles) /\ t[2] \in Corners(Triangles) /\ t[3] \in Corners(Triangles)
  BY <1>3 DEF Corners
<1> QED BY <1>1, <1>3, <1>4

LEMMA CornersFit ==
  ASSUME NEW m \in Corners(Triangles)
  PROVE  Column(m) \in 0 .. NodeWidth /\ Row(m) \in 0 .. NodeWidth
<1>1. PICK t \in Triangles : m \in {t[1], t[2], t[3]}
  BY DEF Corners
<1>2. /\ Column(t[1]) \in 0 .. NodeWidth /\ Row(t[1]) \in 0 .. NodeWidth
      /\ Column(t[2]) \in 0 .. NodeWidth /\ Row(t[2]) \in 0 .. NodeWidth
      /\ Column(t[3]) \in 0 .. NodeWidth /\ Row(t[3]) \in 0 .. NodeWidth
  BY EveryTriangleFits DEF TriangleFits
<1> QED BY <1>1, <1>2

\* The two halves of what an inner hole needs.
LEMMA NothingLost ==
  ASSUME NEW h \in InnerHoles, NEW t \in Triangles \ Kept(h), NEW k \in 1 .. 3
  PROVE  WithinHole(h, t[k])
<1>1. h.x \in 1 .. NodeHalf - 1 /\ h.y \in 1 .. NodeHalf - 1
  BY DEF InnerHoles
<1>2. /\ Column(t[1]) \in Int /\ Row(t[1]) \in Int /\ Column(t[2]) \in Int /\ Row(t[2]) \in Int
      /\ Column(t[3]) \in Int /\ Row(t[3]) \in Int
      /\ Fits(Column(t[1]), Row(t[1]), Column(t[2]), Row(t[2]), Column(t[3]), Row(t[3]))
  BY EveryTriangleFits DEF TriangleFits
<1>3. \A j \in 1 .. 3 : j = 1 \/ j = 2 \/ j = 3
  OBVIOUS
<1>4. InHole(h, t[1]) \/ InHole(h, t[2]) \/ InHole(h, t[3])
  BY <1>3 DEF Kept
<1>5. \/ InsideHole(h.x, h.y, Column(t[1]), Row(t[1])) \/ InsideHole(h.x, h.y, Column(t[2]), Row(t[2]))
      \/ InsideHole(h.x, h.y, Column(t[3]), Row(t[3]))
  BY <1>4 DEF InHole, InsideHole
<1>6. WithinHole(h, t[1]) /\ WithinHole(h, t[2]) /\ WithinHole(h, t[3])
  BY <1>1, <1>2, <1>5, BorderKeepsApart DEF WithinHole
<1> QED BY <1>3, <1>6

\* The places of the border of hole h.
HoleBorder(h) == {p \in Int \X Int : OnBorder(h.x, h.y, p[1], p[2])}

\* What is kept has all of the border, and so has the rim of the child.
LEMMA SewnOutside ==
  ASSUME NEW h \in InnerHoles
  PROVE  {<<Column(n), Row(n)>> : n \in {m \in Corners(Kept(h)) : WithinHole(h, m)}} = HoleBorder(h)
<1> DEFINE L == {<<Column(n), Row(n)>> : n \in {m \in Corners(Kept(h)) : WithinHole(h, m)}}
<1>1. ASSUME NEW p \in L PROVE p \in HoleBorder(h)
  <2>1. PICK m \in Corners(Kept(h)) : WithinHole(h, m) /\ p = <<Column(m), Row(m)>>
    OBVIOUS
  <2>2. PICK t \in Kept(h) : m \in {t[1], t[2], t[3]}
    BY DEF Corners
  <2>3. t \in Triangles /\ ~InHole(h, m)
    BY <2>2 DEF Kept
  <2>4. Column(m) \in Int /\ Row(m) \in Int
    BY <2>2, <2>3, CornersFit DEF Corners
  <2>5. OnBorder(h.x, h.y, Column(m), Row(m))
    <3>1. h.x \in Int /\ h.y \in Int /\ NodeHalf \in Int
      BY WidthIs DEF InnerHoles
    <3> QED BY <2>1, <2>3, <2>4, <3>1 DEF OnBorder, WithinHole, InHole
  <2> QED BY <2>1, <2>4, <2>5 DEF HoleBorder
<1>2. ASSUME NEW p \in HoleBorder(h) PROVE p \in L
  <2>1. PICK x, y \in Int : p = <<x, y>>
    BY DEF HoleBorder
  <2>2. OnBorder(h.x, h.y, x, y)
    BY <2>1 DEF HoleBorder
  <2>3. PICK m \in Corners(Kept(h)) : Column(m) = x /\ Row(m) = y
    BY <2>2, BorderIsKept
  <2>4. WithinHole(h, m)
    BY <2>2, <2>3 DEF OnBorder, WithinHole
  <2> QED BY <2>1, <2>3, <2>4
<1> QED BY <1>1, <1>2

LEMMA SewnInside == ASSUME NEW h \in InnerHoles PROVE RimInParent(h) = HoleBorder(h)
<1>1. h.x \in Int /\ h.y \in Int /\ NodeHalf \in Int /\ NodeWidth \in Int /\ NodeWidth = 2 * NodeHalf /\ NodeHalf >= 0
  BY WidthIs DEF InnerHoles
<1>2. ASSUME NEW p \in RimInParent(h) PROVE p \in HoleBorder(h)
  <2>1. PICK m \in Corners(Triangles) : OnRim(m) /\ p = <<h.x + Column(m) \div 2, h.y + Row(m) \div 2>>
    BY DEF RimInParent
  <2>2. Column(m) \in 0 .. NodeWidth /\ Row(m) \in 0 .. NodeWidth
    BY CornersFit
  <2>3. PICK x, y \in Int : x = h.x + Column(m) \div 2 /\ y = h.y + Row(m) \div 2
    BY <1>1, <2>2
  <2>4. OnBorder(h.x, h.y, x, y)
    BY <1>1, <2>1, <2>2, <2>3 DEF OnBorder, OnRim
  <2> QED BY <2>1, <2>3, <2>4 DEF HoleBorder
<1>3. ASSUME NEW p \in HoleBorder(h) PROVE p \in RimInParent(h)
  <2>1. PICK x, y \in Int : p = <<x, y>>
    BY DEF HoleBorder
  <2>2. OnBorder(h.x, h.y, x, y)
    BY <2>1 DEF HoleBorder
  <2>3. PICK i, j \in Int : i = x - h.x /\ j = y - h.y
    BY <1>1
  <2>7. PICK u, w \in Int : u = 2 * i /\ w = 2 * j
    BY <2>3
  <2>8. /\ 0 <= i /\ i <= NodeHalf /\ 0 <= j /\ j <= NodeHalf
        /\ (i = 0 \/ i = NodeHalf) \/ (j = 0 \/ j = NodeHalf)
    BY <1>1, <2>2, <2>3 DEF OnBorder
  <2>9. u % 2 = 0 /\ w % 2 = 0 /\ u \div 2 = i /\ w \div 2 = j
    BY <2>7
  <2>10. u \in 0 .. NodeWidth /\ w \in 0 .. NodeWidth
    BY <1>1, <2>7, <2>8
  <2>11. u \in {0, NodeWidth} \/ w \in {0, NodeWidth}
    BY <1>1, <2>7, <2>8
  <2>12. x = h.x + i /\ y = h.y + j
    BY <1>1, <2>3
  <2>4. /\ u \in 0 .. NodeWidth /\ w \in 0 .. NodeWidth /\ u % 2 = 0 /\ w % 2 = 0
        /\ u \in {0, NodeWidth} \/ w \in {0, NodeWidth}
        /\ x = h.x + u \div 2 /\ y = h.y + w \div 2
    BY <2>9, <2>10, <2>11, <2>12
  <2>5. PICK m \in Corners(Triangles) : Column(m) = u /\ Row(m) = w
    BY <2>4, RimIsCorner
  <2>6. OnRim(m)
    BY <2>4, <2>5 DEF OnRim
  <2> QED BY <2>1, <2>4, <2>5, <2>6 DEF RimInParent
<1> QED BY <1>2, <1>3

\* A level ends where its child begins, for every hole that does not touch the rim.
LEMMA InnerHolesSewn == \A h \in InnerHoles : Sewn(h)
BY NothingLost, SewnOutside, SewnInside DEF Sewn

\* Below level 0 a hole is centered or off by one, so it does not touch the rim of a
\* mesh that is at least eight quads wide.
LEMMA HolesAreInner ==
  ASSUME AtIsPoint, DeepestIs, NodeFourth >= 2, NEW p \in Patches, p.child # 0, p.level > 0
  PROVE  HoleOf(p) \in InnerHoles
<1>0. PICK s \in FaceSides : \E l \in DrawnOn(s) \cup {0} : p = Patch(s, l, Child(s, l))
  BY DEF Patches, FaceSides
<1>1. PICK l \in DrawnOn(s) \cup {0} : p = Patch(s, l, Child(s, l))
  BY <1>0
<1>2. p.side = s /\ p.level = l /\ p.child = Child(s, l)
  BY <1>1 DEF Patch
<1>3. Child(s, l) = l + 1 /\ l \in Nat
  BY <1>2, ChildIsNext
<1>4. p.child # 1
  <2>1. l \in Nat /\ l > 0 /\ p.child = l + 1
    BY <1>2, <1>3
  <2> QED BY <2>1
<1> DEFINE off == HoleOffset(p.child, Center(p.side, p.child))
<1>5. off.x \in {-1, 0, 1} /\ off.y \in {-1, 0, 1}
  BY <1>4 DEF HoleOffset
<1> HIDE DEF off
<1>6. HoleOf(p) = [x |-> NodeFourth + off.x, y |-> NodeFourth + off.y]
  BY DEF HoleOf, off
<1>7. NodeFourth \in Int /\ NodeHalf = 2 * NodeFourth
  BY NodeAssumption DEF NodeHalf
<1>8. NodeFourth + off.x \in 1 .. NodeHalf - 1 /\ NodeFourth + off.y \in 1 .. NodeHalf - 1
  BY <1>5, <1>7
<1> QED BY <1>6, <1>8 DEF InnerHoles

LEMMA MeshSewnAt ==
  ASSUME AtIsPoint, DeepestIs, NodeFourth >= 2
  PROVE  MeshSewn
BY MeshIsTiled, InnerHolesSewn, HolesAreInner DEF MeshSewn, SewnAt

---------------------------------------------------------------------------
\* A drawing of the planet is a camera that moves.
LEMMA DrawingIsCamera == Spec => CameraSpec
<1>1. Init => CameraInit
  BY DEF Init
<1>2. [Next]_vars => [CameraMove]_camera
  BY DEF Next, Move, Zoom, vars, camera
<1> QED BY <1>1, <1>2, PTL DEF Spec, CameraSpec

LEMMA DrawingTyped == Spec => [](AtIsPoint /\ DeepestIs)
<1>1. Init => DeepestIs
  BY LevelsAssumption DEF Init, DeepestIs
<1>2. DeepestIs /\ [Next]_vars => DeepestIs'
  BY DEF Next, Move, Zoom, vars, DeepestIs
<1>3. CameraInv => AtIsPoint
  BY FoundIsNear DEF AtIsPoint, at, W
<1> QED BY <1>1, <1>2, <1>3, CameraTyped, DrawingIsCamera, PTL DEF Spec

\* Wherever the camera is, its point is a point of a face and the patches fit the
\* array they are written to.
THEOREM PatchesFitFaceData == Spec => []TypeOK
<1>1. CameraInv /\ AtIsPoint /\ DeepestIs => TypeOK
  BY PatchesFit DEF TypeOK, CameraInv, AtIsPoint, DeepestIs
<1> QED BY <1>1, CameraTyped, DrawingTyped, DrawingIsCamera, PTL

\* Every hole is exactly where its child is drawn, on the face beneath the camera
\* and on its neighbors, widened or not: nothing of the planet is left out between
\* two levels or drawn twice.
THEOREM HolesAlwaysFit == Spec => []HolesFit
BY DrawingTyped, HolesFitAt, PTL

\* Across an edge that both faces count in the same direction, and at a corner, two
\* faces that draw a level draw the same stretch of the edge they share.
THEOREM SeamsAlwaysMeet == Spec => []SeamsMeet
<1>1. AtIsPoint /\ DeepestIs => SeamsMeet
  BY StraightEdgesMeetAt, CornersMeetAt DEF SeamsMeet
<1> QED BY <1>1, DrawingTyped, PTL

\* The triangles that onCreate writes cover the square of a level once, without a crack,
\* and below level 0 a level ends exactly where its child begins.  An offset hole of a
\* mesh of four quads would touch the rim; the code's mesh is 128 quads wide.
THEOREM MeshAlwaysSewn == ASSUME NodeFourth >= 2 PROVE Spec => []MeshSewn
<1>1. AtIsPoint /\ DeepestIs => MeshSewn
  BY MeshSewnAt
<1> QED BY <1>1, DrawingTyped, PTL
=============================================================================
